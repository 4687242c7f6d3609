SPECIFICATION Spec
CONSTANTS
  Runs = {r1}
  Workers = {w1}
  NoRun = NoRun
  PromptCancels = TRUE
  NumConnectors = 1
  SourcePages <- OnePage
  MaxPages = 2
  MaxClaims = 2
  MaxAttempts = 1
INVARIANT ResumesWithoutDuplicates
