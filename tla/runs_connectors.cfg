SPECIFICATION Spec
CONSTANTS
  Runs = {r1}
  Workers = {w1}
  NoRun = NoRun
  PromptCancels = FALSE
  NumConnectors = 2
  SourcePages <- TwoThenOne
  MaxPages = 2
  MaxClaims = 3
  MaxAttempts = 2
INVARIANTS FinishedRunIsClosed CompletedIsComplete FetchBound
