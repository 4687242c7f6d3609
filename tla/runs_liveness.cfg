SPECIFICATION FairSpec
CONSTANTS
  Runs = {r1}
  Workers = {w1}
  NoRun = NoRun
  PromptCancels = FALSE
  NumConnectors = 1
  SourcePages <- TwoPages
  MaxPages = 2
  MaxClaims = 2
  MaxAttempts = 2
PROPERTIES EveryRunFinishes CancelSticks
