SPECIFICATION Spec
CONSTANTS
  Runs = {r1}
  Workers = {w1, w2}
  NoRun = NoRun
  PromptCancels = TRUE
  NumConnectors = 1
  SourcePages <- TwoPages
  MaxPages = 3
  MaxClaims = 2
  MaxAttempts = 1
SYMMETRY Symmetry
INVARIANTS TypeOK OneHolder NeverForgotten PagesInOrder StopIsPrompt
PROPERTIES FinishedIsFinal ImplementsLifecycle
