SPECIFICATION Spec
CONSTANTS
  Workers = {w1, w2}
  Parts = {"indexing", "answers", "changes", "retention", "imports", "questions"}
  MaxFaults = 1
  MaxEdits = 2
  Records = {r1}
  MaxAttempts = 2
  MaxModels = 2
  MaxClaims = 2
  MaxTries = 2
  MaxCalls = 2
  MaxRows = 2
  MaxStatements = 2
  NoAttribute = NoAttribute
  Passages <- ThreePassages
  Results <- OneResult
  Items = {i1}
  Values = {v1, v2}
  Scopes = {1, 2}
  SearchLimit = 2
  MaxRuns = 3
  RetainedRuns = 2
  Jobs = {j1}
  KeepLast = 1
  MaxRuleEdits = 1
SYMMETRY Symmetry
INVARIANTS OneAnswer ChangesAreTrue AnswersAreGrounded
PROPERTIES IndexingObeys PolicyIsObeyed RetentionIsSafe
CHECK_DEADLOCK FALSE
