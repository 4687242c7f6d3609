SPECIFICATION Spec
CONSTANTS
  Runs = {r1, r2, r3}
  Workers = {w1, w2, w3}
  MaxConcurrentRuns = 2
  NoRun = NoRun
  NoWorker = NoWorker
  MaxExecutions = 4
  MaxCrashes = 1
SYMMETRY Symmetry
INVARIANTS RowsAreReleased WithinTheSlots
CHECK_DEADLOCK FALSE
