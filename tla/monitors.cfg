SPECIFICATION Spec
CONSTANTS
  Day = 4
  WeekDays = 2
  ScanDays = 4
  Schedulers = {s1, s2}
  Every = 2
  Grace = 1
  Retention = 1
  MaxFailures = 2
  MissedRunPolicies = {"run_latest", "skip"}
  NoTime = NoTime
  MaxTime = 5
  MaxEdits = 1
  MaxManual = 1
SYMMETRY Symmetry
INVARIANTS OneActiveRun SlotsAreAccounted
PROPERTY ReviewedDefinition
CHECK_DEADLOCK FALSE
