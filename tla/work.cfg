SPECIFICATION Spec
CONSTANTS
  Workers = {w1, w2}
  Users = {u1, u2, u3}
  Parts = {"deliveries", "jobs", "files", "accounts", "exchange"}
  MaxFaults = 1
  MaxEdits = 2
  MaxAttempts = 2
  MaxEmits = 2
  MaxJobs = 2
  Importers = {i1}
  Deletions = {d1, d2}
  First = e1
  MaxRequests = 2
SYMMETRY Symmetry
INVARIANTS RecordsAreWhole CompletedMeansGone RecordsHaveFiles AdministratorRemains
PROPERTIES EndedDeliveriesStay ExchangeIsHonest
CHECK_DEADLOCK FALSE
