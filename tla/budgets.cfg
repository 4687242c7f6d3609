SPECIFICATION Spec
CONSTANTS
  NumBudgets = 2
  RunBudgets <- OneExecution
  Collectors = {c1, c2}
  Tickets = {t1, t2}
  Requests <- Both
  EngineRequests <- Engine
  Limits <- OneOrNone
  Initial <- TwoAndTwo
  NoLimit = NoLimit
  NoTicket = NoTicket
  MaxPeriod = 1
  MaxRefusals = 1
  ProviderUnits = {}
SYMMETRY Symmetry
INVARIANTS LedgersAddUp SentIsCounted
PROPERTIES WithinTheLimit EndsOnce
CHECK_DEADLOCK FALSE
