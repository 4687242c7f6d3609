SPECIFICATION Spec
CONSTANTS
  Tunnels = {t1, t2}
  Hosts = {"listed", "other", "192.0.2.1"}
  Allowed = {"listed"}
  MaxTunnels = 1
  IdleLimit = 2
  TimeLimit = 3
  ByteLimit = 1
  MaxRedirects = 1
  MaxBytes = 2
  PerPage = 2
  MaxPages = 4
  NoId = NoId
  Subject = Subject
  Elsewhere = Elsewhere
  Apex = 0
  MaxResults = 2
  MaxJobs = 1
  NoMessage = NoMessage
INVARIANTS EgressIsBounded AnswersAreTrue PreviewsAreTrue
CHECK_DEADLOCK FALSE
