CONSTANTS
  Requests = {r1}
  Callers = {c1, c2, c3}
  Calls = {r1, c1, c2, c3}
  Ids = {r1}
  Versions = {"pending", "completed"}
  None = None
  KeyConfigured = TRUE
  MaxAge = 1
  RequestTimeout = 2
  MaxCrashes = 2
SPECIFICATION FairSpec
INVARIANTS HandledIsRecent OkIsRecorded StaleIsRaced
PROPERTY RequestsEnd
