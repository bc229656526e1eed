CONSTANTS
  Tasks = {t1, t2, t3}
  Users = {u1}
  Fees <- SomeFees
  Limit = 3000000
  PoolSize = 2
  NumericDecodes = TRUE
  None = None
SPECIFICATION FairSpec
INVARIANTS WithinLimit AllOrNothing UsageFollowsRoutes
PROPERTIES ImplementsLedger CallsEnd
CHECK_DEADLOCK FALSE
