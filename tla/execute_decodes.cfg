CONSTANTS
  Tasks = {t1}
  Users = {u1}
  Fees <- OneFee
  Limit = 3000000
  PoolSize = 1
  NumericDecodes = FALSE
  None = None
SPECIFICATION HealthySpec
PROPERTY HealthyCallsSucceed
CHECK_DEADLOCK FALSE
