CONSTANTS
  Mutations = {m1, m2}
  Sends = {}
  Amounts = {1}
  Start = 2
  None = None
SPECIFICATION Spec
INVARIANT FailedLeavesNoTrace
CHECK_DEADLOCK FALSE
