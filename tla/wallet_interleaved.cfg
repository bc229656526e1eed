CONSTANTS
  Mutations = {m1, m2, m3}
  Sends = {s1}
  Amounts = {1, 2}
  Start = 2
  None = None
SPECIFICATION Spec
SYMMETRY Interchangeable
INVARIANTS BalanceMatchesList ListedOnce
PROPERTY RollbackIsExact
CHECK_DEADLOCK FALSE
