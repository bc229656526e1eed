CONSTANTS
  Nodes = {n1, n2}
  Configured = {n1, n2}
  Chains = {c1, c2}
  Serving = {n1}
  Quoted = {c1}
  Ttl = 3
  FetchTimeout = 1
  MinBackoff = 1
  MaxBackoff = 2
  MaxMessages = 2
  MaxOutages = 2
  MaxRestarts = 1
  None = None
SPECIFICATION FairSpec
INVARIANTS FeeIsRecent InvalidationIsUnderWay BackoffFollowsFailures
PROPERTY Resubscribes
