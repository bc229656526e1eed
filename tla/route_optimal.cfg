CONSTANTS
  eth = eth
  usdc = usdc
  xlm = xlm
  ethereum = ethereum
  stellar = stellar
  Chains = {ethereum, stellar}
  Assets = {eth, usdc, xlm}
  Usdc = usdc
  Majors = {usdc}
  Price <- Prices
  ChainDepth <- NearDepths
  GasFee <- LowFees
  FeeBps = 30
  ProtocolFee = 1000
  MaxImpact = 1500
  SplitThreshold = 500
  Tranches <- TwoCandidates
  Scale = 100
  Amounts = {40}
  MaxHops = 3
  MaxRoutes = 5
  Modes = {FALSE}
  Reference = 3
  Graphs <- NoGraphs
  NoRate = NoRate
  NoNode = NoNode
  Engines = {}
  Rows = {}
  Retention = 1
  BatchSize = 2
  Interval = 1
  MaxFailures = 2
  Absent = Absent
SPECIFICATION QuoteSpec
INVARIANT OptimalPathfinding
CHECK_DEADLOCK FALSE
