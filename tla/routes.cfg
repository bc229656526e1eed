CONSTANTS
  eth = eth
  usdc = usdc
  xlm = xlm
  ethereum = ethereum
  stellar = stellar
  Chains = {ethereum, stellar}
  Assets = {eth, usdc, xlm}
  Usdc = usdc
  Majors = {usdc}
  Price <- Prices
  ChainDepth <- Depths
  GasFee <- Fees
  FeeBps = 1000
  ProtocolFee = 10
  MaxImpact = 1500
  SplitThreshold = 500
  Tranches <- TwoCandidates
  Scale = 100
  Amounts = {15, 40, 60}
  MaxHops = 3
  MaxRoutes = 5
  Modes = {TRUE, FALSE}
  Reference = 3
  Graphs <- FourEdges
  NoRate = NoRate
  NoNode = NoNode
  Engines = {n1, n2}
  Rows = {r1, r2, r3, r4}
  Retention = 1
  BatchSize = 2
  Interval = 1
  MaxFailures = 2
  Absent = Absent
SPECIFICATION RoutesSpec
INVARIANTS BestRouteFirst SplitPays LossIsBounded FoundIsGain NoneIsMissed QuotesOfferNoGain
PROPERTIES CaughtUpAlone ExpiredAreDeleted
CHECK_DEADLOCK FALSE
