CONSTANTS
  Symbols = {"A", "P"}
  Vectors <- TwoVectors
  FirstBars <- StartBars
  LastBars <- EndBars
  MinBars = 1
  Backend = "redis"
  MaxDeliver = 2
  Asked = {"A"}
  MaxManual = 1
  MaxFaults = 1
  Enabled <- TwoRules
  Params <- NoParams
  Portfolios <- Books
  StaticPortfolio <- Calm
  FallbackStop = 500
  EdgeBps = 200
  CapTier = "large"
  Recommendations <- Deactivation
  Metrics <- Recovered
  MONTH = 5
  HALF_YEAR = 20
  YEAR = 62
SPECIFICATION Spec
CHECK_DEADLOCK FALSE
INVARIANT VectorsAreServed
 
INVARIANT LatestBarReachesTheRules
PROPERTY SignalsAreJustified
