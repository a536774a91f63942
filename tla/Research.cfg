CONSTANTS
  Names = {1, 2, 3}
  LabelHorizon = 2
  SigmaWindow = 2
  MinCrossSection = 2
  MinHistory = 3
  MinUniverse = 2
  TopN = 2
  RebalanceDays = 3
  LiquidityWindow = 2
  Unit = 60
  Panels <- MCPanels
  FirstSession = 20
  LastSession = 21
  TrainSize = 8
  TestSize = 1
  HoldoutSize = 2
  ValSize = 1
  Embargo = 1
  MinFit = 1
  SweepFolds = 2
  Designs <- MCDesigns
  MinSessions = 8
  MinSamples = 8
  MinWidth = 1
  MaxThinShare = 40
  MaxShortShare = 20
  BookNames = {1, 2, 3}
  QuantilePct = 40
  FlatCost = 5
  CostTables <- MCTables
  MaxTranches = 3
  BookSessions = 4
  Reports <- MCReports
  FoldActives <- MCFolds
  FeatureICs <- MCFeatureICs
  MaxFeatures = 3
  MaxTrials = 10
  SharpeBar = 5
  ActiveBar = 0
  TstatBar = 2
  DsrBar = 13
  MinRecentFolds = 2
  MinPortfolioSessions = 20
  Moves <- MCMoves
  CostBps = 1
  OosWindow = 2
  ThresholdPct = 40
  Baselines <- MCBaselines
  MaxBars = 5
SPECIFICATION ResearchSpec
CHECK_DEADLOCK FALSE
INVARIANT NothingLeaks
INVARIANT SessionsCountOnce
INVARIANT BooksAgree
 
PROPERTY VerdictsAreMonotone
