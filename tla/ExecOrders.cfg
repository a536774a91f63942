SPECIFICATION FairSpec
CONSTANTS
  Symbols = {"A", "B"}
  InitialCash = 100
  SlippageBps = 1000
  EquityHistoryLimit = 5
  NatsOrders <- BothBuys
  HttpOrders <- NoOrders
  Prices = {8}
  Alerts = {flatten}
  MaxDay = 1
  MaxMarks = 0
  MaxDeliver = 3
  MaxFaults = 2
  FifoCalls = TRUE
  MayStartWithoutRedis = FALSE
INVARIANTS
  FillsAnnouncedOnce
  CompletedFillIsDurable
PROPERTIES
  AckedAlertFlattened
  AlertsAreCarriedOut
CHECK_DEADLOCK FALSE
