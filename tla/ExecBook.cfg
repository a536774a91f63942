SPECIFICATION Spec
CONSTANTS
  Symbols = {"A", "B"}
  InitialCash = 100
  SlippageBps = 1000
  EquityHistoryLimit = 2
  NatsOrders <- BothBuys
  HttpOrders <- Manual
  Prices = {13}
  Alerts = {flatten}
  MaxDay = 2
  MaxMarks = 1
  MaxDeliver = 1
  MaxFaults = 1
  FifoCalls = TRUE
  MayStartWithoutRedis = TRUE
INVARIANTS
  BookIsSound
  ShortNeedsStaleSale
  RiskSeesBook
CHECK_DEADLOCK FALSE
