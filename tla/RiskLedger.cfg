SPECIFICATION Spec
CONSTANTS
  DrawdownWarn = 8
  DailyLossHalt = 5
  DrawdownFlatten = 15
  KeepSessions = 1
  BaseRisk = 200
  ScalingStart = 5
  ScalingEnd = 15
  MaxPositionPct = 5
  Http = {h1}
  Msgs <- LedgerMsgs
  Pushes <- LedgerPushes
  Macro = {"contraction"}
  MaxDay = 2
  MaxDeliver = 2
  MaxFaults = 2
  FifoSaves = TRUE
  MayStartWithoutRedis = FALSE
INVARIANTS
  LedgerOnlyOfPlaced
  DuplicateNeedsInterruption
PROPERTIES
  NoOrderDuringHalt
