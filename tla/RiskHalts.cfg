SPECIFICATION Spec
CONSTANTS
  DrawdownWarn = 8
  DailyLossHalt = 5
  DrawdownFlatten = 15
  KeepSessions = 5
  BaseRisk = 200
  ScalingStart = 5
  ScalingEnd = 15
  MaxPositionPct = 5
  Http = {h1, h2}
  Msgs <- NoMsgs
  Pushes <- BreakerPushes
  Macro = {"expansion"}
  MaxDay = 2
  MaxDeliver = 1
  MaxFaults = 2
  FifoSaves = TRUE
  MayStartWithoutRedis = TRUE
SYMMETRY HttpSymmetry
INVARIANTS
  TypeOK
  LevelShowsRule
PROPERTIES
  RedHoldsForSession
  BlackNeedsReset
  RestartIsNoReset
  
