SPECIFICATION FairSpec
CONSTANTS
  DrawdownWarn = 8
  DailyLossHalt = 5
  DrawdownFlatten = 15
  KeepSessions = 5
  BaseRisk = 200
  ScalingStart = 5
  ScalingEnd = 15
  MaxPositionPct = 5
  Http = {h1, h2}
  Msgs <- NoMsgs
  Pushes <- LevelPushes
  Macro = {"expansion"}
  MaxDay = 1
  MaxDeliver = 1
  MaxFaults = 0
  FifoSaves = TRUE
  MayStartWithoutRedis = FALSE
PROPERTIES
  BlackIsAnnounced
