SPECIFICATION FairSpec
CONSTANTS
  BuyThreshold = 20
  BaseEdge = 200
  RequiredEdge = 48
  Rank <- Alphabetical
  Signals <- TwoStrategies
  Votes <- MlVotes
  Announcements <- Crisis
  WeightChoices <- Adaptively
  TTL = 2
  MaxNow = 4
  MaxDeliver = 2
  MaxFaults = 2
INVARIANTS
  MissedNeedsRace
  OldSignalNeedsRedelivery
PROPERTIES
  ComponentsAreDecided
CHECK_DEADLOCK FALSE
