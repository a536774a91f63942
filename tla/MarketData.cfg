CONSTANTS
  Symbols <- OneSymbol
  Weekend = {3}
  FirstStored <- Listing
  Days = 4
  StartDay = 2
  Overlap = 0
  InitialHistory = 1
  DefaultPeriod = 1
  Backend = "redis"
  Limits = {1, 2}
  MaxActions = 1
  MaxRequests = 1
  MaxFaults = 1
SPECIFICATION Spec
CHECK_DEADLOCK FALSE
INVARIANT StoreIsSound
INVARIANT MixedScaleIsSeen
 
