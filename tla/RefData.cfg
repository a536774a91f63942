CONSTANTS
  SeriesOrder <- MCSeries
  Alfred <- MCAlfred
  Slices <- MCSlices
  MacroDays = 3
  FredNames <- MCFred
  Overrides <- MCOverrides
  MaxRefreshes = 3
  MaxMacroFaults = 1
  Facts <- MCFacts
  Periods = {1, 2}
  Manual <- MCManual
  FundDays = 4
  MaxFundRequests = 3
  MaxFundFaults = 1
  Profiles <- MCProfiles
  LastScore = 2
  AttrBackend = "redis"
  AttrDeliver = 2
  MaxClassified = 2
  MaxAttrFaults = 2
  Channels = {"log", "slack"}
  Notices <- MCNotices
  Thresholds = {"critical", "loud"}
  RecentMax = 2
  NoticeDeliver = 2
  MaxCrashes = 1
  MaxFailedSends = 1
SPECIFICATION RefSpec
CHECK_DEADLOCK FALSE
INVARIANT PanelAnswersForTheDay
INVARIANT NothingIsKnownEarly
INVARIANT ConsumersAreCurrent
 
