CONSTANTS
  Operations = {"train"}
  Checkpointing = {"train"}
  RunCallers = {"script", "other"}
  Durable = TRUE
  Folds = 2
  MaxPasses = 2
  MaxRunMishaps = 2
SPECIFICATION RunsSpec
CHECK_DEADLOCK FALSE
INVARIANT OnlyNewReportsAreAccepted
