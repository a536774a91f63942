CONSTANTS
  ModelVersions = {1, 2}
  BaselineSharpe <- MCBase
  Sessions = 3
  Traded = {1, 2}
  Horizon = 1
  DropAfter = 1
  Outcome <- MCOutcome
  Unmatched = {1}
  LogMax = 2
  MinOutcomes = 1
  Window = 2
  ServeDeliver = 2
  Answers = {"BUY", "HOLD"}
  MaxMishaps = 1
  Operations = {"train", "tune"}
  Checkpointing = {"train"}
  RunCallers = {"script", "other"}
  Durable = TRUE
  Folds = 2
  MaxPasses = 2
  MaxRunMishaps = 2
  Tickers = {"A", "B", "C", "X"}
  Plans <- MCPlans
  Unknown = {"X"}
  MaxBootRuns = 3
  MaxBootFaults = 2
SPECIFICATION MlSpec
CHECK_DEADLOCK FALSE
INVARIANT VotesAreSettledOnce
INVARIANT ReportsAreTheCallers
INVARIANT ResumeIsSound
PROPERTY ServingIsAccountable
