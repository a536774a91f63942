# A TLA+ model of Market-App

Market-App is an event-driven paper-trading system: thirteen Python asyncio
services that talk over NATS JetStream and HTTP, keep their durable state in
Redis, TimescaleDB and MLflow, and trade a simulated book. This directory holds
TLA+ modules of the services that keep state, from the bar that arrives to the
order that is filled, and of the pure functions they share. TLC checks small
instances; TLAPS proves a number of the properties for all values of the
constants.

`PROJECT.json` lists the components, the runs, the mutants each property is
known to catch, the lines every definition stands for, the findings, the
hazards and the theorems.

## 1. The system

    market-data -> feature-engine -> strategy ----------+
         |              ^      \-> ml-pipeline ---------+-> signal-aggregator
         |              |                               |        |
         |    fundamental-data, company-classifier      |   signal.aggregated
         |                                  macro-data -+        v
         |                                        \-------> risk-mgmt
         |                                                  |  ^   \ risk.circuit_breaker
         +--- market_data.updated ---> execution <----------+  |    \
                                        |   order.requested    |     +-> execution, notification
                                        +--- POST /portfolio --+

Every service consumes with durable push consumers (`max_deliver` 5, explicit
acks). `EventSubscriber._on_message` awaits the handler, then acks; a
`ValidationError` or `ValueError` terminates the message, anything else naks it
and it is delivered again. One subscription handles one message at a time;
different subscriptions and HTTP requests run interleaved in one event loop and
change over at every `await`. Nothing else is concurrent inside a process except
the fits of ml-pipeline on a worker thread, and no lock is used in the code
modelled here.

### Inventory

| Component | State it keeps | Operations that change it | Hard part | What makes it correct |
|---|---|---|---|---|
| risk-mgmt: circuit breaker | cached level, BLACK latch, halted session | evaluate, reset, restore | a level computed once and read across awaits, days and restarts | RED holds for its session, BLACK until a human resets it |
| risk-mgmt: order ledger | (symbol, side, session) keys | record, prune, restore | redelivery, late components, a crash between publish and save | one order per decision |
| risk-mgmt: sizing | none | - | boundaries | no size from an exhausted budget or a disallowed sector |
| risk-mgmt: service | portfolio and the two above; one Redis snapshot | two subscriptions, POST /signal, /portfolio, /circuit-breaker/reset | handlers interleave; save and publish may fail; Redis may be absent | halts stay on record, no order in a halt, every BLACK is announced |
| execution: paper broker | cash, positions, peak, day baseline, equity curve, processed order ids | fill, mark, day roll, restore | order of day roll, mark and peak; a curve of bounded length | drawdown and daily loss are measured from the right baseline |
| execution: service | the broker; one Redis snapshot | order.requested, POST /execute, market_data.updated, flatten_all | a liquidation that awaits between its sales; saves, publishes and pushes that fail; lost acks | no fill twice, no completed fill forgotten, an alert acked only on a flat book |
| signal-aggregator | latest signal per (symbol, strategy), latest vote per symbol, regime, weights, pending decisions | three subscriptions, deferred decision, POST /outcomes | components that arrive while a decision is on its way | no component is missed, no failure wedges a symbol |
| strategy | health per rule | features.ready, strategy_revalidated, POST /evaluate, /decay | status changed before it is published; the active set and the portfolio read before awaits | a signal is of an active rule and within the risk envelope; the announced status is the status |
| market-data | bars, read cache, catch-up marker | sync, catch-up, POST /fetch | cache filled by a read that a sync overtook; a run that straddles the close; a history on two scales | no marked day without its bars, a mixed history is noticed |
| feature-engine | vectors, the index of symbols, attributes per symbol | market_data.updated, company.classified, fundamentals.updated, POST /compute | bars read before the vector is put; read-modify-write of attributes in two handlers | the vector served is the one computed last from the newest bars; no update is dropped |
| ml-pipeline: serving | model, pause, vote log, baselines | features.ready, monitor, reload, promote | monitor run twice at once; the alias moving under an inference | a vote is of the production model, judged and credited once |
| ml-pipeline: operations | run store, checkpoints | train, tune, importance, ... over HTTP | the client gives up while the run goes on; crash between writes | a report recovered is new, the caller's, and durable |
| ml-pipeline: research | none between requests | universe, labels, splits, sweep, CPCV, books, gate | what was seen in fitting and selecting; sessions without rows | nothing scored was seen; a refusal never turns into a pass by trying more |
| macro-data | vintage panel, current regime | refresh, backfill | a series stored in slices that fail; regime set before its event is published | the panel answers a past day as it was known; every change is announced |
| fundamental-data | panel of statements, latest scored one | refresh, backfill, POST /statements | facts of one period filed on different days | a score is dated by the last number in it |
| company-classifier | latest style (in memory) | POST /classify | set before its event is published | the event carries what the service answers |
| backtest | last statuses | run, revalidate | look-ahead, cost of a turn, degradation against a baseline | no bar's own signal earns its return; a worse run is not promoted |
| notification | the last alerts | one handler per subject | a channel that raises, a restart in the fan-out | every channel is tried, none twice without a crash |
| bootstrap script | progress file, report | fetch, stages, resume | killed at any moment, resumed with other arguments | what it lists is stored; exit code 0 is honest |
| shared library | none | rules, envelope, indicators, ranks, ratios, scheduler | edges: missing features, ties, splits, zero denominators | same vector in training and serving, no threshold one-sided |
| dashboard, infrastructure | none | - | - | - |

The hazards, each at its line with the properties that cover it, are listed in
`PROJECT.json`. Smaller ones seen and left out of that list: a RED level read on
a later day than it was computed on (`circuit_breaker.py:89`), a BLACK alert
delayed past a reset, exits of strategies refused in a halt because a SELL is an
order of intent NEW too, `processed_orders` growing for ever, votes acked by
signal-aggregator before their decision, and an alert acked although every
channel failed.

## 2. Modules

| Module | Models |
|---|---|
| `CircuitBreaker`, `Sizing` | the pure parts of risk-mgmt, as operators on a breaker record and integers |
| `RiskMgmt` | the risk-mgmt process: the order ledger (a set of keys), handlers, snapshot, crash, restart |
| `HaltRecord` | abstract: what the persisted halts promise, seen from outside |
| `PaperBroker`, `Execution` | execution: the broker as operators on a record; the process with its snapshot, its push to risk-mgmt, crash, restart |
| `Voting`, `SignalAggregator` | the vote (weights, threshold, cost gate, levels); the process with its join window |
| `Rules` | the five rules of `trading_common/strategies`, protective levels, the signal's schema, risk envelope, cost filter |
| `Ranking` | percentile ranks of a universe and sector-neutral values |
| `Indicators` | `trading_common/features.py`: the technical vector of a symbol's bars, with the adjusted scale |
| `Schedule` | the delay until a calendar slot and the loop of a periodic task, with assumptions over a week |
| `FeatureEngine` | the technical path: fetch, put, index, announce, ranked reads; redelivery and crash |
| `Strategy` | strategy composed with `FeatureEngine`: evaluations, gates, health, its two writers, restart |
| `MarketData` | heartbeat, pull and repair, POST /sync and /fetch, marker, cache and readers, restatements, failures, crash |
| `Optional` | a number that may be absent |
| `FundamentalRatios` | EDGAR facts to statements, F-score, scale-free features, what was public at a cutoff; ends with its laws |
| `Fundamentals` | fundamental-data: refresh, backfill, manual statements, panel, restart |
| `MacroData` | the vintage panel filled from ALFRED slices, as-of reads, the live regime and its two events |
| `Classifier` | style, capitalisation tier and model stack; ends with its laws |
| `Attributes` | company-classifier, fundamental-data and the two attribute handlers of feature-engine, with the Redis read-modify-write |
| `Notification` | severity, threshold, fan-out, ack, restart |
| `MlServing` | inference, vote log, monitor, drift, registry alias, pause, restart |
| `MlRuns` | long operations, checkpoints, run store, and the callers that poll after a client timeout |
| `Bootstrap` | the script: progress file, stages, report, exit code, kill |
| `Labels` | panels, point-in-time universe, benchmark, labels, uniqueness weights |
| `Training` | purged walk-forward, holdout, sweep, importance and CPCV over a history that grows |
| `Books` | the four portfolios predictions are judged by |
| `Gate` | the activation gate while features are added and configurations tried |
| `Backtest` | positions and score of a rule on one symbol, walk-forward revalidation |
| `MCRiskMgmt`, `MCExecution`, `MCSignalAggregator`, `MCStrategy`, `MCMarketData`, `MCReference`, `MCMlPipeline`, `MCResearch` | the small instances |
| `RiskMgmtProofs`, `SignalAggregatorProofs`, `ExecutionProofs`, `StrategyProofs`, `MarketDataProofs`, `ReferenceProofs`, `MlPipelineProofs`, `ResearchProofs` | the theorems |

`Strategy` EXTENDS `FeatureEngine` because the two share the vectors and the
features.ready stream. `MCReference`, `MCMlPipeline` and `MCResearch` each hold
several components that share no state: their initial state picks one of them
and its actions run while the others rest, so one run asks each its own
questions without the product of their state spaces.

### How a process becomes a module

* **An action is the code between two awaits.** A handler is split exactly
  where it awaits something that may fail or let another task run: a save, a
  query, a publish, a price fetch, a push. `pc` says, per task, which call it
  awaits. A handler that awaits nothing but its ack (the subscriptions of
  signal-aggregator) is one action.
* **A task** is a subscription (one message at a time), a periodic task, or an
  HTTP request slot. One HTTP slot stands for all where requests differ only in
  their order.
* **A call is issued with its payload.** `save(self._snapshot())` evaluates the
  snapshot before the await, so `snap` / `cargo` / `calc` / `handler` carry it;
  the action that ends the call writes that payload, not the state at arrival.
* **Failures.** Every awaited call may raise; a publish that raised may
  nevertheless have been stored by the stream (`stored` in `RiskMgmt`). A raising
  handler naks, which leaves the message to be delivered again, at most
  `max_deliver` times. `Crash` loses all memory; a restart loads what was stored.
* **Requests that only compute** (training, importance, CPCV, backtest, gate)
  are one action each: nothing runs between two of their steps that they read.
  Their module then lets history grow, or inputs vary, between requests.
* **History variables** are declared apart and read by no action of the
  program. They count what left the process, remember what went wrong
  (`staleSale`, `raced`, `contended`, `tainted`) and what is owed (`owed`,
  `unsaid`).

### State and code

* `RiskMgmt`: `breaker`, `portfolio`, `ledger` are `RiskMgmtService.breaker`,
  `.portfolio`, `.ledger`; `persistent` says which repository `lifespan` chose;
  `redis` is the one key `RedisStateRepository` writes. `OrderAggregate` /
  `PublishOrder` / `SaveLands` are `process_aggregated` between its awaits;
  `UpdatePortfolio` is `update_portfolio` up to its save, `SaveLands` and
  `PublishAlert` the rest; `PostReset` is `reset_breaker`. The level to publish
  is decided at the evaluation, before the save, as in the code.
* `Execution`: `broker` is the `PaperBroker`, `riskView` is what risk-mgmt last
  received. `ExecuteOrder` / `SaveLands` / `PublishFill` / `PushArrives` are
  `execute()`; `MarkBegin` / `MarkPosition` / `PublishFill` are
  `mark_position()`; `FlattenBegin` / `FlattenNext` are the loop of
  `flatten_all()`, with `todo` the entries of `positions()` it has not come to.
* `SignalAggregator`: `buffer`, `votes`, `macro` are the buffers; `task` is
  `_pending` and what the deferred task awaits; `WindowEnds` is
  `aggregate_symbol` up to its first await.
* `FeatureEngine`: `vector` and `index` are the two keys of the Redis store;
  `FetchBars` / `StoreVector` / `IndexVector` / `PublishReady` are
  `compute_for_symbol`. A vector is named by the number of bars it came from;
  what it holds is the constant `Vectors`, and how it is computed from bars is
  `Indicators`.
* `Strategy`: `status` is the health registry. `SetStatus` changes it in memory
  and leaves the announcement to `PublishStatusChanged`; `BeginEvaluation` lists
  the active rules, `QueryRanked`, `QueryFeatures` and `QueryPortfolio` are the
  three awaits of `evaluate`, `EvaluateRule` the loop body with every gate,
  `InvalidLevels` the schema that raises.
* `MarketData`: `rows[s][d]` is 0 without a row, else the adjustment epoch the
  row was stored in (`Null` from a source without an adjusted close), so that two
  scales in one history are two numbers. `PlanSymbol`, `Fetch`,
  `Compare`, `Refetch`, `Save`, `Invalidate` and `Publish` are the pull of one
  symbol between its awaits, `SymbolFails` the except that goes on, `Mark`
  the end of the heartbeat, `GetCached` / `ReadRows` / `FillCache` / `Answer` a read.
* `MacroData`: `FetchSlice` and `SaveSeries` are the loop of the backfill;
  `BeginRefresh`, `Reclassify`, `PublishMacroUpdated`, `PublishRegimeChanged` the
  refresh. `Fundamentals`: `RefreshFundamentals` / `SaveFilings` /
  `PublishFundamentals`, with rows keyed by period as the upsert is.
* `Attributes`: `handler[k]` is the message in the handler of subscription `k`
  with the record it read; `PutAttributes` writes that whole record.
* `Notification`: `dispatch` is the `gather` over channels; `told` counts
  deliveries.
* `MlServing`: `rec` is every record ever made and `log` which of them
  `InferenceLog` still holds; `model` and `modelId` are two fields because a
  reload that fails half way leaves weights without their name. `MlRuns`: `disk`,
  `checkpoint` are the files of `FileRunStore`, `memory` is `_runs`; the caller
  is `_post_operation` of the script.
* `Bootstrap`: `progress` is the JSON file, `depth` what market-data holds; a run
  of the script is `boot`.
* `Training`: a "model" is the windows it was fitted, validated and scored on.
  `Books`: a session of `_tranche_holdings` is one action. `Gate` and `Backtest`
  compare the scaled integers the code compares as floats.

### Data

Drawdown, loss and exposure are whole percent in risk-mgmt and basis points in
strategy; prices, cash and quantities are integers; a session is a day number
(Python compares ISO date strings, which order alike). Event ids, reasons and
texts are left out. Weights are positive integers and the comparison
`Sum / Total >= threshold` is multiplied out. A ratio is a pair
`<<numerator, denominator>>` compared by cross-multiplication; a square root is
compared by squares; log prices make returns differences, and halves keep the
median of an even number exact; a weight is counted in parts (`Unit`) that the
labels of a bar share evenly. Indicators are in basis points, points or tenths
and divisions round down. Otherwise the arithmetic is that of the code, except
for the width of a Python float.

## 3. Runs

Twelve runs, each well under five minutes with two workers. A property named as a
conjunction is one claim about its component; its parts are definitions with a
comment of their own.

| Run | Properties | Bounds and why they are enough |
|---|---|---|
| `RiskHalts` | type; `LevelShowsRule`, `RedHoldsForSession`, `BlackNeedsReset`, `RestartIsNoReset`, and `HaltsStayOnRecord` (refinement of `HaltRecord`) | two HTTP slots and the regime subscription, so three saves can be on their way at once; four books (healthy, halting loss, warning, breach), one on each side of each threshold and one exactly at 15; two sessions; two faults, so a failed save can be followed by a crash or a crash by a start without Redis. Symmetry over the HTTP slots: no property or constant names one |
| `RiskLedger` | `LedgerOnlyOfPlaced`, `DuplicateNeedsInterruption`, `NoOrderDuringHalt` | one decision as two aggregates and one of the next session, each delivered up to twice; the ledger keeps one session, so the prune bites within two days; two faults; a second regime and a sector not allowed in it |
| `RiskAnnounce` | `BlackIsAnnounced` under fairness, no faults | two requests, three levels, so an escalation YELLOW to BLACK occurs |
| `ExecBook` | `BookIsSound` (type, `CurveFollowsBook`, `PeakIsHigh`), `ShortNeedsStaleSale`, `RiskSeesBook` | two symbols, two buys, a manual exit larger than what is held, a close that raises one position to a new peak and hits the stop of the other, one alert, two days with a curve of two points, so it rolls over its limit; one fault; slippage of 10% so it is visible in integers |
| `ExecOrders` | `FillsAnnouncedOnce`, `CompletedFillIsDurable`, `AckedAlertFlattened`, `AlertsAreCarriedOut` (under fairness) | two buys and an alert, three deliveries each, two faults: a lost ack and a crash, or a failed save and a crash |
| `AggDecisions` | `MissedNeedsRace`, `OldSignalNeedsRedelivery`, `ComponentsAreDecided` (under fairness) | one symbol (symbols share nothing but the regime), two strategies of which one changes its mind, an ML vote, a crisis; two weight functions; signals expire within the run; two deliveries, two faults |
| `SignalFlow` | `VectorsAreServed` (type, `VectorIsCurrent`, `UnindexedIsUnfinished`), `AnnouncedStatusIsTrue`, `LatestBarReachesTheRules`, `SignalsAreJustified` (`SignalsAreOfActiveRules`, `SignalsRespectTheBook`); the laws of `MCStrategy` | a symbol with two bars to come, one with a range so wide its stop is invalid, and a peer that decides its rank; a rule that reads levels and one that reads ranks; one manual request, one deactivation, one recovery, one fault, two deliveries: every pair of computation, evaluation and writer overlaps. For the laws month, half-year and year are 5, 20 and 62 bars: as in the code no window coincides with another |
| `MarketData` | `StoreIsSound` (type, `MarkedDayIsStored`, `NoHole`, `StoredIsAnnounced`), `MixedScaleIsSeen`, `CacheAnswersTruly` (`CacheIsCurrent`, `ReadsAreComplete`) | four days from the second on with a weekend on the third, half days so a run can straddle the close; one restatement, one request, one fault or restart; two read limits. A mixed history needs a restatement, a write that does not compare, and a pull |
| `RefData` | `PanelAnswersForTheDay` (`HistoryAgreesWithAsOf`, `PanelIsHonest`), `NothingIsKnownEarly` (`NoLookAhead`, `ScoreIsKnowable`), `ConsumersAreCurrent` (types, `RegimeIsHeard`, `MemoryMatchesPanel`, `AttributesAreCurrent`), `AlertsReachEveryChannelOnce` (`AckedAlertsWereTried`, `NoRepeatWithoutCrash`); the laws of ratios and classification | vintages on three days with a revision, in two slices; filings of two periods on four days with a late tag; three refreshes or requests; two styles and two scores; two channels, three notices around the threshold; one fault each (two for attributes, where losing an update takes a race and a failure), one crash |
| `MlPipeline` | `VotesAreSettledOnce` (type, `CreditedOnce`, `NothingOverdue`, `MaturesBeforeEviction`), `ServingIsAccountable` (`VotesAreOfProduction`, `PauseIsObeyed`, `AlarmsAreMeasured`), `ReportsAreTheCallers` (type, `RecoveredIsFresh`, `RecoveredIsOwn`, `ProgressIsOfUnfinished`, `AnsweredIsDurable`), `ResumeIsSound` (type, `ListedIsStored`, `TrainsOnStored`, `ExitCodeIsHonest`) | two versions, three sessions with a horizon of one and a log of two records, so a vote is judged, dropped or evicted; two monitors; one mishap. Two operations, one checkpointing, two callers, two passes, two mishaps. Five command lines (other symbols, other depth, no resume, stages), three runs, two faults |
| `Research` | `NothingLeaks` (`PurgedOfTest`, `ValidationPurged`, `SelectionSparesHoldout`, `NoSameBarReturn`), `SessionsCountOnce` (type, `EpisodesCountOnce`, `OutOfSampleOnce`, `PathsCoverOnce`), `BooksAgree` (type, `HeldForTheHorizon`, `SameBook`, `DailyIsOneTranche`, `EntriesPaid`), `PastIsFixed` (`LabelsNeverChange`, `UniverseIsPointInTime`), `VerdictsAreMonotone` (`GateOnlyHarder`, `WorseIsNotPromoted`, types); the laws of `Schedule` | twenty panels of three names over 20 and 21 sessions, with missed sessions and a delisting: two folds before the holdout; a horizon and an embargo that overlap a fold; four book sessions of three names, up to three tranches, so every sleeve is refreshed; ten gate reports around its bars, three features, ten trials; every position of a rule over five bars against four baselines, zero and negative among them |
| `StaleReport` (violation) | `OnlyNewReportsAreAccepted` | the finding of section 5 |

Deadlock is checked in the three `Risk*` runs; the others switch it off, because a finite set of messages delivered a finite number of times, or a
finite history, lets the system come to rest.

**Bounds** are constants: `MaxDay` sessions, `MaxDeliver` deliveries per
message, `MaxFaults` (`MaxMishaps`, `MaxCrashes`) failed calls, crashes and lost
acks, `MaxMarks` price fetches, `MaxNow` instants, and so on. The message sets
are finite sets of records.

**Laws.** A pure function needs no states. What it must satisfy on every input
of a grid is a named ASSUME at the end of its module (`FundamentalRatios`,
`Classifier`, `Schedule`) or in `MCStrategy`; TLC evaluates them before the run of
the module that extends them: a rule reads what it declares and is symmetric, ranks
depend on the order alone, a vector only grows with history, only the smoothed
indicators remember more than their window, a split changes no adjusted reading,
features are free of currency, a missing field takes features away and changes none.

**Fairness.** A publish, a Redis call and an HTTP push return or time out, and
asyncio runs a task whose await is over: weak fairness on the action that
follows each await. The orchestrator restarts a dead container
(every service is a Kubernetes `Deployment`,
`infrastructure/helm/templates/services.yaml`, whose pods are always restarted):
weak fairness on `Restart`. JetStream delivers what is not acked: weak fairness on
`FlattenBegin`. Nothing is assumed of clients, of the clock, or of strategies.
In `AlertsAreCarriedOut` the faults are fewer than the deliveries the stream
tries: with five faults in a row the message is dropped by design.
Where a service need only be right once it has come to rest
(`LatestBarReachesTheRules`, `ConsumersAreCurrent`, `AnnouncedStatusIsTrue`), the
property is an invariant on the states with nothing under way: it is as strong for
the finite runs and needs no fairness.

### Two assumptions that are constants

* `FifoSaves` / `FifoCalls`: saves (and pushes) issued by concurrent tasks reach
  Redis (risk-mgmt) in the order they were issued. The code does not enforce
  it: both clients use a connection pool, and neither service serialises its
  saves. With the constant FALSE, TLC finds a stored BLACK overwritten by an
  older snapshot (`HaltsStayOnRecord`), and a fill forgotten
  (`CompletedFillIsDurable`). The runs and the theorems about stored state hold
  under TRUE; those about memory do not depend on it.
* `MayStartWithoutRedis`: a start while Redis is unreachable runs with the
  no-op repository and begins with nothing latched and an empty book. Properties of
  a restart are stated for a start that reached Redis; the rest holds for both.

## 4. Proofs

What is proved holds for every number of requests, all message sets, thresholds
and bounds that satisfy the named assumptions of the modules.

`RiskMgmtProofs`:

* `IInvHolds`: the inductive invariant `IInv`, which is `TypeOK`,
  `LevelShowsRule` and `HaltsNotAhead`. The last is what makes the second
  inductive: a halt dated after today, in memory, in a snapshot on its way or in
  Redis, would come into force when the clock reaches it, without an
  evaluation. One lemma per action, under it one step per conjunct the action
  can disturb; the facts about `evaluate()` are one lemma, `EvaluateShowsRule`.
* `TypeCorrect`, `LevelIsRule`: the parts of it.
* `HaltBlocksOrders`: `NoOrderDuringHalt`; only two actions clear an order, both
  read the level in the same step, and by the invariant the level is the rule.
* `RedHolds`, `BlackIsHumanOnly`: the action properties, from the invariant and
  a case split on what may change the breaker of a living process
  (`BreakerSteps`).

What outlives the process:

* `RecordIsImplemented`: `FifoSaves => (Spec => HaltsStayOnRecord)`, every step is
  a step of `HaltRecord` or a stutter. `StepKinds` first reduces the actions to
  what they do to the record (issue a save, end one, die, start, nothing). The
  invariant `LineInv` then orders the snapshots: of two saves on their way one
  is ahead of the other (`InLine`), and from the stored snapshot along this line
  to the breaker in memory a halted session never moves back (`RedMovesOn`) and
  a latch goes only where a reset was accepted (`BlackStays`). `IInv` alone does
  not give the refinement: it says nothing of the order of two snapshots, and
  the one that lands last is the one that counts.
* `RestartRestoresHalts`: `FifoSaves => (Spec => RestartIsNoReset)`. The invariant
  `OwedInv` says that, unless the last save is known to have failed, the last
  save in line carries the halts of the process, or, with none on its way, the
  evaluation of what is stored brings them back (`RedisCovers`).
* `LedgerIsOfPlaced`: `LedgerOnlyOfPlaced`, for any order of the saves. Inductive
  once the snapshots on their way are included (`LedgersPublished`).
* `DuplicatesNeedInterruptions`: `DuplicateNeedsInterruption`, under `FifoSaves` and
  `~MayStartWithoutRedis`: a start without Redis forgets the ledger, and without
  the order of the saves an older ledger may land last. `OnceInv` follows every key
  an order was published for and that the prune still keeps: it is in the ledger
  in memory and in every snapshot from the line's last to the stored one, or its
  handler still holds the publish, or an interruption is on record.

`ExecutionProofs`, for any orders, prices, alerts and failures:

* `FillsAreAnnouncedOnce` and `CompletedFillsAreDurable`: `FillsAnnouncedOnce` and
  `CompletedFillIsDurable`, if the snapshots reach Redis in the order they were
  issued (`FifoCalls`) and no start is without Redis. Both are about one field
  of a snapshot, the processed orders. `SaveLine` orders the saves on their way,
  `SavesGrow` makes the field grow from the stored snapshot along this line to
  the memory, `FillsUnderWay` ties a task that will announce a fill to the save it
  awaits, and `AnnouncedIsStored` puts every announced order in the stored
  snapshot; an order is filled only if the memory does not know it. Neither
  property is inductive without the line: what counts is which save lands last.
* `ShortsComeOfStaleSales`: `ShortNeedsStaleSale`, with no premise. `LongInv` also
  covers the snapshots on their way and in Redis, from which a restart continues.
* `BookSound`: `BookIsSound`, with no premise. `BookInv` is `IsBook` of every copy of
  the book (in memory, in a snapshot on its way, in Redis) with what the tasks
  carry. The equity is a sum over the positions, a fold of the community modules;
  that two marks of equal prices give equal equity, and that a fill at the mark
  changes it by its slippage alone, is shown by the least number of symbols for
  which it would fail (below).
* `RiskHearsBook`: `FifoCalls` implies `RiskSeesBook`. `PushInv` says that without a
  fault the last push in line carries the metrics of the book (`Heard`), or some
  task still has a push to come after its save.
* `AlertsAreFlattened`: `AckedAlertFlattened`, with no premise. `FlattenInv` says of
  each symbol how far the handler is with it (`Dealt`): still to do, sold, or bought
  again since.

`MlPipelineProofs`, for any models, days, operations, callers and failures:

* `CallersGetTheirReports`: `ReportsAreTheCallers`. The invariant follows what a caller
  may find under its operation: nothing, the report it saw first, or a younger one
  (`FreshInv`); and, if nobody else ran the operation meanwhile, a younger one only
  of its own pass, the only one in flight (`OwnInv`, with `ApartInv`: two callers of
  one operation know that they share it).
* `ResumesAreSound`: `ResumeIsSound`, for any universe and plans. `BootInv` says that
  what a run of the script holds for fetched is stored as deep as it asked, and that
  the progress file lists nothing else.
* `VotesSettled`: `VotesAreSettledOnce`, if the log keeps two votes a day over the
  horizon (`RetentionAssumption`, which `retention_for` gives). The parts of
  `ServeInv`: which messages are in the stream or in hand (`EngineInv`, `StreamInv`), what
  a record says of its session (`VoteInv`), which records a log holds (`LogInv`), what a
  monitor run has in hand (`MonitorInv`) and whom it credited (`CreditInv`), what a
  pause lets through (`PauseInv`). Of a pending vote that was evicted, `LogMax`
  younger ones are held, and with at most two a session they cannot fit in fewer
  sessions than the horizon.
* `ServingAccountable`: the action properties of `ServingIsAccountable`, from the same
  invariant.

`ResearchProofs`, for any names, costs, reports and prices:

* `BooksAreOne`: `BooksAgree`. `HeldInv` says which selection each sleeve holds: the
  one of the last session whose turn it was, and nothing before its first turn.
  `TurnsComeRound` makes it inductive (sessions fewer than the tranches apart refresh
  different sleeves, sessions that many apart the same one), and the union of the
  sleeves is then the union of the last selections. `Paid` is kept for each of the
  three sleeved books: the sleeve in turn may lose a name and gain it again, and each
  gain is charged.
* `VerdictsOnlyHarden`: `VerdictsAreMonotone` of the gate's specification and of the
  revalidation's, under `GateAssumption`. A feature added moves the largest IC up
  only, a trial added moves the expected maximum of the Sharpe up only, and every
  other condition of the gate is about the report, which no action changes. A
  revalidation's status follows the quotient of two sums, and quotients by a positive
  number keep the order (`QuotientsGrow`).
* `HistoryIsFixed`: `PastIsFixed`. `BuiltInv` says that what is built is built of the
  history so far, and of nothing else. The rest is about two histories of which one
  begins like the other (`Longer`): up to the shorter one's end the rebalance dates,
  the names selected, the benchmark, a name's own bars and its excess path agree
  (`SameUniverse`, `SameLevels`, `SamePath`), so the members and levels are a prefix of
  the longer ones. A label that a path gives is the label of every longer path
  (`LabelStays`): what touched first still does, and what ran out of time had its
  whole horizon. Hence every row stays (`RowsStay`).
* `NothingEverLeaks`: `NothingLeaks`, from `LeakInv`. A label is decided at most
  `LabelHorizon` bars of its name after its row (`LabelReach`, `RowReaches`). Every pair of
  windows the operations cut has `Gap` sessions of the dataset between a session of
  the one and a later one of the other (`ApartIn`): the walk-forward and the
  holdout because the cuts leave that many positions out (`FoldsAreCut`, `HoldoutIsCut`),
  a validation tail within its window (`FitApart`), a split of the cross-validation
  position by position (`PositionsAreCut`), whatever groups `combinations()` yields
  (`CombosAreGroups`: its order is a strict total one, so every rank is taken). A label
  that reaches across is then of a name that missed more of those sessions than the embargo
  (`ApartIsKeptApart`). A session that a sweep used keeps a holdout's worth of sessions after
  it, since datasets only grow (`HistoryOnlyAdds`), and a session held out has fewer
  (`AfterTheLast`): `SelectionSparesHoldout`.
* `SessionsAreOnce`: `SessionsCountOnce`, from `CountInv`, which is `LeakInv` with
  the calendar, the curve and the paths. The weights: at most `LabelHorizon + 1`
  labels of a name overlap on a bar, since a dataset has one row for a name and a
  session (`BuiltDetermined`, `FewOverlap`), so the shares of a bar's labels add up to
  one; a sum over labels of sums over bars is then counted bar by bar
  (`WeightsCoverBars`, by the least bar at which the count would fail). The curve:
  a test block begins after its training window and after every earlier block, and the
  holdout after them all (`FoldsInTurn`, `HoldoutFollows`). The paths: no two splits
  test the same groups and each is fitted on none of its own (`SplitsTestGroups`); every
  group is in as many choices of `k` groups as any other (`AsManyWith`, swapping two
  groups), which is what `C(N,k) * k / N` divides by (`PathsPerGroup`), so that with
  every split there each group has a split for each path (`EveryPathIsComplete`).

`SignalAggregatorProofs`:

* `TypeCorrect`, and `MissedOnlyByRace` (`MissedNeedsRace`), from the stronger
  `UnseenInWindow`: what no decision has seen has a window still open, which a
  pending decision alone does not imply.
* `LatestIsLatest` (`OldSignalNeedsRedelivery`): uses `InOrder`, that a signal is
  first delivered after every earlier one of the stream.

### Assumptions and method

The theorems rest on the named assumptions of the modules and on nothing else; TLC
evaluates each on the constants of every run. Those of this group say what the code
relies on: `MacroAssumption` (an observation is keyed by series, period and vintage,
the primary key of the table; the windows of `_vintage_slices` cover every vintage
and all but the last are over), `FundAssumption` (facts are of fiscal years and
known fields, a posted statement has the fields of one), `AttrAssumption`,
`NoticeAssumption` (bounds are naturals), `GateAssumption` (a report's numbers, and
the ten trials the table of the expected maximum ends at), `BooksAssumption` (costs are
positive), `LabelsAssumption` (finitely many names, at least one; horizons and windows of
a session or more; a weight of 1 is `Unit` parts, which as many labels as can overlap,
the horizon and one, share without a remainder), `TrainingAssumption` (windows of a session or more, a training
window longer than what is purged of it, designs that test fewer groups than there are).

Every strengthening was checked by TLC as an invariant of its run before its proof.

Recursion. An induction theorem takes the induction hypothesis as an operator,
which no backend instantiates; but the least number of a set of counterexamples
is a first-order fact (`LeastNumber`, from `WFMin` of the library), and it gives
what an induction would: the least size, day or number of symbols at which a claim
fails follows one at which it holds. `FiniteSetsHaveGreatest`, `WalkCarriesBest`
and the sums of `ExecutionProofs` are proved so.

Only model-checked:

* liveness, which is out of the prover's reach: `BlackIsAnnounced`,
  `AlertsAreCarriedOut`, `ComponentsAreDecided`;
* the laws, which are about grids of inputs.

## 5. Findings

`StaleReport`: the script looks at `/runs` before it posts, so that after a client
timeout it can tell a new report from an old one. That look runs under
`contextlib.suppress(OSError)`; when it fails, the first report found later is
accepted, although it existed before, against "Only a report that did not exist
before this call is accepted" (`bootstrap-universe.py:242`). The run also shows
why `RecoveredIsFresh` excepts the callers whose first look failed.

Six disagreements of the core services were shown by runs of their own in an
earlier state of this project and are settled: a second order for one decision
after a crash between publish and save; the lost `flatten_all` alert after a
failed save or publish, because `evaluate()` caches the level first; a new session
halted by the loss of the day before when a regime event evaluates it; a short
position by a liquidation of stale quantities; a fill lost after a failed save and
an acked duplicate; a component that arrives while the decision of its symbol is
on its way. Their runs gave place to the services modelled since; the passing
properties name each as the exception (`DuplicateNeedsInterruption`,
`ShortNeedsStaleSale`, `CompletedFillIsDurable`, `MissedNeedsRace`).

Observed while modelling, each with the state in which it shows, without a run:

* signal-aggregator: votes are acked when buffered and lost with a crash inside the
  window. Adaptive weights are normalised again after the cap, so a weight may
  exceed it; constant outcomes give an information ratio of 0, or a huge one by
  rounding.
* ml-pipeline, serving: a failed POST of an outcome is never retried; votes of a
  replaced model are never resolved; baselines are lost at a restart, after which
  the monitor answers "no_baseline"; the reload in `lifespan` is outside its
  `try`; a failed publish of a vote is redelivered and logs a second record.
* ml-pipeline, research: the purge counts sessions of the dataset while labels
  count the bars of their name (`splits.py:44`); the sweep draws its holdout from
  every name and the training from the universe, so `SelectionSparesHoldout`
  exempts a selective universe; the universe's `limit` moves its rebalance days;
  folds that could not be trained are skipped before the last three are taken.
* bootstrap script: `--no-resume` passes no path although it says it overwrites;
  training uses symbols of the progress file that were not asked for
  (`bootstrap-universe.py:1711`); `_check_service` exits without a report; symbols
  of an `@file` do not go through the comment handling of `split_symbols`.
* fundamental-data: the F-score of a past day embeds facts filed later, and a
  refresh erases the prior-year part of a backfilled score (`service.py:51`).
* macro-data: the names refresh reads from FRED are not those the classifier knows.
* fundamental-data: of a history longer than 24 fiscal years the oldest kept year is
  scored without a year before it, although EDGAR has one (`NothingEarly`).
* market-data: a repair of the whole history can be undercut by a POST /fetch that
  stores older rows while it runs; after a second corporate action the factor of
  those rows is seen by no pull (`Undercuts`). A POST /fetch on an empty table keeps
  the next pull from filling the window before it.
* feature-engine: with Redis the put of one attribute handler overwrites what the
  other wrote since it read.
* backtest: an empty history recommends "probation"; `rolling_sharpe_90d` plays no
  part in a verdict. The weekly revalidation drifts by the duration of its runs,
  although `scheduler.py:66-67` describes a fixed weekly slot (`scheduler.py:102-110`).
* shared features: after a split, raw volumes stand beside adjusted prices, which
  moves volume_ratio, obv, ad, vwap and mfi.

## 6. Not modelled

* What a model learns: gbdt, ensemble, calibration, the permuted scores behind the
  importance numbers, and the cost, capacity, decay, target and sector studies,
  whose results are floating-point statistics of a dataset and whose control is
  that of the operations in `MlRuns`. The meta-label model is not wired to serving.
* Statistics: Sharpe ratios beyond the comparisons of the gate, the exponential
  weights of the aggregator (`RecordOutcome` picks any weight function of a set),
  Kelly sizing (nothing calls it), the risk metrics of the dashboard.
* Starts without NATS or without a market-data client, graceful shutdown, the
  read-only routes, schema versions of old snapshots, POST /aggregate.
* Argument parsing and printed tables of the script, the drawdown and curve of a
  backtest report, the fields of event schemas no handler reads.
* The dashboard, a read-only backend, and the deployment files.
* External code: JetStream, Redis, TimescaleDB, MLflow, the data sources, the
  container runtime and the clock are modelled from how the services use them.

## 7. Plan

Done, in this order: risk-mgmt, execution, signal-aggregator and the proofs of the
first and the last; feature-engine and strategy composed; market-data; the
reference-data services; ml-pipeline's serving, operations, script and research;
backtest; the shared library; the proofs for execution, notification and the run
reports; the proofs for strategy with feature-engine, market-data, the reference-data
services, the book of execution, the duplicates of risk-mgmt, ml-pipeline's serving and
the script, the books, the gate and the revalidation, the datasets, their windows and
weights, and the paths of the cross-validation.

Next, the most important first:

1. `TradingLoop`: risk-mgmt and execution with the streams between them. An order
   still in the stream when BLACK flattens the book; an alert delayed past a reset.
   Abstract specification: after a BLACK the book comes to be flat.
2. Fairness and liveness for `MarketData` and `Strategy` under repeated faults, by TLC.
3. POST /aggregate and the graceful shutdown of signal-aggregator.
