----------------------------- MODULE MlServing -----------------------------
(***************************************************************************)
(* ml-pipeline while it serves: the production model votes on each         *)
(* features.ready of a symbol, the vote is logged, and a monitor judges it *)
(* when its label has matured, tells the aggregator what it earned and     *)
(* checks the model for drift.  The handler, the monitor (scheduled and    *)
(* asked for over HTTP) and the promotions run on one event loop and       *)
(* interleave at their awaits; the registry and the stream survive a       *)
(* restart, the log, the baselines and the pause do not.                   *)
(***************************************************************************)
EXTENDS Integers, Sequences, FiniteSets, TLC

CONSTANTS
  ModelVersions,   \* versions training may register
  BaselineSharpe,  \* per version, in hundredths
  Sessions,        \* the last session of the run
  Traded,          \* those in which the symbol has a bar
  Horizon,         \* sessions until a label is certain
  DropAfter,       \* OUTCOME_DROP_AFTER_DAYS, in sessions
  Outcome,         \* per session a vote may be cast in: [up, after]
  Unmatched,       \* sessions whose entry bar the history lacks
  LogMax,          \* INFERENCE_LOG_MAXLEN
  MinOutcomes,     \* rolling_metrics' min_outcomes
  Window,          \* its window, in sessions
  ServeDeliver,    \* NATS_MAX_DELIVER
  Answers,         \* what the model may answer: BUY, SELL or HOLD
  MaxMishaps       \* bound: failed calls, restarts, pauses, monitors asked for over
                   \* HTTP and features.ready beyond one a session, together

ASSUME ServingAssumption ==
  /\ \E n \in 0..Cardinality(ModelVersions) : n < 9999 /\ ModelVersions = 1..n
  /\ {Sessions, Horizon, ServeDeliver} \subseteq Nat \ {0}
  /\ {DropAfter, MinOutcomes, Window} \subseteq Nat /\ DropAfter >= Horizon
  /\ Answers \subseteq {"BUY", "SELL", "HOLD"}
  /\ Unmatched \subseteq 1..Sessions
  /\ DOMAIN Outcome = 1..Sessions
  /\ \A d \in 1..Sessions : Outcome[d].after \in 1..Horizon

\* retention_for: twice the universe times the horizon (the universe is one symbol).
ASSUME RetentionAssumption == LogMax \in Nat /\ LogMax >= 2 * Horizon

VARIABLES
  registered,  \* MLflow: the versions
  alias,       \* MLflow: the version named production, or 0
  up,          \* the process runs
  model,       \* ServingEngine._model: the version whose weights are loaded
  modelId,     \* ServingEngine._model_id: the version it names
  paused,
  baselines,   \* ModelRegistry._baselines
  rec,         \* every InferenceRecord, in the order made
  log,         \* InferenceLog._records: per model id, the records held
  session,     \* the calendar
  triggers,    \* features.ready in the stream, unacknowledged: [id, on, tries]
  infer,       \* the handler's inference in progress
  monitor,     \* per caller: the monitor run in progress
  mishaps      \* those that happened

VARIABLES   \* history
  credited,    \* per record: the times the aggregator counted it
  contended,   \* records two monitor runs held at once
  retried,     \* messages delivered again after their vote was logged
  stale,       \* the last reload did not load what the alias names
  surprised    \* the inference in progress began before the pause

registry == <<registered, alias>>
engine   == <<model, modelId, paused>>
votes    == <<rec, log>>
servingHist == <<credited, contended, retried>>
servingVars == <<registry, up, engine, baselines, votes, session, triggers, infer, monitor,
                 mishaps, servingHist, stale, surprised>>

NoModel  == 0
Nameless == 9999     \* the id "global_v1@vNone"
Ids == {NoModel, Nameless} \union ModelVersions
Monitors == {"scheduled", "http"}
NoTrigger == [id |-> 0, tries |-> 0]
NotInferring == [pc |-> "idle", msg |-> NoTrigger, rec |-> 0]
NoAlarm == [type |-> "none", severity |-> "none", action |-> "no_action"]
NotMonitoring == [pc |-> "idle", id |-> NoModel, now |-> 0, held |-> {}, queue |-> {},
                  alarm |-> NoAlarm]

ServingInit ==
  /\ registered = {} /\ alias = NoModel /\ up = TRUE
  /\ model = NoModel /\ modelId = NoModel /\ paused = FALSE
  /\ baselines = {} /\ rec = <<>> /\ log = [i \in Ids |-> <<>>]
  /\ session = 1 /\ triggers = {[id |-> 1, tries |-> 0]} /\ infer = NotInferring
  /\ monitor = [m \in Monitors |-> NotMonitoring]
  /\ mishaps = 0
  /\ credited = <<>> /\ contended = {} /\ retried = {} /\ stale = FALSE /\ surprised = FALSE

Mishap == mishaps < MaxMishaps /\ mishaps' = mishaps + 1

-----------------------------------------------------------------------------
(* The registry and the serving engine                                     *)

\* The end of a training pass: the version, then its baseline, in memory.
RegisterVersion(v) ==
  /\ up /\ v = Cardinality(registered) + 1
  /\ registered' = registered \union {v}
  /\ baselines' = baselines \union {v}
  /\ UNCHANGED <<alias, up, engine, votes, session, triggers, infer, monitor, mishaps,
                 servingHist, stale, surprised>>

\* reload: what the lookups of the alias v answer decides.  A lookup that
\* fails reads as no alias: serving stops, or loads a model it cannot name.
Reload(v) ==
  \/ /\ model' = v /\ modelId' = v /\ stale' = FALSE /\ UNCHANGED mishaps
  \/ /\ v # NoModel /\ Mishap
     /\ model' = NoModel /\ modelId' = NoModel /\ stale' = TRUE
  \/ /\ v # NoModel /\ Mishap
     /\ model' = v /\ modelId' = Nameless /\ stale' = TRUE

\* A mutant of Promote: the alias moves and the engine is not told.
PromoteWithoutReload(v) ==
  /\ up /\ v \in registered
  /\ alias' = v
  /\ UNCHANGED <<registered, up, engine, stale, baselines, votes, session, triggers, infer,
                 monitor, mishaps, servingHist, surprised>>

\* Manual sign-off.  If the new model cannot be read the alias has moved and
\* the old one goes on serving.
Promote(v) ==
  /\ up /\ v \in registered
  /\ alias' = v
  /\ \/ Reload(v)
     \/ Mishap /\ stale' = TRUE /\ UNCHANGED <<model, modelId>>
  /\ UNCHANGED <<registered, up, paused, baselines, votes, session, triggers, infer,
                 monitor, servingHist, surprised>>

Pause ==
  /\ up /\ ~paused /\ Mishap /\ paused' = TRUE
  /\ surprised' = (infer.pc # "idle")
  /\ UNCHANGED <<registry, up, model, modelId, baselines, votes, session, triggers, infer,
                 monitor, servingHist, stale>>

Resume ==
  /\ up /\ paused /\ paused' = FALSE
  /\ UNCHANGED <<registry, up, model, modelId, baselines, votes, session, triggers, infer,
                 monitor, mishaps, servingHist, stale, surprised>>

-----------------------------------------------------------------------------
(* The votes                                                               *)

\* feature-engine announces the vector of a session with a bar, or announces
\* it again.
FeaturesReady ==
  /\ \/ session < Sessions /\ session' = session + 1 /\ UNCHANGED mishaps
     \/ Mishap /\ UNCHANGED session
  /\ triggers' = triggers \union
       {[id |-> d + Sessions * mishaps', tries |-> 0] : d \in {session'} \cap Traded}
  /\ UNCHANGED <<registry, up, engine, baselines, votes, infer, monitor,
                 servingHist, stale, surprised>>

Acknowledge(msg) == triggers' = triggers \ {msg}
\* nak: delivered again until max_deliver.
SendBack(msg) ==
  triggers' = (triggers \ {msg}) \union
    {t \in {[msg EXCEPT !.tries = @ + 1]} : t.tries < ServeDeliver}

\* One message is handled at a time; without a model, or paused, it is let go.
TakeTrigger(msg) ==
  /\ up /\ infer.pc = "idle" /\ msg \in triggers
  /\ IF modelId = NoModel \/ paused
       THEN Acknowledge(msg) /\ UNCHANGED infer
       ELSE infer' = [NotInferring EXCEPT !.pc = "asking", !.msg = msg] /\ UNCHANGED triggers
  /\ surprised' = FALSE
  /\ UNCHANGED <<registry, up, engine, baselines, votes, session, monitor, mishaps,
                 servingHist, stale>>

\* InferenceLog.append: the deque lets its oldest record go.
Appended(s, r) ==
  LET t == Append(s, r) IN IF Len(t) > LogMax THEN Tail(t) ELSE t

\* No vector, or one that lacks most of the model's features: no inference.
\* A failed query, or a model gone meanwhile (the assertion), is a nak.
NoInference ==
  /\ up /\ infer.pc = "asking"
  /\ \/ Acknowledge(infer.msg) /\ UNCHANGED mishaps
     \/ model = NoModel /\ SendBack(infer.msg) /\ UNCHANGED mishaps
     \/ Mishap /\ SendBack(infer.msg)
  /\ infer' = NotInferring
  /\ UNCHANGED <<registry, up, engine, baselines, votes, session, monitor, servingHist,
                 stale, surprised>>

\* The model that serves NOW answers; every answer is logged, and only then
\* a BUY or SELL is published.
Infer(signal) ==
  /\ up /\ infer.pc = "asking" /\ model # NoModel
  /\ rec' = Append(rec, [msg |-> infer.msg.id, on |-> session, model |-> model,
                         id |-> modelId, signal |-> signal, state |-> "pending", at |-> 0,
                         correct |-> FALSE])
  /\ credited' = Append(credited, 0)
  /\ log' = [log EXCEPT ![modelId] = Appended(@, Len(rec) + 1)]
  /\ IF signal = "HOLD"
       THEN Acknowledge(infer.msg) /\ infer' = NotInferring
       ELSE infer' = [infer EXCEPT !.pc = "publishing", !.rec = Len(rec) + 1]
            /\ UNCHANGED triggers
  /\ UNCHANGED <<registry, up, engine, baselines, session, monitor, mishaps, contended,
                 retried, stale, surprised>>

\* Published and acknowledged; or the publish fails, stored or not.
PublishVote ==
  /\ up /\ infer.pc = "publishing"
  /\ \/ Acknowledge(infer.msg) /\ UNCHANGED <<mishaps, retried>>
     \/ Mishap /\ SendBack(infer.msg) /\ retried' = retried \union {infer.msg.id}
  /\ infer' = NotInferring
  /\ UNCHANGED <<registry, up, engine, baselines, votes, session, monitor, credited,
                 contended, stale, surprised>>

-----------------------------------------------------------------------------
(* The monitor                                                             *)

Held(id) == {log[id][i] : i \in DOMAIN log[id]}
Pending(id) == {r \in Held(id) : rec[r].state = "pending" /\ rec[r].signal # "HOLD"}

\* _resolve_one: too old is measured from the start of the run, the label on
\* the bars fetched since.
OutcomeOf(r, now) ==
  LET tooOld == now - rec[r].on > DropAfter
  IN  IF rec[r].on \in Unmatched \/ session < rec[r].on + Outcome[rec[r].on].after
        THEN IF tooOld THEN "dropped" ELSE "pending"
        ELSE "labelled"

\* A mutant of Judged: the record is not marked.
JudgedUnmarked(r, now) == rec[r]

Judged(r, now) ==
  IF OutcomeOf(r, now) = "pending" THEN rec[r]
  ELSE [rec[r] EXCEPT !.state = OutcomeOf(r, now), !.at = now,
                      !.correct = Outcome[rec[r].on].up = (rec[r].signal = "BUY")]

\* The outcomes rolling_metrics sees.
Measured(id, now) ==
  {r \in Held(id) : rec[r].state = "labelled" /\ rec[r].at >= now - Window}

\* generate_report and _to_event.
Report(drifted, decay, inaccurate, shifted) ==
  LET retrain == drifted \/ decay \/ inaccurate
  IN  [type     |-> IF drifted THEN "feature_drift" ELSE IF decay THEN "performance_decay"
                    ELSE IF inaccurate THEN "accuracy_decay" ELSE "prediction_shift",
       severity |-> IF retrain THEN "critical" ELSE "warning",
       action   |-> IF retrain THEN "auto_retrain"
                    ELSE IF shifted THEN "alert_and_monitor" ELSE "no_action"]

\* The Sharpe decay (percent) and the accuracy (percent) of too few outcomes
\* are neutral.
Performance(id, now) ==
  LET seen  == Measured(id, now)
      right == Cardinality({r \in seen : rec[r].correct})
  IN  IF Cardinality(seen) < MinOutcomes
        THEN {[decay |-> 0, accuracy |-> 50]}
        ELSE {[decay |-> IF BaselineSharpe[id] = 0 THEN 0 ELSE d,
               accuracy |-> (100 * right) \div Cardinality(seen)] : d \in {0, -50}}

\* The drift check that ends a run: silent with no records or no baseline.
DriftCheck(m, id, now) ==
  IF log[id] = <<>> \/ id \notin baselines
    THEN monitor' = [monitor EXCEPT ![m] = NotMonitoring]
    ELSE \E drifted, shifted \in BOOLEAN : \E p \in Performance(id, now) :
           LET alarm == Report(drifted, p.decay < -30, p.accuracy < 48, shifted)
           IN  monitor' = [monitor EXCEPT ![m] =
                 IF alarm.action = "no_action" THEN NotMonitoring
                 ELSE [NotMonitoring EXCEPT !.pc = "alarming", !.id = id, !.now = now,
                                            !.alarm = alarm]]

\* With nothing pending there is nothing to await before the drift check.
StartMonitor(m) ==
  /\ up /\ monitor[m].pc = "idle"
  /\ model # NoModel
  /\ IF m = "http" THEN Mishap ELSE UNCHANGED mishaps
  /\ IF Pending(modelId) = {}
       THEN DriftCheck(m, modelId, session) /\ UNCHANGED contended
       ELSE /\ monitor' = [monitor EXCEPT ![m] =
                 [NotMonitoring EXCEPT !.pc = "fetching", !.id = modelId, !.now = session,
                                       !.held = Pending(modelId)]]
            /\ contended' = contended \union
                 UNION {Pending(modelId) \cap monitor[n].held :
                          n \in {k \in Monitors : monitor[k].pc = "fetching"}}
  /\ UNCHANGED <<registry, up, engine, baselines, votes, session, triggers, infer,
                 credited, retried, stale, surprised>>

\* The bars arrived: every vote held is judged, nothing is read again first.
\* A fetch that fails ends the run with nothing judged.
Resolve(m) ==
  /\ up /\ monitor[m].pc = "fetching"
  /\ \/ /\ rec' = [r \in DOMAIN rec |->
                     IF r \in monitor[m].held THEN Judged(r, monitor[m].now) ELSE rec[r]]
        /\ monitor' = [monitor EXCEPT ![m].pc = "telling", ![m].queue =
             {r \in monitor[m].held : OutcomeOf(r, monitor[m].now) = "labelled"}]
        /\ UNCHANGED mishaps
     \/ /\ Mishap /\ monitor' = [monitor EXCEPT ![m] = NotMonitoring] /\ UNCHANGED rec
  /\ UNCHANGED <<registry, up, engine, baselines, log, session, triggers, infer,
                 servingHist, stale, surprised>>

\* record_outcome, one outcome at a time; a failure is logged and forgotten.
TellAggregator(m) ==
  /\ up /\ monitor[m].pc = "telling" /\ monitor[m].queue # {}
  /\ LET r == CHOOSE x \in monitor[m].queue : \A y \in monitor[m].queue : x <= y
     IN  /\ monitor' = [monitor EXCEPT ![m].queue = @ \ {r}]
         /\ \/ credited' = [credited EXCEPT ![r] = @ + 1] /\ UNCHANGED mishaps
            \/ Mishap /\ UNCHANGED credited
  /\ UNCHANGED <<registry, up, engine, baselines, votes, session, triggers, infer,
                 contended, retried, stale, surprised>>

CheckDrift(m) ==
  /\ up /\ monitor[m].pc = "telling" /\ monitor[m].queue = {}
  /\ DriftCheck(m, monitor[m].id, monitor[m].now)
  /\ UNCHANGED <<registry, up, engine, baselines, votes, session, triggers, infer, mishaps,
                 servingHist, stale, surprised>>

\* The alarm is published, or its publish fails and it is lost.
PublishDrift(m) ==
  /\ up /\ monitor[m].pc = "alarming"
  /\ UNCHANGED mishaps \/ Mishap
  /\ monitor' = [monitor EXCEPT ![m] = NotMonitoring]
  /\ UNCHANGED <<registry, up, engine, baselines, votes, session, triggers, infer,
                 servingHist, stale, surprised>>

-----------------------------------------------------------------------------
(* The process                                                             *)

ServingCrash ==
  /\ up /\ Mishap
  /\ up' = FALSE
  /\ model' = NoModel /\ modelId' = NoModel /\ paused' = FALSE /\ baselines' = {}
  /\ log' = [i \in Ids |-> <<>>]
  /\ rec' = [r \in DOMAIN rec |-> IF rec[r].state = "pending" THEN [rec[r] EXCEPT !.state = "lost"]
                                  ELSE rec[r]]
  /\ retried' = IF infer.pc = "publishing" THEN retried \union {infer.msg.id} ELSE retried
  /\ infer' = NotInferring /\ monitor' = [m \in Monitors |-> NotMonitoring]
  /\ stale' = FALSE /\ surprised' = FALSE
  /\ UNCHANGED <<registry, session, triggers, credited, contended>>

\* The lifespan reloads the alias outside any try: while its model cannot be
\* read the service stays down.
ServingStart ==
  /\ ~up
  /\ up' = TRUE /\ Reload(alias)
  /\ UNCHANGED <<registry, paused, baselines, votes, session, triggers, infer, monitor,
                 servingHist, surprised>>

ServingNext ==
  \/ \E v \in ModelVersions : RegisterVersion(v) \/ Promote(v)
  \/ Pause \/ Resume \/ FeaturesReady
  \/ \E msg \in triggers : TakeTrigger(msg)
  \/ NoInference \/ \E s \in Answers : Infer(s)
  \/ PublishVote
  \/ \E m \in Monitors : StartMonitor(m) \/ Resolve(m) \/ TellAggregator(m) \/ CheckDrift(m)
                         \/ PublishDrift(m)
  \/ ServingCrash \/ ServingStart

ServingSpec == ServingInit /\ [][ServingNext]_servingVars

-----------------------------------------------------------------------------
(* Properties                                                              *)

\* Every variable has its type.
ServingTypeOK ==
  /\ registered \subseteq ModelVersions /\ alias \in {NoModel} \union registered
  /\ model \in Ids \ {Nameless} /\ modelId \in Ids /\ paused \in BOOLEAN
  /\ baselines \subseteq registered
  /\ \A i \in Ids : Len(log[i]) <= LogMax /\ Held(i) \subseteq DOMAIN rec
  /\ \A t \in triggers : t.tries \in 0..(ServeDeliver - 1)
  /\ infer.pc \in {"idle", "asking", "publishing"}
  /\ \A m \in Monitors : /\ monitor[m].pc \in {"idle", "fetching", "telling", "alarming"}
                         /\ monitor[m].queue \subseteq monitor[m].held
  /\ DOMAIN credited = DOMAIN rec

\* The aggregator's weights learn from a vote once (outcomes.py:88-117): a
\* vote is counted twice only if two monitor runs held it at once, or if its
\* publish failed and the redelivered message logged it again.
CreditedOnce ==
  \A q, r \in DOMAIN rec :
    credited[q] > 0 /\ credited[r] > 0 /\ rec[q].msg = rec[r].msg =>
      /\ credited[r] = 1 \/ r \in contended
      /\ q = r \/ rec[q].msg \in retried

\* "The pending queue cannot grow unbounded" (outcomes.py:7): when a run has
\* judged the votes it held, none of those older than the cutoff is pending.
NothingOverdue ==
  \A m \in Monitors : monitor[m].pc = "telling" =>
    \A r \in monitor[m].held :
      monitor[m].now - rec[r].on > DropAfter => rec[r].state # "pending"

\* The alarm of a performance decay rests on enough judged votes of that
\* model, never on dropped ones (service.py:251-258), and an alarm asks for a
\* retraining exactly when it is not the mere shift of predictions.
AlarmsAreMeasured ==
  [][\A m \in Monitors :
       monitor'[m].pc = "alarming" /\ monitor[m].pc # "alarming" =>
         LET a == monitor'[m].alarm
         IN  /\ a.type \in {"performance_decay", "accuracy_decay"} =>
                  MinOutcomes <= Cardinality(
                    {r \in Held(monitor'[m].id) : rec[r].state = "labelled" /\ rec[r].at > 0})
             /\ (a.action = "auto_retrain") = (a.type # "prediction_shift")]_servingVars

\* A vote is computed by the model the production alias names and carries its
\* name, even if the alias moved while its features were being fetched
\* (serving.py:125-147); the exception is a reload that failed.
VotesAreOfProduction ==
  [][Len(rec') > Len(rec) =>
       LET r == rec'[Len(rec')] IN (r.model = alias /\ r.id = alias) \/ stale]_servingVars

\* After POST /serving/pause only the one inference already begun may still be
\* logged or published (serving.py:129).
PauseIsObeyed ==
  [][paused /\ (Len(rec') > Len(rec) \/ (infer.pc = "publishing" /\ infer'.pc = "idle"))
       => surprised \/ ~up']_servingVars

\* Twice the universe times the horizon is deep enough (inference_log.py:32-39):
\* a vote is pushed out before its label matured only by a session that logged
\* more than two records of the symbol.
MaturesBeforeEviction ==
  \A r \in DOMAIN rec :
    rec[r].state = "pending" /\ r \notin Held(rec[r].id) /\ session - rec[r].on < Horizon
      => \E d \in 1..session : Cardinality({q \in DOMAIN rec : rec[q].on = d}) > 2

\* A vote is judged exactly once: in time, before its record is evicted, and for
\* one credit to the aggregator (outcomes.py:70-117, inference_log.py:48).
VotesAreSettledOnce ==
  ServingTypeOK /\ CreditedOnce /\ NothingOverdue /\ MaturesBeforeEviction

\* What serving publishes, votes and alarms alike, is warranted: by the
\* production alias, the pause switch and enough judged votes.
ServingIsAccountable == VotesAreOfProduction /\ PauseIsObeyed /\ AlarmsAreMeasured
=============================================================================
