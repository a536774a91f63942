-------------------------- MODULE SignalAggregator --------------------------
(***************************************************************************)
(* The signal-aggregator service: three durable subscriptions (strategy    *)
(* signals, ML votes, regime changes) fill buffers and schedule, per       *)
(* symbol, one deferred task that sleeps for the join window, decides on   *)
(* what is buffered then, and awaits the sector lookup and the publish.    *)
(* A handler awaits nothing before its ack, so it is one action.  The two  *)
(* awaits of a task are one phase: nothing is read between them.           *)
(***************************************************************************)
EXTENDS Voting

CONSTANTS
  Signals,        \* signal.generated events: [symbol, strategy, side, conf, at]
  Votes,          \* ml.signal_generated events: [symbol, side, conf, at]
  Announcements,  \* macro.regime_changed events: [regime, at]
  WeightChoices,  \* weight functions the adaptive optimizer may arrive at
  TTL,            \* SIGNAL_TTL_SECONDS
  MaxNow,         \* bound: the last instant
  MaxDeliver,     \* bound: deliveries of one event (an ack may be lost)
  MaxFaults       \* bound: failed decisions and crashes

Symbols == {m.symbol : m \in Signals \union Votes}
Events == Signals \union Votes \union Announcements

ASSUME AggregatorAssumption ==
  /\ \A m \in Events : m.at \in Nat
  /\ \A m \in Signals \union Votes : m.side \in Sides /\ m.conf \in 0..100
  /\ Signals \intersect (Votes \union Announcements) = {}
  /\ WeightChoices # {}
  /\ TTL \in Nat /\ MaxNow \in Nat /\ MaxDeliver \in Nat /\ MaxFaults \in Nat

VARIABLES
  up, now,
  buffer,     \* the latest signal per (symbol, strategy)
  votes,      \* the latest ML vote per symbol
  macro,      \* the last regime announced, "unknown" before
  weights,
  task,       \* per symbol: its deferred decision, if one is pending
  decision,   \* per symbol: what that task is about to publish
  delivered   \* per event: deliveries so far

VARIABLES   \* history: read by no action of the program
  unseen,     \* symbols with a component that arrived after their last decision
  raced,      \* of those: one arrived while the last decision was on its way
  faults

buffers == <<buffer, votes, macro>>
history == <<unseen, raced, faults>>
vars    == <<up, now, buffers, weights, task, decision, delivered, history>>

None == [side |-> "HOLD", levels |-> {}]

Init ==
  /\ up = TRUE /\ now = 0
  /\ buffer = {} /\ votes = {} /\ macro = "unknown"
  /\ weights \in WeightChoices
  /\ task = [s \in Symbols |-> "none"]
  /\ decision = [s \in Symbols |-> None]
  /\ delivered = [m \in Events |-> 0]
  /\ unseen = {} /\ raced = {} /\ faults = 0

Fault == faults < MaxFaults /\ faults' = faults + 1

-----------------------------------------------------------------------------
(* The subscriptions                                                       *)

\* A stream delivers in the order of emission, but for redeliveries.
Deliver(m, stream) ==
  /\ up /\ m.at <= now /\ delivered[m] < MaxDeliver
  /\ delivered[m] = 0 => \A n \in stream : n.at < m.at => delivered[n] > 0
  /\ delivered' = [delivered EXCEPT ![m] = @ + 1]

\* A mutant of Schedule: only the first component of a symbol schedules.
ScheduleFirstOnly(symbols) ==
  /\ task' = [s \in Symbols |->
                IF s \in symbols /\ task[s] = "none" /\ \A n \in buffer : n.symbol # s
                  THEN "window" ELSE task[s]]
  /\ unseen' = unseen \union symbols
  /\ raced' = raced \union {s \in symbols : task[s] = "deciding"}

\* schedule_decision of each symbol: a pending task is left as it is.
Schedule(symbols) ==
  /\ task' = [s \in Symbols |->
                IF s \in symbols /\ task[s] = "none" THEN "window" ELSE task[s]]
  /\ unseen' = unseen \union symbols
  /\ raced' = raced \union {s \in symbols : task[s] = "deciding"}

\* The entry of another (symbol, strategy), or of another symbol, stays.
SameSlot(m, n) == m.symbol = n.symbol /\ m.strategy = n.strategy

\* Mutants of Buffered: an entry that exists is kept, or kept beside the new one.
BufferedOnce(m) == IF \E n \in buffer : SameSlot(m, n) THEN buffer ELSE buffer \union {m}

Buffered(m) == {n \in buffer : ~SameSlot(m, n)} \union {m}

HandleSignalGenerated(m) ==
  /\ Deliver(m, Signals)
  /\ buffer' = Buffered(m)
  /\ Schedule({m.symbol})
  /\ UNCHANGED <<up, now, votes, macro, weights, decision, faults>>

HandleMlSignal(m) ==
  /\ Deliver(m, Votes)
  /\ votes' = {v \in votes : v.symbol # m.symbol} \union {m}
  /\ Schedule({m.symbol})
  /\ UNCHANGED <<up, now, buffer, macro, weights, decision, faults>>

HandleRegimeChanged(m) ==
  /\ Deliver(m, Announcements)
  /\ macro' = m.regime
  /\ Schedule({n.symbol : n \in buffer})
  /\ UNCHANGED <<up, now, buffer, votes, weights, decision, faults>>

\* POST /outcomes: the optimizer arrives at other weights.
RecordOutcome(w) ==
  /\ up /\ weights' = w
  /\ UNCHANGED <<up, now, buffers, task, decision, delivered, history>>

-----------------------------------------------------------------------------
(* The deferred task of a symbol: _decide_after_window, aggregate_symbol   *)

Expired(m) == now - m.at > TTL
Entries(s) == {m \in buffer : m.symbol = s}
LiveEntries(s) == {m \in Entries(s) : ~Expired(m)}
LiveVotes(s) == {v \in votes : v.symbol = s /\ ~Expired(v)}

\* The components of a decision; a source that a strategy is is its name.
Components(s) ==
  {[source |-> m.strategy, side |-> m.side, conf |-> m.conf] : m \in LiveEntries(s)}
    \union {[source |-> "ml", side |-> v.side, conf |-> v.conf] : v \in LiveVotes(s)}
    \union MacroVote(macro)

\* The window is over: prune and decide, or end if no strategy is live.
WindowEnds(s) ==
  LET side == Decide(Components(s), weights)
      live == LiveEntries(s)
  IN  /\ up /\ task[s] = "window"
      /\ buffer' = buffer \ {m \in Entries(s) : Expired(m)}
      /\ IF live = {}
           THEN /\ task' = [task EXCEPT ![s] = "none"]
                /\ UNCHANGED <<votes, decision>>
           ELSE /\ task' = [task EXCEPT ![s] = "deciding"]
                /\ votes' = {v \in votes : v.symbol = s => ~Expired(v)}
                /\ decision' = [decision EXCEPT ![s] =
                                  [side |-> side, levels |-> Levels(live, side)]]
      /\ unseen' = unseen \ {s} /\ raced' = raced \ {s}
      /\ UNCHANGED <<up, now, macro, weights, delivered, faults>>

EndTask(s) ==
  /\ task' = [task EXCEPT ![s] = "none"]
  /\ decision' = [decision EXCEPT ![s] = None]

\* signal.aggregated is out.
PublishDecision(s) ==
  /\ up /\ task[s] = "deciding"
  /\ EndTask(s)
  /\ UNCHANGED <<up, now, buffers, weights, delivered, history>>

\* A mutant of DecisionFails: the task is gone and its slot is not cleared.
DecisionFailsPending(s) ==
  /\ up /\ task[s] = "deciding" /\ Fault
  /\ task' = [task EXCEPT ![s] = "dead"]
  /\ UNCHANGED <<up, now, buffers, weights, decision, delivered, unseen, raced>>

\* The lookup or the publish raised: logged, and the slot is free again.
DecisionFails(s) ==
  /\ up /\ task[s] = "deciding" /\ Fault
  /\ EndTask(s)
  /\ UNCHANGED <<up, now, buffers, weights, delivered, unseen, raced>>

-----------------------------------------------------------------------------
\* Nothing is persisted, and what was buffered was acknowledged.
Crash ==
  /\ up /\ Fault
  /\ up' = FALSE
  /\ buffer' = {} /\ votes' = {} /\ macro' = "unknown"
  /\ task' = [s \in Symbols |-> "none"]
  /\ decision' = [s \in Symbols |-> None]
  /\ unseen' = {} /\ raced' = {}
  /\ UNCHANGED <<now, weights, delivered>>

Restart ==
  /\ ~up /\ up' = TRUE
  /\ weights' \in WeightChoices
  /\ UNCHANGED <<now, buffers, task, decision, delivered, history>>

Tick ==
  /\ now < MaxNow /\ now' = now + 1
  /\ UNCHANGED <<up, buffers, weights, task, decision, delivered, history>>

Next ==
  \/ \E m \in Signals : HandleSignalGenerated(m)
  \/ \E m \in Votes : HandleMlSignal(m)
  \/ \E m \in Announcements : HandleRegimeChanged(m)
  \/ \E w \in WeightChoices : RecordOutcome(w)
  \/ \E s \in Symbols : WindowEnds(s) \/ PublishDecision(s) \/ DecisionFails(s)
  \/ Crash \/ Restart \/ Tick

Spec == Init /\ [][Next]_vars

\* A sleep ends, a lookup and a publish return or raise; nothing else is owed.
Fairness ==
  \A s \in Symbols : WF_vars(WindowEnds(s)) /\ WF_vars(PublishDecision(s))

FairSpec == Spec /\ Fairness

-----------------------------------------------------------------------------
(* Properties                                                              *)

Decisions == [side : Sides, levels : SUBSET Signals]

\* Every variable stays in its type; a slot of a buffer holds one event, and a
\* decision is carried by the task that publishes it.
TypeOK ==
  /\ up \in BOOLEAN /\ now \in Nat /\ weights \in WeightChoices
  /\ buffer \subseteq Signals
  /\ \A m, n \in buffer : SameSlot(m, n) => m = n
  /\ votes \subseteq Votes /\ \A v, w \in votes : v.symbol = w.symbol => v = w
  /\ macro \in {"unknown"} \union {m.regime : m \in Announcements}
  /\ task \in [Symbols -> {"none", "window", "deciding"}]
  /\ decision \in [Symbols -> Decisions]
  /\ delivered \in [Events -> Nat]
  /\ unseen \subseteq Symbols /\ raced \subseteq Symbols /\ faults \in Nat

\* A component no decision has taken into account has a decision coming, unless
\* it arrived while the one before was being published.
MissedNeedsRace == \A s \in unseen : task[s] # "none" \/ s \in raced

\* An entry older than a signal already delivered for its slot needs a
\* redelivery: on in-order streams "latest" is the latest.
OldSignalNeedsRedelivery ==
  \A m \in buffer, n \in Signals :
    SameSlot(m, n) /\ n.at > m.at /\ delivered[n] > 0 => delivered[m] > 1

\* No failure wedges a symbol: while the process lives, every component is
\* decided on, or it raced a decision.
ComponentsAreDecided ==
  \A s \in Symbols : s \in unseen ~> (s \notin unseen \/ s \in raced)
=============================================================================
