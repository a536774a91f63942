----------------------- MODULE SignalAggregatorProofs -----------------------
(***************************************************************************)
(* Proofs about SignalAggregator for all sets of events, weights and       *)
(* bounds: what a decision may miss, and what "latest" means.              *)
(***************************************************************************)
EXTENDS SignalAggregator, TLAPS

-----------------------------------------------------------------------------
(* The inductive invariant                                                 *)

\* A component no decision has seen is waited for in the join window, or came
\* too late for it.  A task past its window carries no unseen component of its
\* own, which is why its end leaves none behind.
UnseenInWindow == \A s \in unseen : task[s] = "window" \/ s \in raced

\* What is buffered was delivered, and the signals delivered so far are a prefix
\* of the stream.
InOrder ==
  /\ \A m \in buffer : delivered[m] > 0
  /\ \A m, n \in Signals : n.at > m.at /\ delivered[n] > 0 => delivered[m] > 0

IInv == TypeOK /\ UnseenInWindow /\ InOrder /\ OldSignalNeedsRedelivery

\* Whatever the weights and the confidences, the vote ends in a side, and the
\* levels it carries are those of a live signal.
LEMMA DecisionTyped ==
  ASSUME NEW components, NEW w, NEW live \in SUBSET Signals
  PROVE  /\ Decide(components, w) \in Sides
         /\ Levels(live, Decide(components, w)) \in SUBSET Signals
<1> DEFINE Over(x, bar) == CASE components # {} /\ x >= bar  -> "BUY"
                             [] components # {} /\ x <= -bar -> "SELL"
                             [] OTHER                        -> "HOLD"
<1>1. \A x, bar : Over(x, bar) \in Sides
  BY DEF Sides
<1> HIDE DEF Over
<1>2. Combined(components, w) = Over(Sum(components, w), BuyThreshold * Total(components, w))
  BY DEF Combined, Over
<1>3. Decide(components, w) \in Sides
  BY <1>1, <1>2 DEF Decide, Sides
<1>4. \A side : Levels(live, side) \subseteq live
  BY DEF Levels
<1> QED
  BY <1>3, <1>4

-----------------------------------------------------------------------------
(* One lemma per group of actions                                          *)

LEMMA InitIInv == Init => IInv
<1> SUFFICES ASSUME Init PROVE IInv
  OBVIOUS
<1>1. None \in Decisions
  BY DEF None, Decisions, Sides
<1>2. TypeOK
  BY <1>1 DEF Init, TypeOK
<1>3. UnseenInWindow
  BY DEF Init, UnseenInWindow
<1>4. InOrder /\ OldSignalNeedsRedelivery
  BY DEF Init, InOrder, OldSignalNeedsRedelivery, Events
<1> QED
  BY <1>2, <1>3, <1>4 DEF IInv

\* Scheduling keeps the tasks typed and every unseen component waited for.
LEMMA ScheduleTyped ==
  ASSUME IInv, NEW symbols \in SUBSET Symbols, Schedule(symbols)
  PROVE  /\ task' \in [Symbols -> {"none", "window", "deciding"}]
         /\ unseen' \subseteq Symbols /\ raced' \subseteq Symbols
         /\ UnseenInWindow'
BY DEF IInv, TypeOK, Schedule, UnseenInWindow

\* A delivery counts one message, and keeps the order of its stream.
LEMMA DeliverCounts ==
  ASSUME IInv, NEW m \in Events, NEW stream, Deliver(m, stream)
  PROVE  /\ delivered' \in [Events -> Nat]
         /\ delivered'[m] = delivered[m] + 1
         /\ \A n \in Events : n # m => delivered'[n] = delivered[n]
         /\ \A n \in Events : delivered'[n] >= delivered[n]
         /\ delivered[m] = 0 => \A n \in stream : n.at < m.at => delivered[n] > 0
BY DEF IInv, TypeOK, Deliver

\* Signals: the slot of the message is replaced, and only a redelivery can be
\* older than what its slot has already seen.
LEMMA SignalStep ==
  ASSUME IInv, NEW m \in Signals, HandleSignalGenerated(m)
  PROVE  IInv'
<1> USE DEF HandleSignalGenerated
<1>1. m \in Events /\ m.symbol \in Symbols
  BY DEF Events, Symbols
<1>2. /\ delivered' \in [Events -> Nat]
      /\ delivered'[m] = delivered[m] + 1
      /\ \A n \in Events : n # m => delivered'[n] = delivered[n]
      /\ delivered[m] = 0 => \A n \in Signals : n.at < m.at => delivered[n] > 0
  BY <1>1, DeliverCounts
<1>3. /\ task' \in [Symbols -> {"none", "window", "deciding"}]
      /\ unseen' \subseteq Symbols /\ raced' \subseteq Symbols
      /\ UnseenInWindow'
  BY <1>1, ScheduleTyped
<1>4. buffer' = {n \in buffer : ~SameSlot(m, n)} \union {m}
  BY DEF Buffered
<1>5. TypeOK'
  <2>1. buffer' \subseteq Signals /\ \A n, o \in buffer' : SameSlot(n, o) => n = o
    BY <1>4 DEF IInv, TypeOK, SameSlot
  <2> QED
    BY <1>2, <1>3, <2>1 DEF IInv, TypeOK
<1>6. \A n \in Signals : n \in Events /\ n.at \in Nat /\ delivered[n] \in Nat
  BY AggregatorAssumption DEF Events, IInv, TypeOK
<1>7. InOrder'
  <2>1. \A n \in buffer' : delivered'[n] > 0
    BY <1>2, <1>4, <1>6 DEF IInv, InOrder, TypeOK
  <2>2. \A n, o \in Signals : o.at > n.at /\ delivered'[o] > 0 => delivered'[n] > 0
    BY <1>2, <1>6 DEF IInv, InOrder
  <2> QED
    BY <2>1, <2>2 DEF InOrder
<1>8. OldSignalNeedsRedelivery'
  <2> SUFFICES ASSUME NEW n \in buffer', NEW o \in Signals,
                      SameSlot(n, o), o.at > n.at, delivered'[o] > 0
               PROVE  delivered'[n] > 1
    BY DEF OldSignalNeedsRedelivery, SameSlot
  <2>1. CASE n = m
    <3>1. o # m /\ delivered[o] > 0
      BY <2>1, <1>2, <1>6
    <3>2. delivered[m] > 0
      BY <2>1, <3>1 DEF IInv, InOrder
    <3> QED
      BY <2>1, <3>2, <1>2, <1>6
  <2>2. CASE n # m
    <3>1. n \in buffer /\ ~SameSlot(m, n) /\ n \in Signals
      BY <2>2, <1>4 DEF IInv, TypeOK
    <3>2. o # m
      BY <3>1 DEF SameSlot
    <3>3. delivered[n] > 1
      BY <3>1, <3>2, <1>2, <1>6 DEF IInv, OldSignalNeedsRedelivery
    <3> QED
      BY <2>2, <3>1, <3>3, <1>2, <1>6
  <2> QED
    BY <2>1, <2>2
<1> QED
  BY <1>3, <1>5, <1>7, <1>8 DEF IInv

\* Votes and regime changes leave the strategy signals as they are.
LEMMA OtherEventStep ==
  ASSUME IInv,
         \/ \E m \in Votes : HandleMlSignal(m)
         \/ \E m \in Announcements : HandleRegimeChanged(m)
  PROVE  IInv'
<1> PICK m \in Votes \union Announcements, stream \in {Votes, Announcements},
         symbols \in SUBSET Symbols :
      Deliver(m, stream) /\ Schedule(symbols)
  <2>1. {n.symbol : n \in buffer} \in SUBSET Symbols
    BY DEF IInv, TypeOK, Symbols
  <2>2. \A v \in Votes : {v.symbol} \in SUBSET Symbols
    BY DEF Symbols
  <2> QED
    BY <2>1, <2>2 DEF HandleMlSignal, HandleRegimeChanged
<1>1. m \in Events /\ m \notin Signals
  BY AggregatorAssumption DEF Events
<1>2. /\ delivered' \in [Events -> Nat]
      /\ \A n \in Events : n # m => delivered'[n] = delivered[n]
  BY <1>1, DeliverCounts
<1>3. /\ task' \in [Symbols -> {"none", "window", "deciding"}]
      /\ unseen' \subseteq Symbols /\ raced' \subseteq Symbols
      /\ UnseenInWindow'
  BY ScheduleTyped
<1>4. UNCHANGED <<up, now, buffer, weights, decision, faults>>
  BY DEF HandleMlSignal, HandleRegimeChanged
<1>5. /\ votes' \subseteq Votes /\ \A v, w \in votes' : v.symbol = w.symbol => v = w
      /\ macro' \in {"unknown"} \union {a.regime : a \in Announcements}
  BY DEF IInv, TypeOK, HandleMlSignal, HandleRegimeChanged
<1>6. TypeOK'
  BY <1>2, <1>3, <1>4, <1>5 DEF IInv, TypeOK, Decisions, SameSlot
<1>7. \A n \in Signals : delivered'[n] = delivered[n]
  BY <1>1, <1>2 DEF Events
<1>8. buffer \subseteq Signals
  BY DEF IInv, TypeOK
<1>9. InOrder' /\ OldSignalNeedsRedelivery'
  BY <1>4, <1>7, <1>8 DEF IInv, InOrder, OldSignalNeedsRedelivery, SameSlot
<1> QED
  BY <1>3, <1>6, <1>9 DEF IInv

\* The window of a symbol ends: its components are seen, its expired entries go.
LEMMA WindowStep ==
  ASSUME IInv, NEW s \in Symbols, WindowEnds(s)
  PROVE  IInv'
<1> USE DEF IInv, TypeOK
<1> DEFINE side == Decide(Components(s), weights)
           live == LiveEntries(s)
<1>1. live \in SUBSET Signals
  BY DEF LiveEntries, Entries
<1>2. side \in Sides /\ Levels(live, side) \in SUBSET Signals
  BY <1>1, DecisionTyped
<1> HIDE DEF side, live
<1>3. /\ up /\ task[s] = "window"
      /\ buffer' = buffer \ {m \in Entries(s) : Expired(m)}
      /\ \/ /\ task' = [task EXCEPT ![s] = "none"] /\ UNCHANGED <<votes, decision>>
         \/ /\ task' = [task EXCEPT ![s] = "deciding"]
            /\ votes' = {v \in votes : v.symbol = s => ~Expired(v)}
            /\ decision' = [decision EXCEPT ![s] =
                              [side |-> side, levels |-> Levels(live, side)]]
      /\ unseen' = unseen \ {s} /\ raced' = raced \ {s}
      /\ UNCHANGED <<up, now, macro, weights, delivered, faults>>
  BY DEF WindowEnds, side, live
<1>4. buffer' \subseteq buffer /\ votes' \subseteq votes
  BY <1>3
<1>5. task' \in [Symbols -> {"none", "window", "deciding"}]
      /\ \A u \in Symbols : u # s => task'[u] = task[u]
  BY <1>3
<1>6. decision' \in [Symbols -> Decisions]
  BY <1>2, <1>3 DEF Decisions
<1>7. TypeOK'
  BY <1>3, <1>4, <1>5, <1>6 DEF SameSlot
<1>8. UnseenInWindow'
  BY <1>3, <1>5 DEF UnseenInWindow
<1>9. InOrder' /\ OldSignalNeedsRedelivery'
  BY <1>3, <1>4 DEF InOrder, OldSignalNeedsRedelivery, SameSlot
<1> QED
  BY <1>7, <1>8, <1>9

\* A task that ends, with its decision out or not, leaves only raced components.
LEMMA EndStep ==
  ASSUME IInv, NEW s \in Symbols, PublishDecision(s) \/ DecisionFails(s)
  PROVE  IInv'
<1> USE DEF IInv, TypeOK
<1>1. /\ task[s] = "deciding" /\ EndTask(s)
      /\ UNCHANGED <<up, now, buffers, weights, delivered, unseen, raced>>
  BY DEF PublishDecision, DecisionFails, history
<1>2. faults' \in Nat
  BY DEF PublishDecision, DecisionFails, history, Fault
<1>3. /\ task' \in [Symbols -> {"none", "window", "deciding"}]
      /\ \A u \in Symbols : u # s => task'[u] = task[u]
      /\ decision' \in [Symbols -> Decisions]
  BY <1>1 DEF EndTask, Decisions, None, Sides
<1>4. TypeOK'
  BY <1>1, <1>2, <1>3 DEF buffers, SameSlot
<1>5. UnseenInWindow'
  BY <1>1, <1>3 DEF UnseenInWindow
<1>6. InOrder' /\ OldSignalNeedsRedelivery'
  BY <1>1 DEF InOrder, OldSignalNeedsRedelivery, SameSlot, buffers
<1> QED
  BY <1>4, <1>5, <1>6

\* Crash, restart, the clock and new weights.
LEMMA OtherStep ==
  ASSUME IInv, Crash \/ Restart \/ Tick \/ \E w \in WeightChoices : RecordOutcome(w)
  PROVE  IInv'
<1>1. CASE Crash
  <2>1. None \in Decisions
    BY DEF None, Decisions, Sides
  <2>2. /\ up' = FALSE /\ faults' = faults + 1
        /\ buffer' = {} /\ votes' = {} /\ macro' = "unknown"
        /\ task' = [s \in Symbols |-> "none"]
        /\ decision' = [s \in Symbols |-> None]
        /\ unseen' = {} /\ raced' = {}
        /\ UNCHANGED <<now, weights, delivered>>
    BY <1>1 DEF Crash, Fault
  <2>3. TypeOK'
    <3>1. task' \in [Symbols -> {"none", "window", "deciding"}]
      BY <2>2
    <3>2. decision' \in [Symbols -> Decisions]
      BY <2>1, <2>2
    <3>3. up' \in BOOLEAN /\ now' \in Nat /\ weights' \in WeightChoices
      BY <2>2, Zenon DEF IInv, TypeOK
    <3>4. faults' \in Nat /\ delivered' \in [Events -> Nat]
      BY <2>2 DEF IInv, TypeOK
    <3>5. buffer' = {} /\ votes' = {} /\ unseen' = {} /\ raced' = {} /\ macro' = "unknown"
      BY <2>2
    <3> QED
      BY <3>1, <3>2, <3>3, <3>4, <3>5 DEF TypeOK
  <2>4. UnseenInWindow' /\ InOrder' /\ OldSignalNeedsRedelivery'
    BY <2>2 DEF IInv, UnseenInWindow, InOrder, OldSignalNeedsRedelivery
  <2> QED
    BY <2>3, <2>4 DEF IInv
<1>2. CASE ~Crash
  <2>1. UNCHANGED <<buffers, task, decision, delivered, history>>
    BY <1>2 DEF Restart, Tick, RecordOutcome
  <2>2. up' \in BOOLEAN /\ now' \in Nat /\ weights' \in WeightChoices
    <3>1. up' = up \/ up' = TRUE
      BY <1>2, Zenon DEF Restart, Tick, RecordOutcome
    <3>2. now' = now \/ now' = now + 1
      BY <1>2, Zenon DEF Restart, Tick, RecordOutcome
    <3>3. weights' = weights \/ weights' \in WeightChoices
      BY <1>2, Zenon DEF Restart, Tick, RecordOutcome
    <3>4. up' \in BOOLEAN
      BY <3>1, Zenon DEF IInv, TypeOK
    <3> QED
      BY <3>2, <3>3, <3>4 DEF IInv, TypeOK
  <2> QED
    BY <2>1, <2>2 DEF IInv, TypeOK, UnseenInWindow, InOrder, OldSignalNeedsRedelivery,
                      SameSlot, buffers, history
<1> QED
  BY <1>1, <1>2

\* Every step keeps the invariant.
LEMMA NextIInv == IInv /\ [Next]_vars => IInv'
<1> SUFFICES ASSUME IInv, [Next]_vars PROVE IInv'
  OBVIOUS
<1>1. CASE UNCHANGED vars
  BY <1>1 DEF vars, buffers, history, IInv, TypeOK, UnseenInWindow, InOrder,
              OldSignalNeedsRedelivery, SameSlot
<1>2. CASE Next
  BY <1>2, SignalStep, OtherEventStep, WindowStep, EndStep, OtherStep DEF Next
<1> QED
  BY <1>1, <1>2

-----------------------------------------------------------------------------
(* Theorems                                                                *)

\* The inductive invariant holds in every reachable state of the service.
THEOREM IInvHolds == Spec => []IInv
BY InitIInv, NextIInv, PTL DEF Spec

\* Every variable stays in its type, one event per slot of a buffer.
THEOREM TypeCorrect == Spec => []TypeOK
<1>1. IInv => TypeOK
  BY DEF IInv
<1> QED
  BY <1>1, IInvHolds, PTL

\* A component is missed by the decisions of its symbol only if it arrived while
\* one of them awaited the sector lookup or its publish.
THEOREM MissedOnlyByRace == Spec => []MissedNeedsRace
<1>1. IInv => MissedNeedsRace
  BY DEF IInv, UnseenInWindow, MissedNeedsRace
<1> QED
  BY <1>1, IInvHolds, PTL

\* The buffer holds the latest signal of each slot the stream has delivered, but
\* for entries that were delivered again.
THEOREM LatestIsLatest == Spec => []OldSignalNeedsRedelivery
<1>1. IInv => OldSignalNeedsRedelivery
  BY DEF IInv
<1> QED
  BY <1>1, IInvHolds, PTL
=============================================================================
