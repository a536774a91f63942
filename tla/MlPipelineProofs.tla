-------------------------- MODULE MlPipelineProofs --------------------------
(***************************************************************************)
(* What the run reports of ml-pipeline promise a caller that gave up       *)
(* waiting, what a rerun of the bootstrap script may skip, and what becomes*)
(* of a vote, proved for any operations, plans, sessions and failures.     *)
(***************************************************************************)
EXTENDS MlServing, MlRuns, Bootstrap, FiniteSetTheorems, NaturalsInduction,
        WellFoundedInduction, TLAPS

-----------------------------------------------------------------------------
(* The run reports.  The argument follows what a caller may find under its *)
(* operation: 0, the report it saw first, or a younger one.  If nobody else*)
(* ran the operation meanwhile, a younger one is of its own pass, the only *)
(* one in flight.                                                          *)

PassStates == {"dataset", "fitting", "recording", "done", "failed", "died"}
Passes == [op : Operations, pc : PassStates, folds : 0..Folds, stamp : Nat]
CallerStates == {"idle", "asking", "waiting", "polling", "answered", "recovered", "failed"}

Shapes ==
  /\ serverUp \in BOOLEAN
  /\ disk \in [Operations -> Nat] /\ memory \in [Operations -> Nat]
  /\ checkpoint \in [Operations -> Nat]
  /\ passes \in Seq(Passes)
  /\ caller \in [RunCallers -> [pc : CallerStates, op : Operations \union {"none"},
                                previous : Nat, pass : Nat, answer : Nat]]
  /\ stamp \in Nat /\ since \in [RunCallers -> Nat]
  /\ blind \subseteq RunCallers /\ shared \subseteq RunCallers

\* What is stored is of the past; the report in memory is the one on disk.
StoreInv ==
  \A o \in Operations :
    /\ disk[o] <= stamp /\ memory[o] <= stamp
    /\ Durable => memory[o] \in {0, disk[o]}
    /\ ~Durable => disk[o] = 0

\* A checkpoint is of an unfinished pass of its operation.
CheckpointInv ==
  \A o \in Operations : checkpoint[o] # 0 =>
    LET p == checkpoint[o]
    IN  p \in DOMAIN passes /\ passes[p].op = o /\ passes[p].pc # "done"

\* A pass in flight has no report yet.
PassInv == \A p \in DOMAIN passes : InFlight(p) => passes[p].stamp = 0

CallerInv ==
  \A c \in RunCallers :
    /\ since[c] <= stamp
    /\ caller[c].pc # "idle" => caller[c].op \in Operations
    /\ caller[c].pc \in {"idle", "asking"} => caller[c].pass = 0
    /\ caller[c].pass # 0 => /\ caller[c].pass \in DOMAIN passes
                             /\ passes[caller[c].pass].op = caller[c].op

Active(c) == caller[c].pc \in {"asking", "waiting", "polling"}

\* Two callers of one operation at a time know they share it.
ApartInv ==
  \A c, d \in RunCallers :
    c # d /\ Active(c) /\ Active(d) /\ caller[c].op = caller[d].op => c \in shared

\* What report x, found under the operation of c, may be to c.
Fresh(c, x) == x \in {0, caller[c].previous} \/ x > since[c]
Own(c, x) ==
  \/ x \in {0, caller[c].previous}
  \/ caller[c].pass # 0 /\ passes[caller[c].pass].stamp = x

FreshInv ==
  \A c \in RunCallers \ blind : Active(c) =>
    Fresh(c, disk[caller[c].op]) /\ Fresh(c, memory[caller[c].op])

OwnInv ==
  \A c \in RunCallers \ (blind \union shared) : Active(c) =>
    /\ Own(c, disk[caller[c].op]) /\ Own(c, memory[caller[c].op])
    /\ \A p \in DOMAIN passes :
         InFlight(p) /\ passes[p].op = caller[c].op => p = caller[c].pass

RecoveredIsReport ==
  \A c \in RunCallers : caller[c].pc = "recovered" => caller[c].answer # 0

EndInv == RecoveredIsReport /\ RecoveredIsFresh /\ RecoveredIsOwn /\ AnsweredIsDurable

IInv == /\ Shapes /\ StoreInv /\ CheckpointInv /\ PassInv /\ CallerInv /\ ApartInv
        /\ FreshInv /\ OwnInv /\ EndInv

-----------------------------------------------------------------------------
(* Facts about the sequence of passes                                      *)

LEMMA PassFacts ==
  ASSUME Shapes
  PROVE  /\ Len(passes) \in Nat /\ DOMAIN passes = 1..Len(passes)
         /\ \A p \in DOMAIN passes : passes[p] \in Passes /\ p # 0 /\ p \in Nat
  BY DEF Shapes

LEMMA PassReplaced ==
  ASSUME Shapes, NEW p \in DOMAIN passes, NEW q \in Passes,
         passes' = [passes EXCEPT ![p] = q]
  PROVE  /\ passes' \in Seq(Passes) /\ DOMAIN passes' = DOMAIN passes
         /\ passes'[p] = q /\ \A r \in DOMAIN passes \ {p} : passes'[r] = passes[r]
  BY DEF Shapes

LEMMA PassAdded ==
  ASSUME Shapes, NEW q \in Passes, passes' = Append(passes, q)
  PROVE  /\ passes' \in Seq(Passes)
         /\ DOMAIN passes' = DOMAIN passes \union {Len(passes) + 1}
         /\ Len(passes) + 1 \notin DOMAIN passes /\ Len(passes) + 1 # 0
         /\ passes'[Len(passes) + 1] = q
         /\ \A r \in DOMAIN passes : passes'[r] = passes[r]
  BY DEF Shapes

LEMMA InitInv == RunsInit => IInv
<1> SUFFICES ASSUME RunsInit PROVE IInv
  OBVIOUS
<1> USE DEF RunsInit
<1>1. Shapes
  BY DEF Shapes, Waiting, CallerStates
<1>2. /\ \A o \in Operations : disk[o] = 0 /\ memory[o] = 0 /\ checkpoint[o] = 0
      /\ DOMAIN passes = {}
      /\ \A c \in RunCallers : caller[c].pc = "idle" /\ caller[c].pass = 0 /\ since[c] = 0
  BY DEF Waiting
<1>3. StoreInv /\ CheckpointInv /\ PassInv /\ CallerInv
  BY <1>2 DEF StoreInv, CheckpointInv, PassInv, CallerInv
<1>4. ApartInv /\ FreshInv /\ OwnInv /\ EndInv
  BY <1>2 DEF ApartInv, FreshInv, OwnInv, EndInv, Active, RecoveredIsReport, RecoveredIsFresh,
              RecoveredIsOwn, AnsweredIsDurable
<1> QED
  BY <1>1, <1>3, <1>4 DEF IInv

-----------------------------------------------------------------------------
(* The caller's steps                                                      *)

\* Caller c alone moves on, keeping its operation, what it saw and its pass.
LEMMA CallerMoves ==
  ASSUME IInv, NEW c \in RunCallers, NEW k,
         k \in [pc : CallerStates, op : Operations \union {"none"},
                previous : Nat, pass : Nat, answer : Nat],
         caller' = [caller EXCEPT ![c] = k],
         k.op = caller[c].op, k.previous = caller[c].previous, k.pass = caller[c].pass,
         Active(c), k.pc \in {"polling", "recovered", "failed"},
         k.pc = "recovered" =>
           /\ k.answer \notin {0, k.previous}
           /\ k.answer \in {disk[k.op], memory[k.op]}
           /\ memory[k.op] = 0 => k.answer = disk[k.op],
         UNCHANGED <<serverUp, runStore, passes, stamp, runHist>>
  PROVE  IInv'
<1> USE DEF runStore, runHist
<1>1. caller'[c] = k /\ \A d \in RunCallers \ {c} : caller'[d] = caller[d]
  BY DEF IInv, Shapes
<1>2. Shapes'
  BY DEF IInv, Shapes
<1>3. StoreInv' /\ CheckpointInv' /\ PassInv'
  BY DEF IInv, StoreInv, CheckpointInv, PassInv, InFlight
<1>4. CallerInv'
  BY <1>1 DEF IInv, CallerInv, Active
<1>5. ApartInv'
  BY <1>1 DEF IInv, ApartInv, Active
<1>6. FreshInv' /\ OwnInv'
  BY <1>1 DEF IInv, FreshInv, OwnInv, Active, Fresh, Own, InFlight
<1>7. EndInv'
  <2>1. CASE k.pc = "recovered"
    <3>1. k.op \in Operations
      BY DEF IInv, CallerInv, Active
    <3>2. c \notin blind => k.answer > since[c]
      BY <2>1 DEF IInv, FreshInv, Fresh
    <3>3. c \notin blind \union shared => k.pass # 0 /\ passes[k.pass].stamp = k.answer
      BY <2>1 DEF IInv, OwnInv, Own
    <3>4. Durable => disk[k.op] >= k.answer
      BY <2>1, <3>1 DEF IInv, StoreInv, Shapes
    <3> QED
      BY <1>1, <2>1, <3>2, <3>3, <3>4 DEF IInv, EndInv, RecoveredIsReport, RecoveredIsFresh,
                                          RecoveredIsOwn, AnsweredIsDurable
  <2>2. CASE k.pc # "recovered"
    BY <1>1, <2>2 DEF IInv, EndInv, RecoveredIsReport, RecoveredIsFresh, RecoveredIsOwn,
                      AnsweredIsDurable
  <2> QED
    BY <2>1, <2>2
<1> QED
  BY <1>2, <1>3, <1>4, <1>5, <1>6, <1>7 DEF IInv

LEMMA TimeoutKeeps ==
  ASSUME IInv, NEW c \in RunCallers, ReadTimeout(c)
  PROVE  IInv'
<1> DEFINE k == [caller[c] EXCEPT !.pc = "polling"]
<1>1. /\ k \in [pc : CallerStates, op : Operations \union {"none"},
                previous : Nat, pass : Nat, answer : Nat]
      /\ k.pc = "polling" /\ k.op = caller[c].op /\ k.previous = caller[c].previous
      /\ k.pass = caller[c].pass
  BY DEF IInv, Shapes, CallerStates
<1>2. /\ caller' = [caller EXCEPT ![c] = k] /\ Active(c)
      /\ UNCHANGED <<serverUp, runStore, passes, stamp, runHist>>
  BY DEF ReadTimeout, Active
<1> HIDE DEF k
<1> QED
  BY <1>1, <1>2, CallerMoves

LEMMA PollKeeps ==
  ASSUME IInv, NEW c \in RunCallers, PollRuns(c)
  PROVE  IInv'
<1> DEFINE op == caller[c].op
           k1 == [caller[c] EXCEPT !.pc = "recovered", !.answer = LastRun(op)]
           k2 == [caller[c] EXCEPT !.pc = "failed"]
<1>1. op \in Operations /\ Active(c) /\ UNCHANGED <<serverUp, runStore, passes, stamp, runHist>>
  BY DEF PollRuns, IInv, CallerInv, Active
<1>2. LastRun(op) \in Nat /\ LastRun(op) \in {disk[op], memory[op]}
      /\ (memory[op] = 0 => LastRun(op) = disk[op])
  BY <1>1 DEF IInv, Shapes, LastRun
<1>3. CASE LastRun(op) \notin {0, caller[c].previous} /\ caller' = [caller EXCEPT ![c] = k1]
  <2>1. /\ k1 \in [pc : CallerStates, op : Operations \union {"none"},
                   previous : Nat, pass : Nat, answer : Nat]
        /\ k1.pc = "recovered" /\ k1.op = op /\ k1.previous = caller[c].previous
        /\ k1.pass = caller[c].pass /\ k1.answer = LastRun(op)
    BY <1>2 DEF IInv, Shapes, CallerStates
  <2> HIDE DEF k1
  <2> QED
    BY <1>1, <1>2, <1>3, <2>1, CallerMoves
<1>4. CASE caller' = [caller EXCEPT ![c] = k2]
  <2>1. /\ k2 \in [pc : CallerStates, op : Operations \union {"none"},
                   previous : Nat, pass : Nat, answer : Nat]
        /\ k2.pc = "failed" /\ k2.op = op /\ k2.previous = caller[c].previous
        /\ k2.pass = caller[c].pass
    BY DEF IInv, Shapes, CallerStates
  <2> HIDE DEF k2
  <2> QED
    BY <1>1, <1>4, <2>1, CallerMoves
<1> QED
  BY <1>3, <1>4 DEF PollRuns

LEMMA LookKeeps ==
  ASSUME IInv, NEW c \in RunCallers, NEW op \in Operations, LookFirst(c, op)
  PROVE  IInv'
<1>1. /\ caller[c].pc = "idle"
      /\ since' = [since EXCEPT ![c] = stamp]
      /\ UNCHANGED <<serverUp, disk, memory, checkpoint, passes, stamp>>
  BY DEF LookFirst, runStore
<1>2. LastRun(op) \in Nat /\ LastRun(op) \in {disk[op], memory[op]}
  BY DEF IInv, Shapes, LastRun
<1>3. PICK k : /\ caller' = [caller EXCEPT ![c] = k]
               /\ \/ k = [Waiting EXCEPT !.pc = "asking", !.op = op, !.previous = LastRun(op)]
                     /\ blind' = blind
                  \/ k = [Waiting EXCEPT !.pc = "asking", !.op = op]
                     /\ blind' = blind \union {c}
  BY DEF LookFirst
<1> DEFINE x == k.previous
<1>4. /\ k \in [pc : CallerStates, op : Operations \union {"none"},
                previous : Nat, pass : Nat, answer : Nat]
      /\ k.pc = "asking" /\ k.op = op /\ k.pass = 0
      /\ \/ x = LastRun(op) /\ blind' = blind
         \/ x = 0 /\ blind' = blind \union {c}
  <2>1. CASE k = [Waiting EXCEPT !.pc = "asking", !.op = op, !.previous = LastRun(op)]
             /\ blind' = blind
    BY <1>2, <2>1 DEF Waiting, CallerStates
  <2>2. CASE k = [Waiting EXCEPT !.pc = "asking", !.op = op] /\ blind' = blind \union {c}
    BY <2>2 DEF Waiting, CallerStates
  <2> QED
    BY <1>3, <2>1, <2>2
<1>5. k.previous = x
  OBVIOUS
<1> HIDE DEF x
<1>6. /\ caller'[c] = k /\ since'[c] = stamp
      /\ \A d \in RunCallers \ {c} : caller'[d] = caller[d] /\ since'[d] = since[d]
  BY <1>1, <1>3 DEF IInv, Shapes
<1>7. /\ shared \subseteq shared' /\ shared' \subseteq RunCallers
      /\ \/ {c} \union Overlapping(op, c) \subseteq shared'
         \/ /\ Overlapping(op, c) = {}
            /\ \A p \in DOMAIN passes : ~(InFlight(p) /\ passes[p].op = op)
  BY DEF LookFirst, Overlapping, IInv, Shapes
<1>8. blind \subseteq blind' /\ blind' \subseteq RunCallers
  BY <1>4 DEF IInv, Shapes
<1>9. Shapes'
  BY <1>1, <1>3, <1>4, <1>7, <1>8 DEF IInv, Shapes
<1>10. StoreInv' /\ CheckpointInv' /\ PassInv'
  BY <1>1 DEF IInv, StoreInv, CheckpointInv, PassInv, InFlight
<1>11. CallerInv'
  <2>1. stamp <= stamp
    BY DEF IInv, Shapes
  <2> QED
    BY <1>1, <1>4, <1>6, <2>1 DEF IInv, CallerInv
<1>12. ApartInv'
  <2> SUFFICES ASSUME NEW d \in RunCallers, NEW e \in RunCallers, d # e, Active(d)', Active(e)',
                      caller'[d].op = caller'[e].op
               PROVE  d \in shared'
    BY DEF ApartInv, Active
  <2>1. CASE d # c /\ e # c
    BY <1>6, <1>7, <2>1 DEF IInv, ApartInv, Active
  <2>2. CASE d = c
    <3>1. e \in Overlapping(op, c)
      BY <1>4, <1>6, <2>2 DEF Overlapping, Active
    <3> QED
      BY <1>7, <2>2, <3>1
  <2>3. CASE e = c
    <3>1. d \in Overlapping(op, c)
      BY <1>4, <1>6, <2>3 DEF Overlapping, Active
    <3> QED
      BY <1>7, <3>1
  <2> QED
    BY <2>1, <2>2, <2>3
<1>13. \A v \in {disk[op], memory[op]} : c \notin blind' => v \in {0, x}
  BY <1>2, <1>4 DEF IInv, StoreInv, LastRun, Shapes
<1>14. FreshInv'
  BY <1>1, <1>4, <1>5, <1>6, <1>8, <1>13 DEF IInv, FreshInv, Active, Fresh
<1>15. OwnInv'
  <2> SUFFICES ASSUME NEW d \in RunCallers \ (blind' \union shared'), Active(d)'
               PROVE  /\ Own(d, disk[caller[d].op])' /\ Own(d, memory[caller[d].op])'
                      /\ \A p \in DOMAIN passes :
                           InFlight(p) /\ passes[p].op = caller'[d].op => p = caller'[d].pass
    BY <1>1 DEF OwnInv, InFlight
  <2>1. CASE d = c
    BY <1>1, <1>4, <1>5, <1>6, <1>7, <1>13, <2>1 DEF Own
  <2>2. CASE d # c
    BY <1>1, <1>6, <1>7, <1>8, <2>2 DEF IInv, OwnInv, Active, Own
  <2> QED
    BY <2>1, <2>2
<1>16. EndInv'
  BY <1>1, <1>4, <1>6, <1>7, <1>8
     DEF IInv, EndInv, RecoveredIsReport, RecoveredIsFresh, RecoveredIsOwn, AnsweredIsDurable
<1> QED
  BY <1>9, <1>10, <1>11, <1>12, <1>14, <1>15, <1>16 DEF IInv

LEMMA PostKeeps ==
  ASSUME IInv, NEW c \in RunCallers, PostOperation(c)
  PROVE  IInv'
<1>1. CASE ~serverUp
  <2> DEFINE k == [caller[c] EXCEPT !.pc = "polling"]
  <2>1. /\ k \in [pc : CallerStates, op : Operations \union {"none"},
                  previous : Nat, pass : Nat, answer : Nat]
        /\ k.pc = "polling" /\ k.op = caller[c].op /\ k.previous = caller[c].previous
        /\ k.pass = caller[c].pass
    BY DEF IInv, Shapes, CallerStates
  <2>2. /\ caller' = [caller EXCEPT ![c] = k] /\ Active(c)
        /\ UNCHANGED <<serverUp, runStore, passes, stamp, runHist>>
    BY <1>1 DEF PostOperation, Active
  <2> HIDE DEF k
  <2> QED
    BY <2>1, <2>2, CallerMoves
<1>2. CASE serverUp
  <2> DEFINE op == caller[c].op
             n == Len(passes) + 1
             q == [op |-> op, pc |-> "dataset", folds |-> 0, stamp |-> 0]
             k == [caller[c] EXCEPT !.pc = "waiting", !.pass = n]
  <2>1. /\ caller[c].pc = "asking" /\ op \in Operations /\ caller[c].pass = 0 /\ Active(c)
        /\ Len(passes) \in Nat /\ DOMAIN passes = 1..Len(passes)
    BY PassFacts DEF PostOperation, IInv, CallerInv, Active
  <2>2. /\ passes' = Append(passes, q)
        /\ caller' = [caller EXCEPT ![c] = k]
        /\ UNCHANGED <<serverUp, disk, memory, checkpoint, stamp, since, blind, shared>>
    BY <1>2 DEF PostOperation, runStore, runHist
  <2>3. q \in Passes /\ q.op = op /\ q.pc = "dataset" /\ q.stamp = 0
    BY <2>1, RunsAssumption DEF Passes, PassStates
  <2>4. /\ k \in [pc : CallerStates, op : Operations \union {"none"},
                  previous : Nat, pass : Nat, answer : Nat]
        /\ k.pc = "waiting" /\ k.op = op /\ k.previous = caller[c].previous /\ k.pass = n
    <3>1. n \in Nat
      BY <2>1
    <3>2. caller[c] \in [pc : CallerStates, op : Operations \union {"none"},
                         previous : Nat, pass : Nat, answer : Nat]
      BY DEF IInv, Shapes
    <3> HIDE DEF n
    <3> QED
      BY <3>1, <3>2 DEF CallerStates
  <2> HIDE DEF q, k, n, op
  <2>5. /\ passes' \in Seq(Passes)
        /\ DOMAIN passes' = DOMAIN passes \union {n}
        /\ n \notin DOMAIN passes /\ n # 0 /\ passes'[n] = q
        /\ \A r \in DOMAIN passes : passes'[r] = passes[r]
    BY <2>2, <2>3, PassAdded DEF IInv, n
  <2>6. /\ caller'[c] = k /\ \A d \in RunCallers \ {c} : caller'[d] = caller[d]
    BY <2>2 DEF IInv, Shapes
  <2>7. Shapes'
    BY <2>2, <2>4, <2>5 DEF IInv, Shapes
  <2>8. StoreInv'
    BY <2>2 DEF IInv, StoreInv
  <2>9. CheckpointInv' /\ PassInv'
    BY <2>2, <2>3, <2>5 DEF IInv, CheckpointInv, PassInv, InFlight
  <2>10. CallerInv'
    BY <2>1, <2>2, <2>3, <2>4, <2>5, <2>6 DEF IInv, CallerInv
  <2>11. ApartInv'
    BY <2>1, <2>2, <2>4, <2>6 DEF IInv, ApartInv, Active, op
  <2>12. FreshInv'
    BY <2>1, <2>2, <2>4, <2>6 DEF IInv, FreshInv, Active, Fresh, op
  <2>13. OwnInv'
    <3> SUFFICES ASSUME NEW d \in RunCallers \ (blind \union shared), Active(d)'
                 PROVE  /\ Own(d, disk[caller[d].op])' /\ Own(d, memory[caller[d].op])'
                        /\ \A p \in DOMAIN passes' :
                             InFlight(p)' /\ passes'[p].op = caller'[d].op => p = caller'[d].pass
      BY <2>2 DEF OwnInv
    <3>1. CASE d = c
      <4>1. disk[op] \in {0, k.previous} /\ memory[op] \in {0, k.previous}
        BY <2>1, <2>4, <3>1 DEF IInv, OwnInv, Own, op
      <4>2. \A p \in DOMAIN passes : ~(InFlight(p) /\ passes[p].op = op)
        BY <2>1, <2>5, <3>1, PassFacts DEF IInv, OwnInv, op
      <4> QED
        BY <2>2, <2>4, <2>5, <2>6, <3>1, <4>1, <4>2 DEF Own, InFlight
    <3>2. CASE d # c
      <4>1. caller[d].op # op /\ Active(d) /\ caller'[d] = caller[d]
        BY <2>1, <2>6, <3>2 DEF IInv, ApartInv, Active, op
      <4>2. caller[d].pass # 0 => passes'[caller[d].pass] = passes[caller[d].pass]
        BY <2>5 DEF IInv, CallerInv
      <4>3. Own(d, disk[caller[d].op])' /\ Own(d, memory[caller[d].op])'
        <5>1. Own(d, disk[caller[d].op]) /\ Own(d, memory[caller[d].op])
          BY <4>1 DEF IInv, OwnInv
        <5>2. ASSUME NEW x, Own(d, x) PROVE Own(d, x)'
          BY <4>1, <4>2, <5>2 DEF Own
        <5> QED
          BY <2>2, <4>1, <5>1, <5>2
      <4>4. ASSUME NEW p \in DOMAIN passes', InFlight(p)', passes'[p].op = caller[d].op
            PROVE  p = caller[d].pass
        <5>1. p \in DOMAIN passes /\ passes'[p] = passes[p]
          BY <2>3, <2>5, <4>1, <4>4
        <5> QED
          BY <4>1, <4>4, <5>1 DEF IInv, OwnInv, InFlight
      <4> QED
        BY <4>1, <4>3, <4>4
    <3> QED
      BY <3>1, <3>2
  <2>14. EndInv'
    <3>1. \A d \in RunCallers : caller[d].pass # 0 =>
            passes'[caller[d].pass] = passes[caller[d].pass]
      BY <2>5 DEF IInv, CallerInv
    <3>2. RecoveredIsReport' /\ RecoveredIsFresh' /\ AnsweredIsDurable'
      BY <2>2, <2>4, <2>6
         DEF IInv, EndInv, RecoveredIsReport, RecoveredIsFresh, AnsweredIsDurable
    <3>3. RecoveredIsOwn'
      <4> SUFFICES ASSUME NEW d \in RunCallers, caller'[d].pc = "recovered",
                          d \notin blind \union shared
                   PROVE  caller'[d].pass # 0 /\ passes'[caller'[d].pass].stamp = caller'[d].answer
        BY <2>2 DEF RecoveredIsOwn
      <4>1. caller'[d] = caller[d]
        BY <2>4, <2>6
      <4>2. caller[d].pass # 0 /\ passes[caller[d].pass].stamp = caller[d].answer
        BY <4>1 DEF IInv, EndInv, RecoveredIsOwn
      <4> QED
        BY <3>1, <4>1, <4>2
    <3> QED
      BY <3>2, <3>3 DEF EndInv
  <2> QED
    BY <2>7, <2>8, <2>9, <2>10, <2>11, <2>12, <2>13, <2>14 DEF IInv
<1> QED
  BY <1>1, <1>2

-----------------------------------------------------------------------------
(* The service's steps                                                     *)

\* The callers waiting for pass p are told it failed, or nobody is.
LEMMA FailedCallers ==
  ASSUME IInv, NEW p, caller' = caller \/ caller' = Answered(p, "failed", 0)
  PROVE  /\ caller' \in [RunCallers -> [pc : CallerStates, op : Operations \union {"none"},
                                        previous : Nat, pass : Nat, answer : Nat]]
         /\ \A c \in RunCallers :
              /\ caller'[c] = caller[c] \/ caller'[c].pc = "failed"
              /\ caller'[c].pc = "failed" => caller[c].pc # "idle" \/ caller'[c] = caller[c]
              /\ caller'[c].op = caller[c].op /\ caller'[c].previous = caller[c].previous
              /\ caller'[c].pass = caller[c].pass
<1> DEFINE Callers == [pc : CallerStates, op : Operations \union {"none"},
                       previous : Nat, pass : Nat, answer : Nat]
           told(c) == [caller[c] EXCEPT !.pc = "failed", !.answer = 0]
<1>1. caller \in [RunCallers -> Callers]
  BY DEF IInv, Shapes
<1>2. \A c \in RunCallers :
        /\ told(c) \in Callers /\ told(c).pc = "failed"
        /\ told(c).op = caller[c].op /\ told(c).previous = caller[c].previous
        /\ told(c).pass = caller[c].pass
  BY <1>1 DEF CallerStates
<1>3. CASE caller' = caller
  BY <1>1, <1>3
<1>4. CASE caller' = Answered(p, "failed", 0)
  <2> HIDE DEF Callers
  <2>1. caller' = [c \in RunCallers |-> IF caller[c].pc = "waiting" /\ caller[c].pass = p
                                          THEN told(c) ELSE caller[c]]
    BY <1>4 DEF Answered
  <2> HIDE DEF told
  <2>2. \A c \in RunCallers : caller'[c] = caller[c]
                              \/ (caller[c].pc = "waiting" /\ caller'[c] = told(c))
    BY <2>1
  <2>3. caller' \in [RunCallers -> Callers]
    BY <1>1, <1>2, <2>1
  <2> QED
    BY <1>2, <2>2, <2>3 DEF Callers
<1> QED
  BY <1>3, <1>4

\* Pass p, in flight, becomes q: it goes on, or ends without a report.
Moved(p, q) ==
  /\ p \in DOMAIN passes /\ InFlight(p) /\ q \in Passes
  /\ passes' = [passes EXCEPT ![p] = q]
  /\ q.op = passes[p].op /\ q.stamp = 0 /\ q.pc # "done"
  /\ caller' = caller \/ caller' = Answered(p, "failed", 0)
  /\ checkpoint' \in [Operations -> Nat]
  /\ \A o \in Operations : \/ checkpoint'[o] \in {0, checkpoint[o]}
                           \/ checkpoint'[o] = p /\ o = q.op
  /\ stamp' \in {stamp, stamp + 1}
  /\ UNCHANGED <<serverUp, disk, memory, since, blind, shared>>

LEMMA PassMoves ==
  ASSUME IInv, NEW p, NEW q, Moved(p, q)
  PROVE  IInv'
<1> USE DEF Moved
<1>1. /\ passes' \in Seq(Passes) /\ DOMAIN passes' = DOMAIN passes
      /\ passes'[p] = q /\ \A r \in DOMAIN passes \ {p} : passes'[r] = passes[r]
  BY PassReplaced DEF IInv
<1>2. passes[p].stamp = 0
  BY DEF IInv, PassInv
<1>3. /\ caller' \in [RunCallers -> [pc : CallerStates, op : Operations \union {"none"},
                                     previous : Nat, pass : Nat, answer : Nat]]
      /\ \A c \in RunCallers :
           /\ caller'[c] = caller[c] \/ caller'[c].pc = "failed"
           /\ caller'[c].pc = "failed" => caller[c].pc # "idle" \/ caller'[c] = caller[c]
           /\ caller'[c].op = caller[c].op /\ caller'[c].previous = caller[c].previous
           /\ caller'[c].pass = caller[c].pass
  BY FailedCallers
<1>4. /\ \A r \in DOMAIN passes : passes'[r].op = passes[r].op /\ passes'[r].stamp = passes[r].stamp
      /\ \A r \in DOMAIN passes : InFlight(r)' => InFlight(r)
  BY <1>1, <1>2 DEF InFlight
<1>5. stamp \in Nat /\ stamp' \in Nat /\ \A x \in Nat : x <= stamp => x <= stamp'
  BY DEF IInv, Shapes
<1>6. Shapes'
  BY <1>1, <1>3, <1>5 DEF IInv, Shapes
<1>7. StoreInv'
  BY <1>5 DEF IInv, StoreInv, Shapes
<1>8. CheckpointInv'
  BY <1>1, <1>4 DEF IInv, CheckpointInv
<1>9. PassInv'
  BY <1>1, <1>4 DEF IInv, PassInv
<1>10. CallerInv'
  <2> SUFFICES ASSUME NEW c \in RunCallers
               PROVE  /\ since[c] <= stamp'
                      /\ caller'[c].pc # "idle" => caller[c].op \in Operations
                      /\ caller'[c].pc \in {"idle", "asking"} => caller[c].pass = 0
                      /\ caller[c].pass # 0 => /\ caller[c].pass \in DOMAIN passes
                                               /\ passes'[caller[c].pass].op = caller[c].op
    BY <1>1, <1>3 DEF CallerInv
  <2>1. since[c] <= stamp'
    BY <1>5 DEF IInv, CallerInv, Shapes
  <2> QED
    BY <1>3, <1>4, <2>1 DEF IInv, CallerInv
<1>11. ApartInv'
  BY <1>3 DEF IInv, ApartInv, Active
<1>12. FreshInv'
  BY <1>3 DEF IInv, FreshInv, Active, Fresh
<1>13. OwnInv'
  <2> SUFFICES ASSUME NEW c \in RunCallers \ (blind \union shared), Active(c)'
               PROVE  /\ Own(c, disk[caller[c].op])' /\ Own(c, memory[caller[c].op])'
                      /\ \A r \in DOMAIN passes' :
                           InFlight(r)' /\ passes'[r].op = caller'[c].op => r = caller'[c].pass
    BY DEF OwnInv
  <2>1. Active(c) /\ caller'[c] = caller[c]
    BY <1>3 DEF Active
  <2>2. caller[c].pass # 0 => caller[c].pass \in DOMAIN passes
    BY DEF IInv, CallerInv
  <2> QED
    BY <1>1, <1>4, <2>1, <2>2 DEF IInv, OwnInv, Own
<1>14. EndInv'
  <2>1. \A c \in RunCallers : caller[c].pass # 0 => caller[c].pass \in DOMAIN passes
    BY DEF IInv, CallerInv
  <2> QED
    BY <1>3, <1>4, <2>1 DEF IInv, EndInv, RecoveredIsReport, RecoveredIsFresh, RecoveredIsOwn,
                            AnsweredIsDurable
<1> QED
  BY <1>6, <1>7, <1>8, <1>9, <1>10, <1>11, <1>12, <1>13, <1>14 DEF IInv

\* BuildDataset, SaveProgress, FinishFit, and a report that cannot be written.
LEMMA PassStepKeeps ==
  ASSUME IInv, NEW p \in DOMAIN passes,
         \/ BuildDataset(p) \/ SaveProgress(p) \/ FinishFit(p)
         \/ RecordRun(p) /\ UNCHANGED runStore /\ passes' = [passes EXCEPT ![p].pc = "failed"]
            /\ caller' = Answered(p, "failed", 0)
  PROVE  IInv'
<1>1. /\ passes[p] \in Passes /\ p \in Nat
  BY PassFacts DEF IInv
<1>2. /\ InFlight(p) /\ UNCHANGED <<serverUp, disk, memory, since, blind, shared>>
      /\ stamp' \in {stamp, stamp + 1}
      /\ caller' = caller \/ caller' = Answered(p, "failed", 0)
  BY DEF BuildDataset, SaveProgress, FinishFit, RecordRun, InFlight, runStore, runHist
<1>3. passes[p].stamp = 0
  BY <1>2 DEF IInv, PassInv
<1>4. PICK q : /\ passes' = [passes EXCEPT ![p] = q]
               /\ \/ \E pc \in {"fitting", "recording", "failed"} : q = [passes[p] EXCEPT !.pc = pc]
                  \/ q = [passes[p] EXCEPT !.folds = @ + 1] /\ passes[p].folds < Folds
                     /\ passes[p].pc = "fitting"
  BY DEF BuildDataset, SaveProgress, FinishFit, RecordRun
<1>5. q \in Passes /\ q.op = passes[p].op /\ q.stamp = 0 /\ q.pc # "done"
  BY <1>1, <1>3, <1>4, RunsAssumption DEF Passes, PassStates
<1>6. /\ checkpoint' \in [Operations -> Nat]
      /\ \A o \in Operations : \/ checkpoint'[o] \in {0, checkpoint[o]}
                               \/ checkpoint'[o] = p /\ o = passes[p].op
  <2>1. checkpoint \in [Operations -> Nat] /\ passes[p].op \in Operations
    BY <1>1 DEF IInv, Shapes, Passes
  <2>2. \/ checkpoint' = checkpoint
        \/ \E x \in {0, p} : checkpoint' = [checkpoint EXCEPT ![passes[p].op] = x]
    BY DEF BuildDataset, SaveProgress, FinishFit, ClearProgress, runStore
  <2> QED
    BY <1>1, <2>1, <2>2
<1>7. \A o \in Operations : \/ checkpoint'[o] \in {0, checkpoint[o]}
                            \/ checkpoint'[o] = p /\ o = q.op
  BY <1>5, <1>6
<1>8. Moved(p, q)
  BY <1>2, <1>4, <1>5, <1>6, <1>7 DEF Moved
<1> QED
  BY <1>8, PassMoves

LEMMA PassDone ==
  ASSUME NEW r \in Passes, NEW s \in Nat
  PROVE  LET q == [r EXCEPT !.pc = "done", !.stamp = s]
         IN  q \in Passes /\ q.op = r.op /\ q.pc = "done" /\ q.stamp = s
  BY DEF Passes, PassStates

LEMMA CallerTold ==
  ASSUME NEW s \in Nat,
         NEW k \in [pc : CallerStates, op : Operations \union {"none"},
                    previous : Nat, pass : Nat, answer : Nat]
  PROVE  LET t == [k EXCEPT !.pc = "answered", !.answer = s]
         IN  /\ t \in [pc : CallerStates, op : Operations \union {"none"},
                       previous : Nat, pass : Nat, answer : Nat]
             /\ t.pc = "answered" /\ t.answer = s /\ t.op = k.op
             /\ t.previous = k.previous /\ t.pass = k.pass
  BY DEF CallerStates

\* A report is recorded: it is younger than all, and of the pass in flight.
LEMMA RecordKeeps ==
  ASSUME IInv, NEW p \in DOMAIN passes, RecordRun(p),
         memory' = [memory EXCEPT ![passes[p].op] = stamp']
  PROVE  IInv'
<1> DEFINE op == passes[p].op
           q == [passes[p] EXCEPT !.pc = "done", !.stamp = stamp']
           told(c) == [caller[c] EXCEPT !.pc = "answered", !.answer = stamp']
           Callers == [pc : CallerStates, op : Operations \union {"none"},
                       previous : Nat, pass : Nat, answer : Nat]
<1>1. /\ stamp \in Nat /\ stamp' = stamp + 1 /\ op \in Operations /\ p # 0
      /\ InFlight(p) /\ passes[p] \in Passes
      /\ memory \in [Operations -> Nat] /\ disk \in [Operations -> Nat]
      /\ caller \in [RunCallers -> Callers]
  BY PassFacts DEF IInv, Shapes, Passes, RecordRun, InFlight
<1>2. memory'[op] = stamp' /\ memory'[op] # memory[op]
  BY <1>1 DEF IInv, StoreInv
<1>3. /\ disk' = IF Durable THEN [disk EXCEPT ![op] = stamp'] ELSE disk
      /\ checkpoint' = [checkpoint EXCEPT ![op] = 0]
      /\ passes' = [passes EXCEPT ![p] = q]
      /\ caller' = [c \in RunCallers |-> IF caller[c].pc = "waiting" /\ caller[c].pass = p
                                          THEN told(c) ELSE caller[c]]
      /\ UNCHANGED <<serverUp, since, blind, shared>>
  BY <1>2 DEF RecordRun, ClearProgress, Answered, runStore, runHist
<1>4. q \in Passes /\ q.op = op /\ q.pc = "done" /\ q.stamp = stamp'
  <2>1. stamp' \in Nat
    BY <1>1
  <2>2. passes[p] \in Passes
    BY <1>1
  <2> HIDE DEF op
  <2>3. q \in Passes /\ q.op = passes[p].op /\ q.pc = "done" /\ q.stamp = stamp'
    BY <2>1, <2>2, PassDone
  <2> QED
    BY <2>3 DEF op
<1>5. \A c \in RunCallers :
        /\ told(c) \in Callers /\ told(c).pc = "answered" /\ told(c).answer = stamp'
        /\ told(c).op = caller[c].op /\ told(c).previous = caller[c].previous
        /\ told(c).pass = caller[c].pass
  <2> SUFFICES ASSUME NEW c \in RunCallers
               PROVE  /\ told(c) \in Callers /\ told(c).pc = "answered"
                      /\ told(c).answer = stamp' /\ told(c).op = caller[c].op
                      /\ told(c).previous = caller[c].previous
                      /\ told(c).pass = caller[c].pass
    OBVIOUS
  <2>1. stamp' \in Nat /\ caller[c] \in Callers
    BY <1>1
  <2> QED
    BY <2>1, CallerTold
<1> HIDE DEF q, told, op, Callers
<1>6. /\ passes' \in Seq(Passes) /\ DOMAIN passes' = DOMAIN passes
      /\ passes'[p] = q /\ \A r \in DOMAIN passes \ {p} : passes'[r] = passes[r]
  BY <1>3, <1>4, PassReplaced DEF IInv
<1>7. /\ caller' \in [RunCallers -> Callers]
      /\ \A c \in RunCallers :
           /\ \/ caller'[c] = caller[c] /\ ~(caller[c].pc = "waiting" /\ caller[c].pass = p)
              \/ caller'[c] = told(c) /\ caller[c].pc = "waiting" /\ caller[c].pass = p
           /\ caller'[c].op = caller[c].op /\ caller'[c].previous = caller[c].previous
           /\ caller'[c].pass = caller[c].pass
           /\ Active(c)' => caller'[c] = caller[c]
  BY <1>1, <1>3, <1>5 DEF Active
<1>8. /\ disk' \in [Operations -> Nat] /\ memory' \in [Operations -> Nat]
      /\ \A o \in Operations :
           /\ memory'[o] = IF o = op THEN stamp' ELSE memory[o]
           /\ disk'[o] = IF o = op /\ Durable THEN stamp' ELSE disk[o]
           /\ disk[o] <= disk'[o]
  <2>1. \A o \in Operations : disk[o] <= stamp /\ disk[o] <= disk[o] /\ stamp <= stamp'
    BY <1>1 DEF IInv, StoreInv
  <2> QED
    BY <1>1, <1>3, <2>1 DEF op
<1>9. Shapes'
  <2>1. checkpoint' \in [Operations -> Nat]
    BY <1>3 DEF IInv, Shapes
  <2> QED
    BY <1>1, <1>3, <1>6, <1>7, <1>8, <2>1 DEF IInv, Shapes, Callers
<1>10. StoreInv'
  BY <1>1, <1>8 DEF IInv, StoreInv
<1>11. CheckpointInv'
  <2>1. \A o \in Operations : checkpoint'[o] = IF o = op THEN 0 ELSE checkpoint[o]
    BY <1>1, <1>3 DEF IInv, Shapes
  <2>2. \A o \in Operations \ {op} : checkpoint[o] # 0 => checkpoint[o] # p
    BY DEF IInv, CheckpointInv, op
  <2> QED
    BY <1>6, <2>1, <2>2 DEF IInv, CheckpointInv
<1>12. \A r \in DOMAIN passes : passes'[r].op = passes[r].op /\ (InFlight(r)' => InFlight(r) /\ r # p)
  BY <1>4, <1>6 DEF InFlight, op
<1>13. PassInv'
  BY <1>6, <1>12 DEF IInv, PassInv
<1>14. CallerInv'
  <2> SUFFICES ASSUME NEW c \in RunCallers
               PROVE  /\ since[c] <= stamp'
                      /\ caller'[c].pc # "idle" => caller[c].op \in Operations
                      /\ caller'[c].pc \in {"idle", "asking"} => caller[c].pass = 0
                      /\ caller[c].pass # 0 => /\ caller[c].pass \in DOMAIN passes
                                               /\ passes'[caller[c].pass].op = caller[c].op
    BY <1>3, <1>6, <1>7 DEF CallerInv
  <2>1. since[c] <= stamp'
    BY <1>1 DEF IInv, CallerInv, Shapes
  <2> QED
    BY <1>5, <1>7, <1>12, <2>1 DEF IInv, CallerInv
<1>15. ApartInv'
  BY <1>3, <1>7 DEF IInv, ApartInv, Active
<1>16. FreshInv'
  <2> SUFFICES ASSUME NEW c \in RunCallers \ blind, Active(c), caller'[c] = caller[c]
               PROVE  Fresh(c, disk[caller[c].op])' /\ Fresh(c, memory[caller[c].op])'
    BY <1>3, <1>7 DEF FreshInv, Active
  <2>1. caller[c].op \in Operations /\ since[c] < stamp'
    BY <1>1 DEF IInv, CallerInv, Shapes, Active
  <2> QED
    BY <1>3, <1>8, <2>1 DEF IInv, FreshInv, Fresh
<1>17. OwnInv'
  <2> SUFFICES ASSUME NEW c \in RunCallers \ (blind \union shared), Active(c),
                      caller'[c] = caller[c]
               PROVE  /\ Own(c, disk[caller[c].op])' /\ Own(c, memory[caller[c].op])'
                      /\ \A r \in DOMAIN passes :
                           InFlight(r)' /\ passes'[r].op = caller[c].op => r = caller[c].pass
    BY <1>3, <1>6, <1>7 DEF OwnInv, Active
  <2>1. /\ caller[c].op \in Operations
        /\ Own(c, disk[caller[c].op]) /\ Own(c, memory[caller[c].op])
        /\ \A r \in DOMAIN passes : InFlight(r) /\ passes[r].op = caller[c].op => r = caller[c].pass
        /\ caller[c].pass # 0 => caller[c].pass \in DOMAIN passes
                                 /\ passes[caller[c].pass].op = caller[c].op
    BY DEF IInv, OwnInv, CallerInv, Active
  <2>2. CASE caller[c].op = op
    <3>1. caller[c].pass = p
      BY <1>1, <2>1, <2>2 DEF op
    <3>2. memory'[op] = stamp' /\ disk'[op] \in {0, stamp'}
      BY <1>1, <1>8 DEF IInv, StoreInv
    <3> QED
      BY <1>1, <1>4, <1>6, <1>12, <2>1, <2>2, <3>1, <3>2 DEF Own
  <2>3. CASE caller[c].op # op
    <3>1. /\ memory'[caller[c].op] = memory[caller[c].op]
          /\ disk'[caller[c].op] = disk[caller[c].op]
      BY <1>8, <2>1, <2>3
    <3>2. caller[c].pass # 0 => passes'[caller[c].pass] = passes[caller[c].pass]
      BY <1>6, <2>1, <2>3 DEF op
    <3>3. ASSUME NEW x, Own(c, x) PROVE Own(c, x)'
      BY <3>2, <3>3 DEF Own
    <3> QED
      BY <1>12, <2>1, <3>1, <3>3
  <2> QED
    BY <2>2, <2>3
<1>18. EndInv'
  <2>1. RecoveredIsReport' /\ RecoveredIsFresh'
    BY <1>3, <1>5, <1>7 DEF IInv, EndInv, RecoveredIsReport, RecoveredIsFresh
  <2>2. RecoveredIsOwn'
    <3> SUFFICES ASSUME NEW c \in RunCallers, caller'[c].pc = "recovered",
                        c \notin blind \union shared
                 PROVE  caller'[c].pass # 0 /\ passes'[caller'[c].pass].stamp = caller'[c].answer
      BY <1>3 DEF RecoveredIsOwn
    <3>1. caller'[c] = caller[c]
      BY <1>5, <1>7
    <3>2. /\ caller[c].pass # 0 /\ passes[caller[c].pass].stamp = caller[c].answer
          /\ caller[c].answer # 0
      BY <3>1 DEF IInv, EndInv, RecoveredIsOwn, RecoveredIsReport
    <3>3. caller[c].pass \in DOMAIN passes /\ caller[c].pass # p
      BY <1>1, <3>2 DEF IInv, CallerInv, PassInv
    <3> QED
      BY <1>6, <3>1, <3>2, <3>3
  <2>3. AnsweredIsDurable'
    <3> SUFFICES ASSUME Durable, NEW c \in RunCallers, caller'[c].pc \in {"answered", "recovered"}
                 PROVE  disk'[caller'[c].op] >= caller'[c].answer
      BY DEF AnsweredIsDurable
    <3>1. CASE caller'[c] = told(c) /\ caller[c].pc = "waiting" /\ caller[c].pass = p
      <4>1. caller[c].op = op
        BY <1>1, <3>1 DEF IInv, CallerInv, op
      <4> QED
        BY <1>1, <1>5, <1>8, <3>1, <4>1
    <3>2. CASE caller'[c] = caller[c]
      <4>1. disk[caller[c].op] >= caller[c].answer /\ caller[c].op \in Operations
        BY <3>2 DEF IInv, EndInv, AnsweredIsDurable, CallerInv
      <4>2. caller[c].answer \in Nat
        BY <1>1 DEF Callers
      <4> QED
        BY <1>1, <1>8, <3>2, <4>1, <4>2
    <3> QED
      BY <1>7, <3>1, <3>2
  <2> QED
    BY <2>1, <2>2, <2>3 DEF EndInv
<1> QED
  BY <1>9, <1>10, <1>11, <1>13, <1>14, <1>15, <1>16, <1>17, <1>18 DEF IInv

\* The memory goes and the passes in flight with it; the files stay.
LEMMA CrashKeeps ==
  ASSUME IInv, ServerCrash
  PROVE  IInv'
<1> DEFINE dead(p) == [passes[p] EXCEPT !.pc = "died"]
           reset(c) == [caller[c] EXCEPT !.pc = "polling"]
           Callers == [pc : CallerStates, op : Operations \union {"none"},
                       previous : Nat, pass : Nat, answer : Nat]
<1>1. /\ memory' = [o \in Operations |-> 0] /\ serverUp' = FALSE
      /\ passes' = [p \in DOMAIN passes |-> IF InFlight(p) THEN dead(p) ELSE passes[p]]
      /\ caller' = [c \in RunCallers |-> IF caller[c].pc = "waiting" THEN reset(c) ELSE caller[c]]
      /\ UNCHANGED <<disk, checkpoint, stamp, since, blind, shared>>
  BY DEF ServerCrash, runHist
<1>2. /\ Len(passes) \in Nat /\ DOMAIN passes = 1..Len(passes)
      /\ \A p \in DOMAIN passes : passes[p] \in Passes
      /\ caller \in [RunCallers -> Callers]
  BY PassFacts DEF IInv, Shapes
<1>3. \A p \in DOMAIN passes : /\ dead(p) \in Passes /\ dead(p).pc = "died"
                               /\ dead(p).op = passes[p].op /\ dead(p).stamp = passes[p].stamp
  BY <1>2 DEF Passes, PassStates
<1>4. \A c \in RunCallers :
        /\ reset(c) \in Callers /\ reset(c).pc = "polling"
        /\ reset(c).op = caller[c].op /\ reset(c).previous = caller[c].previous
        /\ reset(c).pass = caller[c].pass
  BY <1>2 DEF CallerStates
<1> HIDE DEF dead, reset, Callers
<1>5. /\ passes' \in Seq(Passes) /\ DOMAIN passes' = DOMAIN passes
      /\ \A p \in DOMAIN passes : /\ passes'[p] \in {passes[p], dead(p)}
                                  /\ ~InFlight(p)'
                                  /\ passes'[p].op = passes[p].op
                                  /\ passes'[p].stamp = passes[p].stamp
                                  /\ passes'[p].pc = "done" => passes[p].pc = "done"
  <2>1. passes' \in [1..Len(passes) -> Passes]
    BY <1>1, <1>2, <1>3
  <2>2. passes' \in Seq(Passes)
    BY <1>2, <2>1
  <2> QED
    BY <1>1, <1>3, <2>2 DEF InFlight
<1>6. /\ caller' \in [RunCallers -> Callers]
      /\ \A c \in RunCallers :
           /\ \/ caller'[c] = caller[c]
              \/ caller'[c] = reset(c) /\ caller[c].pc = "waiting"
           /\ caller'[c].op = caller[c].op /\ caller'[c].previous = caller[c].previous
           /\ caller'[c].pass = caller[c].pass
           /\ Active(c)' => Active(c)
  BY <1>1, <1>2, <1>4 DEF Active
<1>7. \A o \in Operations : memory'[o] = 0
  BY <1>1
<1>8. Shapes'
  BY <1>1, <1>5, <1>6 DEF IInv, Shapes, Callers
<1>9. StoreInv' /\ CheckpointInv' /\ PassInv'
  BY <1>1, <1>5, <1>7 DEF IInv, Shapes, StoreInv, CheckpointInv, PassInv
<1>10. CallerInv'
  BY <1>1, <1>4, <1>5, <1>6 DEF IInv, CallerInv
<1>11. ApartInv'
  BY <1>1, <1>6 DEF IInv, ApartInv
<1>12. \A c \in RunCallers : Active(c) => caller[c].op \in Operations
  BY DEF IInv, CallerInv, Active
<1>13. FreshInv'
  BY <1>1, <1>6, <1>7, <1>12 DEF IInv, FreshInv, Fresh
<1>14. OwnInv'
  <2> SUFFICES ASSUME NEW c \in RunCallers \ (blind \union shared), Active(c)'
               PROVE  Own(c, disk[caller[c].op])' /\ Own(c, memory[caller[c].op])'
    BY <1>1, <1>5 DEF OwnInv
  <2>1. Active(c) /\ Own(c, disk[caller[c].op]) /\ caller[c].op \in Operations
    BY <1>6, <1>12 DEF IInv, OwnInv
  <2>2. caller[c].pass # 0 => caller[c].pass \in DOMAIN passes
    BY DEF IInv, CallerInv
  <2> QED
    BY <1>1, <1>5, <1>6, <1>7, <2>1, <2>2 DEF Own
<1>15. EndInv'
  <2>1. \A c \in RunCallers : caller'[c].pc \in {"answered", "recovered"} => caller'[c] = caller[c]
    BY <1>4, <1>6
  <2>2. \A c \in RunCallers : caller[c].pass # 0 => caller[c].pass \in DOMAIN passes
    BY DEF IInv, CallerInv
  <2> QED
    BY <1>1, <1>5, <2>1, <2>2 DEF IInv, EndInv, RecoveredIsReport, RecoveredIsFresh,
                                  RecoveredIsOwn, AnsweredIsDurable
<1> QED
  BY <1>8, <1>9, <1>10, <1>11, <1>13, <1>14, <1>15 DEF IInv

-----------------------------------------------------------------------------
LEMMA QuietKeeps ==
  ASSUME IInv, UNCHANGED <<runStore, passes, caller, stamp, runHist>>, serverUp' \in BOOLEAN
  PROVE  IInv'
<1> USE DEF runStore, runHist
<1>1. Shapes' /\ StoreInv' /\ CheckpointInv' /\ PassInv' /\ CallerInv' /\ ApartInv'
  BY DEF IInv, Shapes, StoreInv, CheckpointInv, PassInv, CallerInv, ApartInv, Active, InFlight
<1>2. FreshInv' /\ OwnInv' /\ EndInv'
  BY DEF IInv, FreshInv, OwnInv, EndInv, Active, Fresh, Own, InFlight, RecoveredIsReport,
         RecoveredIsFresh, RecoveredIsOwn, AnsweredIsDurable
<1> QED
  BY <1>1, <1>2 DEF IInv

LEMMA IInvNext == IInv /\ [RunsNext]_runVars => IInv'
<1> SUFFICES ASSUME IInv, [RunsNext]_runVars PROVE IInv'
  OBVIOUS
<1>1. CASE UNCHANGED runVars \/ ServerRestart
  <2>1. UNCHANGED <<runStore, passes, caller, stamp, runHist>> /\ serverUp' \in BOOLEAN
    BY <1>1 DEF runVars, ServerRestart, IInv, Shapes
  <2> QED
    BY <2>1, QuietKeeps
<1>2. ASSUME NEW p \in DOMAIN passes, RecordRun(p)
      PROVE  IInv'
  BY <1>2, RecordKeeps, PassStepKeeps DEF RecordRun
<1>3. CASE RunsNext
  BY <1>1, <1>2, <1>3, LookKeeps, PostKeeps, TimeoutKeeps, PollKeeps, PassStepKeeps, CrashKeeps
     DEF RunsNext
<1> QED
  BY <1>1, <1>3

LEMMA IInvTypes == IInv => RunsTypeOK
<1> SUFFICES ASSUME IInv PROVE RunsTypeOK
  OBVIOUS
<1>0. /\ Len(passes) \in Nat /\ DOMAIN passes = 1..Len(passes)
      /\ \A p \in DOMAIN passes : passes[p] \in Passes
  BY PassFacts DEF IInv
<1>1. \A o \in Operations : checkpoint[o] \in 0..Len(passes)
  <2>1. \A o \in Operations : checkpoint[o] = 0 \/ checkpoint[o] \in DOMAIN passes
    BY DEF IInv, CheckpointInv
  <2> QED
    BY <1>0, <2>1
<1>2. \A c \in RunCallers : caller[c].pass \in 0..Len(passes) /\ caller[c].pc \in CallerStates
  <2>1. \A c \in RunCallers : caller[c].pass = 0 \/ caller[c].pass \in DOMAIN passes
    BY DEF IInv, CallerInv
  <2>2. \A c \in RunCallers : caller[c].pc \in CallerStates
    BY DEF IInv, Shapes
  <2> QED
    BY <1>0, <2>1, <2>2
<1>3. \A p \in DOMAIN passes : passes[p].folds \in 0..Folds
  BY <1>0 DEF Passes
<1>4. \A o \in Operations : /\ {disk[o], memory[o]} \subseteq 0..stamp
                            /\ Durable => memory[o] \in {0, disk[o]}
  <2> SUFFICES ASSUME NEW o \in Operations
               PROVE  /\ disk[o] \in 0..stamp /\ memory[o] \in 0..stamp
                      /\ Durable => memory[o] \in {0, disk[o]}
    OBVIOUS
  <2> QED
    BY DEF IInv, Shapes, StoreInv
<1>5. \A c \in RunCallers :
        caller[c].pc \in {"idle", "asking", "waiting", "polling",
                         "answered", "recovered", "failed"}
  BY <1>2 DEF CallerStates
<1> QED
  BY <1>1, <1>2, <1>3, <1>4, <1>5 DEF RunsTypeOK

\* A caller that gave up waiting gets its own report or none, a younger one than
\* it saw before, one that is on disk; and a checkpoint is left only by a run that
\* did not finish (bootstrap-universe.py, _post_operation; run_store.py).
THEOREM CallersGetTheirReports == RunsSpec => []ReportsAreTheCallers
<1>1. IInv => ReportsAreTheCallers
  BY IInvTypes DEF IInv, EndInv, CheckpointInv, ProgressIsOfUnfinished, ReportsAreTheCallers
<1> QED
  BY <1>1, InitInv, IInvNext, PTL DEF RunsSpec

-----------------------------------------------------------------------------
(* The script.  What a run holds for fetched is stored as deep as it asked *)
(* for, however it came to be killed; the progress file lists nothing else.*)

BootShapes ==
  /\ depth \in [Tickers -> Nat]
  /\ progress.rows \subseteq Tickers /\ progress.years \in Nat
  /\ DOMAIN boot = DOMAIN NoRun
  /\ boot.pc \in {"idle", "fetching", "stages", "finished"}
  /\ boot.pc # "idle" => boot.plan \in Plans
  /\ boot.rows \subseteq Tickers /\ boot.rows \cap boot.tried = {}
  /\ boot.code \in {0, 1} /\ (boot.pc = "stages" => boot.stage \in Nat \ {0})
  /\ boot.pc \in {"idle", "fetching"} =>
       boot.covered = {} /\ boot.used = {} /\ boot.failed = {}

\* What a run holds for fetched is stored as deep as it asked for, and it holds
\* nothing of others but what it resumed.
RowsStored ==
  boot.pc = "fetching" =>
    /\ \A t \in boot.rows : depth[t] >= boot.plan.years
    /\ boot.plan.skip \/ ~boot.plan.resume => boot.rows \subseteq boot.plan.symbols

\* What it read back is stored, and the stages use nothing else.
CoveredStored ==
  /\ \A t \in boot.covered : t \in Tickers /\ depth[t] > 0
  /\ boot.plan.skip \/ ~boot.plan.resume => boot.covered \subseteq boot.plan.symbols
  /\ boot.used \subseteq boot.covered

CodeTells ==
  boot.pc \in {"stages", "finished"} /\ boot.code = 0 =>
    boot.failed = {} /\ boot.plan.symbols \subseteq boot.covered

BootInv == BootShapes /\ ListedIsStored /\ RowsStored /\ CoveredStored /\ CodeTells

LEMMA BootInvSuffices == BootInv => ResumeIsSound
<1> SUFFICES ASSUME BootInv PROVE ResumeIsSound
  OBVIOUS
<1>1. BootTypeOK
  BY DEF BootInv, BootShapes, BootTypeOK
<1>2. TrainsOnStored
  BY DEF BootInv, CoveredStored, TrainsOnStored
<1>3. ExitCodeIsHonest
  BY DEF BootInv, CoveredStored, CodeTells, ExitCodeIsHonest
<1> QED
  BY <1>1, <1>2, <1>3 DEF BootInv, ResumeIsSound

LEMMA BootInitInv == BootInit => BootInv
<1> SUFFICES ASSUME BootInit PROVE BootInv
  OBVIOUS
<1>1. boot.pc = "idle" /\ boot.rows = {} /\ boot.covered = {} /\ boot.used = {}
      /\ boot.failed = {} /\ boot.code = 0 /\ boot.tried = {}
  BY DEF BootInit, NoRun
<1>2. progress.rows = {} /\ progress.years = 0
  BY DEF BootInit, NoProgress
<1>3. BootShapes
  BY <1>1, <1>2 DEF BootInit, BootShapes
<1> QED
  BY <1>1, <1>2, <1>3 DEF BootInv, ListedIsStored, RowsStored, CoveredStored, CodeTells

LEMMA NoRunKeeps ==
  ASSUME BootInv, boot' = NoRun, UNCHANGED <<depth, progress>>
  PROVE  BootInv'
<1>1. boot'.pc = "idle" /\ boot'.rows = {} /\ boot'.covered = {} /\ boot'.used = {}
      /\ boot'.failed = {} /\ boot'.code = 0 /\ boot'.tried = {}
  BY DEF NoRun
<1>2. BootShapes'
  BY <1>1 DEF BootInv, BootShapes
<1> QED
  BY <1>1, <1>2 DEF BootInv, ListedIsStored, RowsStored, CoveredStored, CodeTells

LEMMA StartRunKeeps ==
  ASSUME BootInv, NEW plan \in Plans, StartRun(plan)
  PROVE  BootInv'
<1>1. /\ DOMAIN boot' = DOMAIN NoRun /\ boot'.pc = "fetching" /\ boot'.plan = plan
      /\ boot'.rows = IF plan.skip THEN {} ELSE LoadProgress(plan)
      /\ boot'.tried = {} /\ boot'.covered = {} /\ boot'.used = {} /\ boot'.failed = {}
      /\ boot'.code = 0
  BY DEF StartRun, NoRun
<1>2. UNCHANGED <<depth, progress>>
  BY DEF StartRun
<1>3. boot'.rows \subseteq Tickers /\ \A t \in boot'.rows : depth[t] >= plan.years
  BY <1>1 DEF LoadProgress, BootInv, BootShapes, ListedIsStored
<1>4. plan.skip \/ ~plan.resume => boot'.rows = {}
  BY <1>1 DEF LoadProgress
<1>5. BootShapes'
  BY <1>1, <1>2, <1>3 DEF BootInv, BootShapes
<1>6. RowsStored'
  BY <1>1, <1>2, <1>3, <1>4 DEF RowsStored
<1> QED
  BY <1>1, <1>2, <1>5, <1>6 DEF BootInv, ListedIsStored, CoveredStored, CodeTells

LEMMA StoredDeeper ==
  ASSUME BootShapes, boot.pc # "idle", NEW t \in Tickers
  PROVE  /\ Stored(t) \in [Tickers -> Nat] /\ Stored(t)[t] >= boot.plan.years
         /\ \A u \in Tickers : Stored(t)[u] >= depth[u]
<1>1. boot.plan.years \in Nat
  BY BootstrapAssumption DEF BootShapes
<1> QED
  BY <1>1 DEF Stored, BootShapes

\* A reply: the symbol is among the rows of the run or among those it tried.
LEMMA ReplyKeeps ==
  ASSUME BootInv, boot.pc = "fetching",
         NEW rows, NEW tried, boot' = [boot EXCEPT !.rows = rows, !.tried = tried],
         rows \subseteq Tickers, rows \cap tried = {},
         boot.plan.skip \/ ~boot.plan.resume => rows \subseteq boot.plan.symbols,
         depth' \in [Tickers -> Nat], \A u \in Tickers : depth'[u] >= depth[u],
         \A u \in rows : depth'[u] >= boot.plan.years,
         \/ progress' = progress
         \/ progress' = [years |-> boot.plan.years, rows |-> rows]
  PROVE  BootInv'
<1>1. /\ DOMAIN boot' = DOMAIN boot
      /\ boot'.rows = rows /\ boot'.tried = tried
      /\ boot'.pc = boot.pc /\ boot'.plan = boot.plan /\ boot'.covered = boot.covered
      /\ boot'.used = boot.used /\ boot'.failed = boot.failed /\ boot'.code = boot.code
      /\ boot'.stage = boot.stage
  BY DEF BootInv, BootShapes, NoRun
<1>2. progress'.rows \subseteq Tickers /\ progress'.years \in Nat
  BY BootstrapAssumption DEF BootInv, BootShapes
<1>3. BootShapes'
  BY <1>1, <1>2 DEF BootInv, BootShapes
<1>4. ListedIsStored'
  <2> SUFFICES ASSUME NEW t \in progress'.rows PROVE depth'[t] >= progress'.years
    BY DEF ListedIsStored
  <2>1. CASE progress' = progress
    <3>1. t \in Tickers /\ depth[t] >= progress.years /\ depth'[t] >= depth[t]
          /\ depth[t] \in Nat /\ depth'[t] \in Nat /\ progress.years \in Nat
      BY <2>1 DEF BootInv, BootShapes, ListedIsStored
    <3> QED
      BY <2>1, <3>1
  <2>2. CASE progress' = [years |-> boot.plan.years, rows |-> rows]
    BY <2>2
  <2> QED
    BY <2>1, <2>2
<1>5. RowsStored'
  BY <1>1 DEF RowsStored
<1>6. CoveredStored' /\ CodeTells'
  BY <1>1 DEF BootInv, BootShapes, CoveredStored, CodeTells
<1> QED
  BY <1>3, <1>4, <1>5, <1>6 DEF BootInv

LEMMA FetchSymbolKeeps ==
  ASSUME BootInv, NEW t \in Tickers, FetchSymbol(t)
  PROVE  BootInv'
<1>0. /\ BootShapes /\ boot.pc = "fetching"  /\ ~boot.plan.skip
      /\ t \in boot.plan.symbols /\ t \notin boot.rows \union boot.tried
      /\ boot.plan.years \in Nat
  BY BootstrapAssumption DEF FetchSymbol, BootInv, BootShapes
<1>1. /\ Stored(t) \in [Tickers -> Nat] /\ Stored(t)[t] >= boot.plan.years
      /\ \A u \in Tickers : Stored(t)[u] >= depth[u]
  BY <1>0, StoredDeeper
<1>2. /\ boot.rows \subseteq Tickers /\ boot.rows \cap boot.tried = {}
      /\ depth \in [Tickers -> Nat]
      /\ \A u \in boot.rows : depth[u] >= boot.plan.years
      /\ boot.plan.skip \/ ~boot.plan.resume => boot.rows \subseteq boot.plan.symbols
  BY <1>0 DEF BootInv, BootShapes, RowsStored
<1>3. ASSUME NEW d \in {depth, Stored(t)}
      PROVE  /\ d \in [Tickers -> Nat] /\ \A u \in Tickers : d[u] >= depth[u]
             /\ \A u \in boot.rows : d[u] >= boot.plan.years
  <2>1. d \in [Tickers -> Nat] /\ \A u \in Tickers : d[u] >= depth[u]
    BY <1>1, <1>2, <1>3
  <2>2. \A u \in boot.rows : d[u] >= boot.plan.years
    <3> TAKE u \in boot.rows
    <3>1. u \in Tickers /\ d[u] >= depth[u] /\ depth[u] >= boot.plan.years
          /\ d[u] \in Nat /\ depth[u] \in Nat
      BY <1>2, <2>1
    <3> QED
      BY <1>0, <3>1
  <2> QED
    BY <2>1, <2>2
<1>4. CASE /\ depth' = Stored(t) /\ boot' = [boot EXCEPT !.rows = @ \union {t}]
           /\ progress' = ProgressSaved(boot.plan, boot.rows \union {t})
  <2> DEFINE rows == boot.rows \union {t}
  <2>1. boot' = [boot EXCEPT !.rows = rows, !.tried = boot.tried]
    BY <1>0, <1>4 DEF BootShapes, NoRun
  <2>2. progress' = progress \/ progress' = [years |-> boot.plan.years, rows |-> rows]
    BY <1>4 DEF ProgressSaved
  <2>3. /\ rows \subseteq Tickers /\ rows \cap boot.tried = {}
        /\ boot.plan.skip \/ ~boot.plan.resume => rows \subseteq boot.plan.symbols
        /\ \A u \in rows : depth'[u] >= boot.plan.years
    BY <1>0, <1>1, <1>2, <1>3, <1>4
  <2>4. depth' \in [Tickers -> Nat] /\ \A u \in Tickers : depth'[u] >= depth[u]
    BY <1>1, <1>4
  <2> HIDE DEF rows
  <2> QED
    BY <1>0, <2>1, <2>2, <2>3, <2>4, ReplyKeeps
<1>5. CASE /\ boot' = [boot EXCEPT !.tried = @ \union {t}]
           /\ depth' \in {depth, Stored(t)} /\ progress' = progress
  <2> DEFINE tried == boot.tried \union {t}
  <2>1. boot' = [boot EXCEPT !.rows = boot.rows, !.tried = tried]
    BY <1>0, <1>5 DEF BootShapes, NoRun
  <2>2. boot.rows \cap tried = {}
    BY <1>0, <1>2
  <2>3. /\ depth' \in [Tickers -> Nat] /\ \A u \in Tickers : depth'[u] >= depth[u]
        /\ \A u \in boot.rows : depth'[u] >= boot.plan.years
    BY <1>3, <1>5
  <2> HIDE DEF tried
  <2> QED
    BY <1>0, <1>2, <1>5, <2>1, <2>2, <2>3, ReplyKeeps
<1> QED
  BY <1>4, <1>5 DEF FetchSymbol

LEMMA ReadCoverageKeeps ==
  ASSUME BootInv, ReadCoverage
  PROVE  BootInv'
<1> DEFINE toCheck == IF boot.plan.skip THEN boot.plan.symbols ELSE boot.rows
           stored == {t \in toCheck : depth[t] > 0}
<1>0. /\ BootShapes /\ boot.pc = "fetching" /\ UNCHANGED <<depth, progress>>
      /\ boot.failed = {} /\ boot.used = {} /\ boot.plan \in Plans
  BY DEF ReadCoverage, BootInv, BootShapes
<1>1. PICK read \in SUBSET stored :
        boot' = [boot EXCEPT !.pc = "stages", !.covered = read, !.stage = 1,
                   !.code = IF boot.plan.symbols \subseteq read THEN 0 ELSE 1]
  BY DEF ReadCoverage
<1>2. /\ DOMAIN boot' = DOMAIN boot /\ boot'.pc = "stages" /\ boot'.covered = read
      /\ boot'.code = IF boot.plan.symbols \subseteq read THEN 0 ELSE 1
      /\ boot'.stage = 1
      /\ boot'.plan = boot.plan /\ boot'.rows = boot.rows /\ boot'.tried = boot.tried
      /\ boot'.used = boot.used /\ boot'.failed = boot.failed
  BY <1>0, <1>1 DEF BootShapes, NoRun
<1>3. toCheck \subseteq Tickers
      /\ (boot.plan.skip \/ ~boot.plan.resume => toCheck \subseteq boot.plan.symbols)
  BY <1>0, BootstrapAssumption DEF BootInv, BootShapes, RowsStored
<1>4. BootShapes'
  BY <1>0, <1>2 DEF BootShapes
<1>5. CoveredStored'
  BY <1>0, <1>2, <1>3 DEF CoveredStored
<1>6. CodeTells' /\ RowsStored' /\ ListedIsStored'
  BY <1>0, <1>2 DEF BootInv, CodeTells, RowsStored, ListedIsStored
<1> QED
  BY <1>4, <1>5, <1>6 DEF BootInv

LEMMA StageCodes ==
  ASSUME NEW s \in Stages, NEW symbols, NEW answered
  PROVE  StageResult(s, symbols, answered).code \in {0, 1}
<1>1. s \in {"fundamentals", "target_study", "sector_study", "cpcv", "alpha_decay",
             "cost_study", "capacity_probe", "tune", "train"}
  BY DEF Stages, StageOrder
<1>2. \A key : Study(symbols, answered, key).code \in {0, 1}
  BY DEF Study
<1>3. FundamentalsStage(symbols, answered).code \in {0, 1}
  BY DEF FundamentalsStage
<1> QED
  BY <1>1, <1>2, <1>3 DEF StageResult, RunTargetStudy, RunSectorStudy, RunCpcv, RunAlphaDecay,
     RunCostStudy, RunCapacityProbe, RunSweep, RunTraining

\* A stage is over: not asked for, a success or a failure.
LEMMA StageKeeps ==
  ASSUME BootInv, boot.pc = "stages", UNCHANGED <<depth, progress>>,
         NEW code, NEW failed, NEW used,
         boot' = [boot EXCEPT !.stage = @ + 1, !.code = code, !.failed = failed, !.used = used],
         code \in {0, 1}, code = 0 => boot.code = 0 /\ failed = boot.failed,
         used \subseteq boot.covered
  PROVE  BootInv'
<1>1. /\ DOMAIN boot' = DOMAIN boot /\ boot'.pc = "stages" /\ boot'.covered = boot.covered
      /\ boot'.code = code /\ boot'.failed = failed /\ boot'.used = used
      /\ boot'.stage = boot.stage + 1
      /\ boot'.plan = boot.plan /\ boot'.rows = boot.rows /\ boot'.tried = boot.tried
  BY DEF BootInv, BootShapes, NoRun
<1>2. BootShapes'
  BY <1>1 DEF BootInv, BootShapes
<1>3. CoveredStored' /\ CodeTells'
  BY <1>1 DEF BootInv, CoveredStored, CodeTells
<1>4. RowsStored' /\ ListedIsStored'
  BY <1>1 DEF BootInv, RowsStored, ListedIsStored
<1> QED
  BY <1>2, <1>3, <1>4 DEF BootInv

LEMMA RunStageKeeps ==
  ASSUME BootInv, RunStage
  PROVE  BootInv'
<1> DEFINE s == StageOrder[boot.stage]
           trainable == IF s = "fundamentals" THEN boot.covered \cap boot.plan.symbols
                        ELSE boot.covered
<1>0. /\ BootShapes /\ CoveredStored /\ boot.pc = "stages" /\ UNCHANGED <<depth, progress>>
      /\ boot.stage \in Nat \ {0} /\ boot.stage <= Len(StageOrder)
  BY DEF RunStage, BootInv, BootShapes
<1>1. s \in Stages /\ trainable \subseteq boot.covered
  <2>1. Len(StageOrder) = 9 /\ DOMAIN StageOrder = 1..9
    BY DEF StageOrder
  <2> QED
    BY <1>0, <2>1 DEF Stages
<1> HIDE DEF s, trainable
<1>2. CASE boot' = NoRun
  BY <1>0, <1>2, NoRunKeeps
<1>3. CASE boot' = [boot EXCEPT !.stage = @ + 1]
  <2>1. boot' = [boot EXCEPT !.stage = @ + 1, !.code = boot.code, !.failed = boot.failed,
                             !.used = boot.used]
    BY <1>0, <1>3 DEF BootShapes, NoRun
  <2> QED
    BY <1>0, <2>1, StageKeeps DEF BootShapes, CoveredStored
<1>4. ASSUME NEW answered \in BOOLEAN, NEW r, r = StageResult(s, trainable, answered),
             boot' = [boot EXCEPT !.stage = @ + 1, !.code = Worst(@, r.code),
                          !.failed = IF r.code = 0 THEN @ ELSE @ \union {r.key},
                          !.used = IF r.code = 0 THEN @ \union trainable ELSE @]
      PROVE  BootInv'
  <2> DEFINE code == Worst(boot.code, r.code)
             failed == IF r.code = 0 THEN boot.failed ELSE boot.failed \union {r.key}
             used == IF r.code = 0 THEN boot.used \union trainable ELSE boot.used
  <2>1. boot' = [boot EXCEPT !.stage = @ + 1, !.code = code, !.failed = failed, !.used = used]
    BY <1>4
  <2>2. r.code \in {0, 1} /\ boot.code \in {0, 1}
    BY <1>0, <1>1, <1>4, StageCodes DEF BootShapes
  <2>3. code \in {0, 1} /\ (code = 0 => boot.code = 0 /\ r.code = 0)
    BY <2>2 DEF Worst
  <2>4. used \subseteq boot.covered /\ (code = 0 => failed = boot.failed)
    BY <1>0, <1>1, <2>3 DEF CoveredStored
  <2> HIDE DEF code, failed, used
  <2> QED
    BY <1>0, <2>1, <2>3, <2>4, StageKeeps
<1> QED
  BY <1>2, <1>3, <1>4 DEF RunStage, s, trainable

LEMMA WriteReportKeeps ==
  ASSUME BootInv, WriteReport
  PROVE  BootInv'
<1>1. /\ DOMAIN boot' = DOMAIN boot /\ boot.pc = "stages" /\ boot'.pc = "finished"
      /\ boot'.covered = boot.covered /\ boot'.code = boot.code /\ boot'.failed = boot.failed
      /\ boot'.used = boot.used /\ UNCHANGED <<depth, progress>>
      /\ boot'.plan = boot.plan /\ boot'.rows = boot.rows /\ boot'.tried = boot.tried
  BY DEF BootInv, BootShapes, NoRun, WriteReport
<1>2. BootShapes'
  BY <1>1 DEF BootInv, BootShapes
<1> QED
  BY <1>1, <1>2 DEF BootInv, CoveredStored, CodeTells, RowsStored, ListedIsStored

LEMMA BootStepKeeps ==
  ASSUME BootInv, [BootNext]_bootVars
  PROVE  BootInv'
<1>1. CASE UNCHANGED bootVars
  BY <1>1 DEF bootVars, BootInv, BootShapes, CoveredStored, CodeTells, RowsStored, ListedIsStored
<1>2. CASE Kill
  BY <1>2, NoRunKeeps DEF Kill
<1>3. CASE BootNext
  BY <1>2, <1>3, StartRunKeeps, FetchSymbolKeeps, ReadCoverageKeeps, RunStageKeeps,
     WriteReportKeeps DEF BootNext
<1> QED
  BY <1>1, <1>3

\* However the script is killed and rerun, whatever depths its runs ask for and
\* whatever is lost on the way, a resumed run neither skips a symbol that is not
\* stored nor trains on one nor exits 0 without it
\* (bootstrap-universe.py:294, 1711, 1789), for any universe and any plans.
THEOREM ResumesAreSound == BootSpec => []ResumeIsSound
<1>1. BootInit => BootInv
  BY BootInitInv
<1>2. BootInv /\ [BootNext]_bootVars => BootInv'
  BY BootStepKeeps
<1>3. BootInv => ResumeIsSound
  BY BootInvSuffices
<1> QED
  BY <1>1, <1>2, <1>3, PTL DEF BootSpec

-----------------------------------------------------------------------------
(* Serving.  A step logs one vote or settles some of those logged; a vote  *)
(* of whose message the stream holds another delivery is in `retried', one *)
(* that two monitor runs hold is in `contended', and a vote pushed out of  *)
(* its log has LogMax younger ones in it.                                  *)

VoteStates == {"pending", "labelled", "dropped", "lost"}
Votes == [msg : Nat, on : 1..Sessions, model : ModelVersions, id : Ids, signal : Answers,
          state : VoteStates, at : Nat, correct : BOOLEAN]
Triggers == [id : Nat, tries : 0..(ServeDeliver - 1)]
Inferences == [pc : {"idle", "asking", "publishing"}, msg : [id : Nat, tries : Nat], rec : Nat]
Alarms == [type : {"none", "feature_drift", "performance_decay", "accuracy_decay",
                   "prediction_shift"},
           severity : {"none", "critical", "warning"},
           action : {"auto_retrain", "alert_and_monitor", "no_action"}]
MonitorRuns == [pc : {"idle", "fetching", "telling", "alarming"}, id : Ids, now : Nat,
                held : SUBSET Nat, queue : SUBSET Nat, alarm : Alarms]

\* The registry and the engine agree, but for a reload that failed.
EngineInv ==
  /\ registered \subseteq ModelVersions /\ alias \in {NoModel} \union registered
  /\ up \in BOOLEAN /\ paused \in BOOLEAN /\ stale \in BOOLEAN /\ surprised \in BOOLEAN
  /\ model \in {NoModel} \union registered
  /\ modelId \in {NoModel, Nameless} \union registered
  /\ model = NoModel <=> modelId = NoModel
  /\ up => stale \/ (model = alias /\ modelId = alias)
  /\ baselines \subseteq registered

\* Votes are logged in the order of the sessions; a labelled one has its date.
VoteInv ==
  /\ rec \in Seq(Votes) /\ credited \in Seq(Nat) /\ Len(credited) = Len(rec)
  /\ session \in 1..Sessions /\ mishaps \in Nat
  /\ \A r \in DOMAIN rec : /\ rec[r].on <= session
                           /\ rec[r].state = "labelled" => rec[r].at > 0
  /\ \A q, r \in DOMAIN rec : q < r => rec[q].on <= rec[r].on

\* A log is in order, and a pending vote it lost has LogMax younger ones there.
LogInv ==
  /\ log \in [Ids -> Seq(Nat)]
  /\ \A i \in Ids :
       /\ Len(log[i]) <= LogMax
       /\ \A k \in 1..Len(log[i]) : log[i][k] \in DOMAIN rec /\ rec[log[i][k]].id = i
       /\ \A j, k \in 1..Len(log[i]) : j < k => log[i][j] < log[i][k]
  /\ \A i \in Ids : \A r \in DOMAIN rec :
       rec[r].id = i /\ rec[r].state = "pending" /\ r \notin Held(i) =>
         Len(log[i]) = LogMax /\ \A k \in 1..LogMax : r < log[i][k]

\* The ids of messages grow with the sessions and the mishaps; a vote whose
\* message may come again was redelivered, or is being published.
LastId == session + Sessions * mishaps
Publishing(r) == infer.pc = "publishing" /\ infer.rec = r
Gone(x) == \A t \in triggers : t.id # x
StreamInv ==
  /\ triggers \subseteq Triggers /\ infer \in Inferences
  /\ \A t \in triggers : t.id <= LastId
  /\ \A t, u \in triggers : t.id = u.id => t = u
  /\ infer.pc # "idle" => infer.msg \in triggers
  /\ \A r \in DOMAIN rec :
       /\ rec[r].msg <= LastId
       /\ rec[r].msg \in retried \/ Gone(rec[r].msg) \/ (Publishing(r) /\ rec[r].msg = infer.msg.id)
  /\ \A q, r \in DOMAIN rec : q # r /\ rec[q].msg = rec[r].msg => rec[q].msg \in retried

MonitorInv ==
  /\ monitor \in [Monitors -> MonitorRuns]
  /\ \A m \in Monitors :
       /\ monitor[m].held \subseteq DOMAIN rec /\ monitor[m].queue \subseteq monitor[m].held
       /\ monitor[m].pc # "idle" => monitor[m].now > 0
  /\ NothingOverdue

\* Who may still credit a vote.
Claims(m, r) ==
  \/ monitor[m].pc = "fetching" /\ r \in monitor[m].held
  \/ monitor[m].pc = "telling" /\ r \in monitor[m].queue
CreditInv ==
  \A r \in DOMAIN rec \ contended :
    /\ credited[r] \in {0, 1}
    /\ credited[r] > 0 => rec[r].state # "pending"
    /\ \A m \in Monitors : Claims(m, r) =>
         /\ credited[r] = 0
         /\ monitor[m].pc = "telling" => rec[r].state # "pending"
         /\ \A n \in Monitors : Claims(n, r) => n = m

PauseInv == paused /\ infer.pc # "idle" => surprised

ServeInv == EngineInv /\ VoteInv /\ LogInv /\ StreamInv /\ MonitorInv /\ CreditInv /\ PauseInv

LEMMA ServeConstants ==
  /\ ModelVersions \subseteq Nat /\ NoModel \notin ModelVersions
  /\ Nameless \notin ModelVersions /\ NoModel # Nameless
  /\ {NoModel, Nameless} \union ModelVersions = Ids /\ Ids \subseteq Nat
  /\ Sessions \in Nat \ {0} /\ Horizon \in Nat \ {0} /\ ServeDeliver \in Nat \ {0}
  /\ LogMax \in Nat /\ LogMax >= 1 /\ LogMax >= 2 * Horizon
  /\ DropAfter \in Nat /\ MinOutcomes \in Nat /\ Window \in Nat
<1>1. PICK n \in 0..Cardinality(ModelVersions) : n < 9999 /\ ModelVersions = 1..n
  BY ServingAssumption
<1>2. /\ ModelVersions \subseteq Nat /\ NoModel \notin ModelVersions
      /\ Nameless \notin ModelVersions /\ NoModel # Nameless /\ NoModel \in Nat /\ Nameless \in Nat
  BY <1>1 DEF NoModel, Nameless
<1>3. {NoModel, Nameless} \union ModelVersions = Ids /\ Ids \subseteq Nat
  BY <1>2 DEF Ids
<1>4. Horizon \in Nat \ {0} /\ LogMax \in Nat /\ LogMax >= 2 * Horizon
  BY ServingAssumption, RetentionAssumption
<1>5. LogMax >= 1
  BY <1>4
<1> QED
  BY <1>2, <1>3, <1>4, <1>5, ServingAssumption

LEMMA VoteFacts ==
  ASSUME VoteInv
  PROVE  /\ Len(rec) \in Nat /\ DOMAIN rec = 1..Len(rec) /\ DOMAIN credited = DOMAIN rec
         /\ \A r \in DOMAIN rec : rec[r] \in Votes /\ credited[r] \in Nat /\ r \in Nat
         /\ \A r \in DOMAIN rec :
              /\ rec[r].msg \in Nat /\ rec[r].on \in 1..Sessions /\ rec[r].id \in Ids
              /\ rec[r].state \in VoteStates /\ rec[r].at \in Nat
         /\ session \in Nat /\ session > 0
<1>1. /\ Len(rec) \in Nat /\ DOMAIN rec = 1..Len(rec) /\ DOMAIN credited = DOMAIN rec
      /\ \A r \in DOMAIN rec : rec[r] \in Votes /\ credited[r] \in Nat /\ r \in Nat
      /\ session \in Nat /\ session > 0
  BY ServeConstants DEF VoteInv
<1> QED
  BY <1>1 DEF Votes

-----------------------------------------------------------------------------
(* What a step does to the votes                                           *)

Kept(r) ==
  /\ rec'[r] \in Votes
  /\ rec'[r].msg = rec[r].msg /\ rec'[r].on = rec[r].on /\ rec'[r].id = rec[r].id
  /\ rec[r].state # "pending" => rec'[r].state # "pending"
  /\ rec'[r].state = "labelled" => rec'[r].at > 0
Settles ==
  /\ rec' \in Seq(Votes) /\ Len(rec') = Len(rec) /\ DOMAIN rec' = DOMAIN rec
  /\ \A r \in DOMAIN rec : Kept(r)

LEMMA RecMapped ==
  ASSUME VoteInv, DOMAIN rec' = DOMAIN rec, rec' = [r \in DOMAIN rec |-> rec'[r]],
         \A r \in DOMAIN rec : Kept(r)
  PROVE  Settles
<1>1. Len(rec) \in Nat /\ DOMAIN rec = 1..Len(rec)
  BY VoteFacts
<1>2. rec' \in [1..Len(rec) -> Votes]
  BY <1>1 DEF Kept
<1>3. rec' \in Seq(Votes) /\ Len(rec') = Len(rec)
  BY <1>1, <1>2
<1> QED
  BY <1>3 DEF Settles

LEMMA RecUnchanged ==
  ASSUME VoteInv, rec' = rec
  PROVE  Settles
<1>1. \A r \in DOMAIN rec : Kept(r)
  BY VoteFacts DEF VoteInv, Kept
<1> QED
  BY <1>1 DEF VoteInv, Settles

LEMMA JudgedVote ==
  ASSUME VoteInv, NEW r \in DOMAIN rec, NEW now \in Nat, now > 0
  PROVE  /\ Judged(r, now) \in Votes
         /\ Judged(r, now).msg = rec[r].msg /\ Judged(r, now).on = rec[r].on
         /\ Judged(r, now).id = rec[r].id
         /\ rec[r].state # "pending" => Judged(r, now).state # "pending"
         /\ Judged(r, now).state = "labelled" => Judged(r, now).at > 0
         /\ now - rec[r].on > DropAfter => Judged(r, now).state # "pending"
         /\ OutcomeOf(r, now) = "labelled" => Judged(r, now).state # "pending"
<1>1. OutcomeOf(r, now) \in {"dropped", "pending", "labelled"}
      /\ (now - rec[r].on > DropAfter => OutcomeOf(r, now) # "pending")
  BY DEF OutcomeOf
<1>2. rec[r] \in Votes /\ (rec[r].state = "labelled" => rec[r].at > 0)
  BY VoteFacts DEF VoteInv
<1>3. CASE OutcomeOf(r, now) = "pending"
  BY <1>1, <1>2, <1>3 DEF Judged
<1>4. CASE OutcomeOf(r, now) # "pending"
  <2> DEFINE s == OutcomeOf(r, now)
             c == Outcome[rec[r].on].up = (rec[r].signal = "BUY")
  <2>1. Judged(r, now) = [rec[r] EXCEPT !.state = s, !.at = now, !.correct = c]
    BY <1>4 DEF Judged
  <2>2. s \in {"dropped", "labelled"} /\ c \in BOOLEAN
    BY <1>1, <1>4
  <2> HIDE DEF s, c
  <2>3. /\ Judged(r, now) \in Votes /\ Judged(r, now).state = s /\ Judged(r, now).at = now
        /\ Judged(r, now).msg = rec[r].msg /\ Judged(r, now).on = rec[r].on
        /\ Judged(r, now).id = rec[r].id
    BY <1>2, <2>1, <2>2 DEF Votes, VoteStates
  <2> QED
    BY <2>2, <2>3
<1> QED
  BY <1>3, <1>4

LEMMA ResolveSettles ==
  ASSUME ServeInv, NEW m \in Monitors, Resolve(m)
  PROVE  Settles
<1>0. VoteInv /\ MonitorInv /\ monitor[m].pc = "fetching"
  BY DEF ServeInv, Resolve
<1>1. CASE rec' = [r \in DOMAIN rec |->
                     IF r \in monitor[m].held THEN Judged(r, monitor[m].now) ELSE rec[r]]
  <2>1. monitor[m].now \in Nat /\ monitor[m].now > 0
    BY <1>0 DEF MonitorInv, MonitorRuns
  <2>2. ASSUME NEW r \in DOMAIN rec PROVE Kept(r)
    <3>1. CASE r \in monitor[m].held
      <4>1. rec'[r] = Judged(r, monitor[m].now)
        BY <1>1, <3>1
      <4> QED
        BY <1>0, <2>1, <4>1, JudgedVote DEF Kept
    <3>2. CASE r \notin monitor[m].held
      <4>1. rec'[r] = rec[r]
        BY <1>1, <3>2
      <4> QED
        BY <1>0, <4>1, VoteFacts DEF Kept, VoteInv
    <3> QED
      BY <3>1, <3>2
  <2>3. DOMAIN rec' = DOMAIN rec /\ rec' = [r \in DOMAIN rec |-> rec'[r]]
    BY <1>1
  <2> QED
    BY <1>0, <2>2, <2>3, RecMapped
<1>2. CASE UNCHANGED rec
  BY <1>0, <1>2, RecUnchanged
<1> QED
  BY <1>1, <1>2 DEF Resolve

LEMMA CrashSettles ==
  ASSUME ServeInv, ServingCrash
  PROVE  Settles /\ \A r \in DOMAIN rec : rec'[r].state # "pending"
<1>0. VoteInv
  BY DEF ServeInv
<1>1. rec' = [r \in DOMAIN rec |-> IF rec[r].state = "pending"
                                   THEN [rec[r] EXCEPT !.state = "lost"] ELSE rec[r]]
  BY DEF ServingCrash
<1>2. ASSUME NEW r \in DOMAIN rec PROVE Kept(r) /\ rec'[r].state # "pending"
  <2>0. rec[r] \in Votes /\ (rec[r].state = "labelled" => rec[r].at > 0)
    BY <1>0, VoteFacts DEF VoteInv
  <2>1. CASE rec[r].state = "pending"
    <3>1. rec'[r] = [rec[r] EXCEPT !.state = "lost"]
      BY <1>1, <2>1
    <3> QED
      BY <2>0, <2>1, <3>1 DEF Kept, Votes, VoteStates
  <2>2. CASE rec[r].state # "pending"
    <3>1. rec'[r] = rec[r]
      BY <1>1, <2>2
    <3> QED
      BY <2>0, <2>2, <3>1 DEF Kept
  <2> QED
    BY <2>1, <2>2
<1>3. DOMAIN rec' = DOMAIN rec /\ rec' = [r \in DOMAIN rec |-> rec'[r]]
  BY <1>1
<1> QED
  BY <1>0, <1>2, <1>3, RecMapped

\* A step logs a vote or settles some.
LEMMA RecStep ==
  ASSUME ServeInv, [ServingNext]_servingVars
  PROVE  Settles \/ \E s \in Answers : Infer(s)
<1>1. UNCHANGED rec \/ (\E m \in Monitors : Resolve(m)) \/ ServingCrash
      \/ \E s \in Answers : Infer(s)
  BY DEF ServingNext, servingVars, votes, RegisterVersion, Promote, Pause, Resume, FeaturesReady,
     TakeTrigger, NoInference, PublishVote, StartMonitor, TellAggregator, CheckDrift,
     PublishDrift, ServingStart
<1>2. VoteInv
  BY DEF ServeInv
<1> QED
  BY <1>1, <1>2, RecUnchanged, ResolveSettles, CrashSettles

-----------------------------------------------------------------------------
(* Each part is kept                                                       *)

LEMMA ReloadEngine ==
  ASSUME EngineInv, NEW v \in {NoModel} \union registered, Reload(v)
  PROVE  /\ model' \in {NoModel} \union registered
         /\ modelId' \in {NoModel, Nameless} \union registered
         /\ model' = NoModel <=> modelId' = NoModel
         /\ stale' \in BOOLEAN /\ (stale' \/ (model' = v /\ modelId' = v))
  BY ServeConstants DEF EngineInv, Reload

LEMMA EngineStep ==
  ASSUME ServeInv, [ServingNext]_servingVars
  PROVE  EngineInv'
<1>0. EngineInv
  BY DEF ServeInv
<1>1. CASE UNCHANGED <<registry, up, engine, baselines, stale>> /\ surprised' \in BOOLEAN
  BY <1>0, <1>1 DEF EngineInv, registry, engine
<1>2. ASSUME NEW v \in ModelVersions, RegisterVersion(v) PROVE EngineInv'
  BY <1>0, <1>2 DEF EngineInv, RegisterVersion, engine
<1>3. ASSUME NEW v \in ModelVersions, Promote(v) PROVE EngineInv'
  <2>1. /\ v \in registered /\ alias' = v
        /\ UNCHANGED <<registered, up, paused, baselines, surprised>>
        /\ Reload(v) \/ (stale' = TRUE /\ UNCHANGED <<model, modelId>>)
    BY <1>3 DEF Promote
  <2>2. /\ model' \in {NoModel} \union registered
        /\ modelId' \in {NoModel, Nameless} \union registered
        /\ model' = NoModel <=> modelId' = NoModel
        /\ stale' \in BOOLEAN /\ (stale' \/ (model' = v /\ modelId' = v))
    <3>1. CASE Reload(v)
      BY <1>0, <2>1, <3>1, ReloadEngine
    <3>2. CASE stale' = TRUE /\ UNCHANGED <<model, modelId>>
      BY <1>0, <3>2 DEF EngineInv
    <3> QED
      BY <2>1, <3>1, <3>2
  <2> QED
    BY <1>0, <2>1, <2>2 DEF EngineInv
<1>4. CASE Pause \/ Resume
  BY <1>0, <1>4 DEF EngineInv, Pause, Resume, registry
<1>5. CASE ServingCrash
  BY <1>0, <1>5 DEF EngineInv, ServingCrash, registry
<1>6. CASE ServingStart
  <2>1. /\ Reload(alias) /\ UNCHANGED <<registered, alias, paused, baselines, surprised>>
        /\ up' = TRUE
    BY <1>6 DEF ServingStart, registry
  <2>2. alias \in {NoModel} \union registered
    BY <1>0 DEF EngineInv
  <2> QED
    BY <1>0, <2>1, <2>2, ReloadEngine DEF EngineInv
<1>7. surprised \in BOOLEAN
  BY <1>0 DEF EngineInv
<1>8. ASSUME NEW m \in Monitors,
             StartMonitor(m) \/ Resolve(m) \/ TellAggregator(m) \/ CheckDrift(m) \/ PublishDrift(m)
      PROVE  EngineInv'
  BY <1>1, <1>7, <1>8 DEF StartMonitor, Resolve, TellAggregator, CheckDrift, PublishDrift
<1>9. CASE FeaturesReady \/ NoInference \/ PublishVote
           \/ (\E t \in triggers : TakeTrigger(t)) \/ \E s \in Answers : Infer(s)
  BY <1>1, <1>7, <1>9 DEF FeaturesReady, NoInference, PublishVote, TakeTrigger, Infer
<1>10. CASE UNCHANGED servingVars
  BY <1>1, <1>7, <1>10 DEF servingVars
<1> QED
  BY <1>2, <1>3, <1>4, <1>5, <1>6, <1>8, <1>9, <1>10 DEF ServingNext

\* The session and the mishaps only grow.
LEMMA Clocks ==
  ASSUME VoteInv, [ServingNext]_servingVars
  PROVE  /\ session' \in session..Sessions
         /\ mishaps' \in Nat /\ mishaps' >= mishaps
<1>1. session \in 1..Sessions /\ mishaps \in Nat /\ Sessions \in Nat
  BY ServeConstants DEF VoteInv
<1>2. session' = session \/ (session < Sessions /\ session' = session + 1)
  BY DEF ServingNext, servingVars, votes, RegisterVersion, Promote, Pause, Resume,
     FeaturesReady, TakeTrigger, NoInference, Infer, PublishVote, StartMonitor, Resolve,
     TellAggregator, CheckDrift, PublishDrift, ServingCrash, ServingStart
<1>3. mishaps' = mishaps \/ mishaps' = mishaps + 1
  BY DEF ServingNext, servingVars, RegisterVersion, Promote, Pause, Resume, Reload, Mishap,
     FeaturesReady, TakeTrigger, NoInference, Infer, PublishVote, StartMonitor, Resolve,
     TellAggregator, CheckDrift, PublishDrift, ServingCrash, ServingStart
<1> QED
  BY <1>1, <1>2, <1>3

\* What Infer appends.
LEMMA InferAppends ==
  ASSUME ServeInv, NEW s \in Answers, Infer(s)
  PROVE  /\ rec' \in Seq(Votes) /\ Len(rec') = Len(rec) + 1
         /\ DOMAIN rec' = DOMAIN rec \union {Len(rec) + 1} /\ Len(rec) + 1 \notin DOMAIN rec
         /\ \A r \in DOMAIN rec : rec'[r] = rec[r] /\ credited'[r] = credited[r] /\ r <= Len(rec)
         /\ credited' \in Seq(Nat) /\ Len(credited') = Len(credited) + 1
         /\ credited'[Len(rec) + 1] = 0
         /\ rec'[Len(rec) + 1].on = session /\ rec'[Len(rec) + 1].state = "pending"
         /\ rec'[Len(rec) + 1].id = modelId /\ rec'[Len(rec) + 1].model = model
         /\ rec'[Len(rec) + 1].msg = infer.msg.id
         /\ modelId \in Ids /\ session' = session /\ mishaps' = mishaps
<1> DEFINE v == [msg |-> infer.msg.id, on |-> session, model |-> model, id |-> modelId,
                 signal |-> s, state |-> "pending", at |-> 0, correct |-> FALSE]
<1>1. /\ rec' = Append(rec, v) /\ credited' = Append(credited, 0)
      /\ session' = session /\ mishaps' = mishaps /\ model # NoModel
  BY DEF Infer
<1>2. rec \in Seq(Votes) /\ credited \in Seq(Nat) /\ Len(credited) = Len(rec)
      /\ session \in 1..Sessions
  BY DEF ServeInv, VoteInv
<1>3. modelId \in Ids /\ model \in ModelVersions
  BY <1>1, ServeConstants DEF ServeInv, EngineInv
<1>4. infer.msg.id \in Nat
  BY DEF ServeInv, StreamInv, Inferences
<1>5. v \in Votes
  BY <1>2, <1>3, <1>4 DEF Votes, VoteStates
<1>6. /\ v.on = session /\ v.state = "pending" /\ v.id = modelId /\ v.model = model
      /\ v.msg = infer.msg.id
  OBVIOUS
<1> HIDE DEF v
<1> QED
  BY <1>1, <1>2, <1>3, <1>5, <1>6

LEMMA VoteStep ==
  ASSUME ServeInv, [ServingNext]_servingVars
  PROVE  VoteInv'
<1>0. VoteInv /\ session' \in session..Sessions /\ session \in 1..Sessions
      /\ mishaps' \in Nat /\ Sessions \in Nat
  BY Clocks, ServeConstants DEF ServeInv, VoteInv
<1>1. session' \in 1..Sessions /\ session' >= session /\ session' \in Nat /\ session \in Nat
  BY <1>0
<1>2. ASSUME NEW s \in Answers, Infer(s) PROVE VoteInv'
  <2> DEFINE n == Len(rec) + 1
  <2>1. /\ rec' \in Seq(Votes) /\ Len(rec') = n /\ n \notin DOMAIN rec
        /\ DOMAIN rec' = DOMAIN rec \union {n}
        /\ \A r \in DOMAIN rec : rec'[r] = rec[r] /\ r < n /\ r \in Nat
        /\ rec'[n].on = session /\ rec'[n].state = "pending" /\ session' = session
        /\ credited' \in Seq(Nat) /\ Len(credited') = n /\ n \in Nat
    <3>1. Len(rec) \in Nat /\ Len(credited) = Len(rec) /\ \A r \in DOMAIN rec : r \in Nat
      BY <1>0, VoteFacts DEF VoteInv
    <3>2. \A r \in DOMAIN rec : r <= Len(rec) => r < n
      BY <3>1
    <3>3. /\ rec' \in Seq(Votes) /\ Len(rec') = n /\ n \notin DOMAIN rec
          /\ DOMAIN rec' = DOMAIN rec \union {n}
          /\ \A r \in DOMAIN rec : rec'[r] = rec[r] /\ r <= Len(rec)
          /\ rec'[n].on = session /\ rec'[n].state = "pending" /\ session' = session
          /\ credited' \in Seq(Nat) /\ Len(credited') = Len(credited) + 1
      BY <1>2, InferAppends
    <3> QED
      BY <3>1, <3>2, <3>3
  <2> HIDE DEF n
  <2>2. \A r \in DOMAIN rec' : /\ rec'[r].on <= session'
                               /\ rec'[r].state = "labelled" => rec'[r].at > 0
    BY <1>0, <1>1, <2>1 DEF VoteInv
  <2>3. \A q, r \in DOMAIN rec' : q < r => rec'[q].on <= rec'[r].on
    BY <1>0, <1>1, <2>1, <2>2 DEF VoteInv
  <2> QED
    BY <1>0, <1>1, <2>1, <2>2, <2>3 DEF VoteInv
<1>3. CASE Settles
  <2>1. /\ rec' \in Seq(Votes) /\ Len(rec') = Len(rec) /\ DOMAIN rec' = DOMAIN rec
        /\ \A r \in DOMAIN rec : rec'[r].on = rec[r].on
                                 /\ (rec'[r].state = "labelled" => rec'[r].at > 0)
    BY <1>3 DEF Settles, Kept
  <2>2. \A r \in DOMAIN rec : rec[r].on \in Nat /\ rec[r].on <= session
    BY <1>0, VoteFacts DEF VoteInv
  <2>3. credited' \in Seq(Nat) /\ Len(credited') = Len(credited)
    <3>1. CASE credited' = credited
      BY <1>0, <3>1 DEF VoteInv
    <3>2. ASSUME NEW r, credited' = [credited EXCEPT ![r] = @ + 1]
          PROVE  credited' \in Seq(Nat) /\ Len(credited') = Len(credited)
      <4>1. credited \in Seq(Nat)
        BY <1>0 DEF VoteInv
      <4>2. CASE r \in DOMAIN credited
        <5>1. credited[r] + 1 \in Nat
          BY <4>1, <4>2
        <5> QED
          BY <3>2, <4>1, <4>2, <5>1
      <4>3. CASE r \notin DOMAIN credited
        <5>1. credited' = credited
          BY <3>2, <4>1, <4>3
        <5> QED
          BY <4>1, <5>1
      <4> QED
        BY <4>2, <4>3
    <3>3. ASSUME NEW s \in Answers, Infer(s) PROVE FALSE
      BY <1>0, <2>1, <3>3, InferAppends, VoteFacts
    <3>4. credited' = credited \/ (\E r : credited' = [credited EXCEPT ![r] = @ + 1])
          \/ \E s \in Answers : Infer(s)
      BY DEF ServingNext, servingVars, servingHist, RegisterVersion, Promote, Pause, Resume,
         FeaturesReady, TakeTrigger, NoInference, PublishVote, StartMonitor, Resolve,
         TellAggregator, CheckDrift, PublishDrift, ServingCrash, ServingStart
    <3> QED
      BY <3>1, <3>2, <3>3, <3>4
  <2>4. \A r \in DOMAIN rec' : rec'[r].on <= session'
    BY <1>1, <2>1, <2>2
  <2> QED
    BY <1>0, <1>1, <2>1, <2>3, <2>4 DEF VoteInv
<1> QED
  BY <1>2, <1>3, RecStep

LEMMA PauseStep ==
  ASSUME ServeInv, [ServingNext]_servingVars
  PROVE  PauseInv'
<1>1. PauseInv /\ paused \in BOOLEAN /\ infer \in Inferences
  BY DEF ServeInv, EngineInv, StreamInv
<1>2. CASE paused' = paused /\ surprised' = surprised /\ infer' \in {infer, NotInferring}
  BY <1>1, <1>2 DEF PauseInv, NotInferring
<1>3. CASE paused' = FALSE
  BY <1>3 DEF PauseInv
<1>4. CASE Pause
  BY <1>4 DEF Pause, PauseInv
<1>5. ASSUME NEW t \in triggers, TakeTrigger(t) PROVE PauseInv'
  <2>1. infer.pc = "idle" /\ paused' = paused /\ (paused => infer' = infer)
    BY <1>1, <1>5 DEF TakeTrigger, engine
  <2> QED
    BY <1>1, <2>1 DEF PauseInv
<1>6. ASSUME NEW s \in Answers, Infer(s) PROVE PauseInv'
  <2>1. paused' = paused /\ surprised' = surprised /\ infer.pc = "asking"
    BY <1>6 DEF Infer, engine
  <2> QED
    BY <1>1, <2>1 DEF PauseInv
<1>7. \/ paused' = paused /\ surprised' = surprised /\ infer' \in {infer, NotInferring}
      \/ paused' = FALSE \/ Pause \/ (\E t \in triggers : TakeTrigger(t))
      \/ \E s \in Answers : Infer(s)
  BY DEF ServingNext, servingVars, engine, RegisterVersion, Promote, Resume,
     FeaturesReady, NoInference, PublishVote, StartMonitor, Resolve,
     TellAggregator, CheckDrift, PublishDrift, ServingCrash, ServingStart
<1> QED
  BY <1>2, <1>3, <1>4, <1>5, <1>6, <1>7

LEMMA AppendedFacts ==
  ASSUME NEW s \in Seq(Nat), NEW n \in Nat, Len(s) <= LogMax,
         NEW d \in {0, 1}, d = 1 <=> Len(s) = LogMax
  PROVE  /\ Appended(s, n) \in Seq(Nat)
         /\ Len(Appended(s, n)) = Len(s) + 1 - d /\ Len(Appended(s, n)) <= LogMax
         /\ Appended(s, n)[Len(Appended(s, n))] = n
         /\ \A k \in 1..Len(Appended(s, n)) : k # Len(Appended(s, n)) =>
              k + d \in 1..Len(s) /\ Appended(s, n)[k] = s[k + d]
<1>0. Len(s) \in Nat /\ LogMax \in Nat /\ LogMax >= 1
  BY ServeConstants
<1> DEFINE t == Append(s, n)
<1>1. /\ t \in Seq(Nat) /\ Len(t) = Len(s) + 1 /\ t[Len(s) + 1] = n
      /\ \A k \in 1..Len(s) : t[k] = s[k]
  BY <1>0
<1>2. Appended(s, n) = IF Len(t) > LogMax THEN Tail(t) ELSE t
  BY DEF Appended
<1> HIDE DEF t
<1>3. CASE Len(s) = LogMax
  <2>1. Appended(s, n) = Tail(t) /\ d = 1
    BY <1>0, <1>1, <1>2, <1>3
  <2>2. /\ Tail(t) \in Seq(Nat) /\ Len(Tail(t)) = Len(s)
        /\ \A k \in 1..Len(s) : Tail(t)[k] = t[k + 1]
    BY <1>0, <1>1, <1>3
  <2>3. ASSUME NEW k \in 1..Len(s), k # Len(s)
        PROVE  k + 1 \in 1..Len(s) /\ Tail(t)[k] = s[k + 1]
    <3>1. k + 1 \in 1..Len(s)
      BY <1>0, <2>3
    <3>2. Tail(t)[k] = t[k + 1]
      BY <2>2
    <3> QED
      BY <1>1, <3>1, <3>2
  <2>4. Tail(t)[Len(s)] = n
    <3>1. Len(s) \in 1..Len(s)
      BY <1>0, <1>3
    <3>2. Tail(t)[Len(s)] = t[Len(s) + 1]
      BY <2>2, <3>1
    <3> QED
      BY <1>1, <3>2
  <2>5. \A k \in 1..Len(Tail(t)) : k # Len(Tail(t)) =>
          k + d \in 1..Len(s) /\ Tail(t)[k] = s[k + d]
    BY <2>1, <2>2, <2>3
  <2>6. Len(Tail(t)) = Len(s) + 1 - d /\ Len(Tail(t)) <= LogMax
    BY <1>0, <1>3, <2>1, <2>2
  <2> QED
    BY <2>1, <2>2, <2>4, <2>5, <2>6
<1>4. CASE Len(s) # LogMax
  <2>1. Appended(s, n) = t /\ d = 0
    BY <1>0, <1>1, <1>2, <1>4
  <2> QED
    BY <1>0, <1>1, <1>4, <2>1
<1> QED
  BY <1>3, <1>4

InOrder(s) == \A j, k \in 1..Len(s) : j < k => s[j] < s[k]
Has(s, r) == \E k \in 1..Len(s) : s[k] = r
Younger(s, r) == Len(s) = LogMax /\ \A k \in 1..LogMax : r < s[k]

\* A log that took vote n is in order again, and lost its oldest at most.
LEMMA LogTook ==
  ASSUME NEW s \in Seq(Nat), NEW n \in Nat, Len(s) <= LogMax,
         \A k \in 1..Len(s) : s[k] < n, InOrder(s),
         NEW t, t = Appended(s, n)
  PROVE  /\ t \in Seq(Nat) /\ Len(t) <= LogMax
         /\ \A k \in 1..Len(t) : t[k] = n \/ Has(s, t[k])
         /\ InOrder(t) /\ Has(t, n)
         /\ \A r \in Nat :
              r < n /\ ~Has(t, r) /\ (~Has(s, r) => Younger(s, r)) => Younger(t, r)
<1>p. PICK d \in {0, 1} : d = 1 <=> Len(s) = LogMax
  OBVIOUS
<1>0. Len(s) \in Nat /\ LogMax \in Nat /\ LogMax >= 1 /\ d \in {0, 1}
      /\ (d = 1 <=> Len(s) = LogMax) /\ \A k \in 1..Len(s) : s[k] \in Nat
  BY <1>p, ServeConstants
<1>1. /\ t \in Seq(Nat) /\ Len(t) = Len(s) + 1 - d /\ Len(t) <= LogMax /\ t[Len(t)] = n
      /\ \A k \in 1..Len(t) : k # Len(t) => k + d \in 1..Len(s) /\ t[k] = s[k + d]
  <2>1. /\ Appended(s, n) \in Seq(Nat)
        /\ Len(Appended(s, n)) = Len(s) + 1 - d /\ Len(Appended(s, n)) <= LogMax
        /\ Appended(s, n)[Len(Appended(s, n))] = n
        /\ \A k \in 1..Len(Appended(s, n)) : k # Len(Appended(s, n)) =>
             k + d \in 1..Len(s) /\ Appended(s, n)[k] = s[k + d]
    BY <1>p, AppendedFacts
  <2> QED
    BY <2>1
<1>2. Len(t) \in Nat /\ Len(t) >= 1 /\ Len(t) \in 1..Len(t)
  BY <1>0, <1>1
<1>3. \A k \in 1..Len(t) : t[k] = n \/ Has(s, t[k])
  BY <1>1 DEF Has
<1>4. ASSUME NEW j \in 1..Len(t), NEW k \in 1..Len(t), j < k PROVE t[j] < t[k]
  <2>0. j # Len(t) /\ j \in Int /\ k \in Int /\ d \in Int
    BY <1>0, <1>2, <1>4
  <2>1. j + d \in 1..Len(s) /\ t[j] = s[j + d]
    BY <1>1, <2>0
  <2>2. CASE k = Len(t)
    BY <1>1, <2>1, <2>2
  <2>3. CASE k # Len(t)
    <3>1. k + d \in 1..Len(s) /\ t[k] = s[k + d]
      BY <1>1, <2>3
    <3>2. j + d < k + d
      BY <1>4, <2>0
    <3> QED
      BY <2>1, <3>1, <3>2 DEF InOrder
  <2> QED
    BY <2>2, <2>3
<1>5. ASSUME NEW r \in Nat, r < n, ~Has(t, r), ~Has(s, r) => Younger(s, r)
      PROVE  Younger(t, r)
  <2>1. Len(s) = LogMax /\ \A k \in 2..LogMax : r < s[k]
    <3>1. CASE ~Has(s, r)
      BY <1>0, <1>5, <3>1 DEF Younger
    <3>2. ASSUME NEW j \in 1..Len(s), s[j] = r
          PROVE  Len(s) = LogMax /\ \A k \in 2..LogMax : r < s[k]
      <4>1. d = 1 /\ j = 1
        <5>0. j \in Int /\ j >= 1 /\ j <= Len(s) /\ d \in Int
          BY <1>0
        <5>1. CASE j - d >= 1
          <6>1. j - d \in 1..Len(t) /\ j - d # Len(t) /\ (j - d) + d = j
            BY <1>0, <1>1, <5>0, <5>1
          <6>2. t[j - d] = s[(j - d) + d]
            BY <1>1, <6>1
          <6>3. t[j - d] = r
            BY <3>2, <6>1, <6>2
          <6> QED
            BY <1>5, <6>1, <6>3 DEF Has
        <5>2. CASE ~(j - d >= 1)
          BY <1>0, <5>0, <5>2
        <5> QED
          BY <5>1, <5>2
      <4>2. Len(s) = LogMax
        BY <1>0, <4>1
      <4>3. \A k \in 2..LogMax : k \in 1..Len(s) /\ 1 \in 1..Len(s) /\ 1 < k
        BY <1>0, <4>2
      <4>4. \A k \in 2..LogMax : s[1] < s[k]
        BY <4>3 DEF InOrder
      <4> QED
        BY <3>2, <4>1, <4>2, <4>4
    <3> QED
      BY <3>1, <3>2 DEF Has
  <2>2. d = 1 /\ Len(t) = LogMax
    BY <1>0, <1>1, <2>1
  <2>3. ASSUME NEW k \in 1..LogMax PROVE r < t[k]
    <3>1. CASE k = LogMax
      BY <1>1, <1>5, <2>2, <3>1
    <3>2. CASE k # LogMax
      <4>1. k + 1 \in 2..LogMax
        BY <1>0, <3>2
      <4>2. t[k] = s[k + 1]
        BY <1>1, <2>2, <3>2
      <4> QED
        BY <2>1, <4>1, <4>2
    <3> QED
      BY <3>1, <3>2
  <2> QED
    BY <2>2, <2>3 DEF Younger
<1> QED
  BY <1>1, <1>2, <1>3, <1>4, <1>5 DEF InOrder, Has

LEMMA LogStep ==
  ASSUME ServeInv, [ServingNext]_servingVars
  PROVE  LogInv'
<1>0. LogInv /\ VoteInv /\ DOMAIN rec = 1..Len(rec) /\ Len(rec) \in Nat
      /\ \A i \in Ids : log[i] \in Seq(Nat) /\ Len(log[i]) \in Nat
                        /\ DOMAIN log[i] = 1..Len(log[i])
  BY VoteFacts DEF ServeInv, LogInv
<1>1. CASE Settles /\ log' = log
  <2>1. DOMAIN rec' = DOMAIN rec /\ log' = log
        /\ \A r \in DOMAIN rec : /\ rec'[r].id = rec[r].id
                                 /\ rec'[r].state = "pending" => rec[r].state = "pending"
    BY <1>1 DEF Settles, Kept
  <2>2. \A i \in Ids : Held(i)' = Held(i)
    BY <2>1 DEF Held
  <2> QED
    BY <1>0, <2>1, <2>2 DEF LogInv
<1>2. CASE ServingCrash
  <2>1. log' = [i \in Ids |-> <<>>]
    BY <1>2 DEF ServingCrash
  <2>2. \A r \in DOMAIN rec' : rec'[r].state # "pending"
    BY <1>2, CrashSettles DEF Settles
  <2>3. log' \in [Ids -> Seq(Nat)] /\ \A i \in Ids : log'[i] = <<>> /\ Len(log'[i]) = 0
    BY <2>1
  <2>4. LogMax \in Nat
    BY ServeConstants
  <2> QED
    BY <2>2, <2>3, <2>4 DEF LogInv
<1>3. ASSUME NEW v \in Answers, Infer(v) PROVE LogInv'
  <2> DEFINE n == Len(rec) + 1
             s == log[modelId]
             t == Appended(s, n)
  <2>1. /\ DOMAIN rec' = DOMAIN rec \union {n} /\ n \notin DOMAIN rec /\ modelId \in Ids
        /\ \A r \in DOMAIN rec : rec'[r] = rec[r] /\ r < n /\ r \in Nat
        /\ rec'[n].id = modelId /\ n \in Nat
    <3>1. \A r \in DOMAIN rec : r \in Nat /\ r < n
      BY <1>0
    <3>2. /\ DOMAIN rec' = DOMAIN rec \union {n} /\ n \notin DOMAIN rec /\ modelId \in Ids
          /\ \A r \in DOMAIN rec : rec'[r] = rec[r]
          /\ rec'[n].id = modelId
      BY <1>3, InferAppends
    <3> QED
      BY <1>0, <3>1, <3>2
  <2>2. log' = [log EXCEPT ![modelId] = t]
    BY <1>3 DEF Infer
  <2>3. /\ s \in Seq(Nat) /\ Len(s) <= LogMax
        /\ \A k \in 1..Len(s) : s[k] \in DOMAIN rec /\ rec[s[k]].id = modelId
    BY <1>0, <2>1 DEF LogInv
  <2>4. /\ InOrder(s)
        /\ \A r \in DOMAIN rec :
             rec[r].id = modelId /\ rec[r].state = "pending" /\ ~Has(s, r) => Younger(s, r)
    <3>1. \A r : r \in Held(modelId) <=> Has(s, r)
      BY <1>0, <2>1 DEF Held, Has
    <3> QED
      BY <1>0, <2>1, <3>1 DEF LogInv, InOrder, Younger
  <2> HIDE DEF n, s, t
  <2>5. \A k \in 1..Len(s) : s[k] < n
    BY <2>1, <2>3
  <2>6. /\ t \in Seq(Nat) /\ Len(t) <= LogMax /\ DOMAIN t = 1..Len(t)
        /\ \A k \in 1..Len(t) : t[k] = n \/ Has(s, t[k])
        /\ InOrder(t) /\ Has(t, n)
        /\ \A r \in Nat :
             r < n /\ ~Has(t, r) /\ (~Has(s, r) => Younger(s, r)) => Younger(t, r)
    BY <2>1, <2>3, <2>4, <2>5, LogTook DEF t
  <2>7. /\ log' \in [Ids -> Seq(Nat)] /\ log'[modelId] = t
        /\ \A i \in Ids \ {modelId} : log'[i] = log[i]
    BY <1>0, <2>1, <2>2, <2>6 DEF LogInv
  <2>8. ASSUME NEW i \in Ids
        PROVE  /\ Len(log'[i]) <= LogMax
               /\ \A k \in 1..Len(log'[i]) : log'[i][k] \in DOMAIN rec' /\ rec'[log'[i][k]].id = i
               /\ \A j, k \in 1..Len(log'[i]) : j < k => log'[i][j] < log'[i][k]
    <3>1. CASE i = modelId
      <4>1. \A k \in 1..Len(t) : t[k] \in DOMAIN rec' /\ rec'[t[k]].id = modelId
        <5> SUFFICES ASSUME NEW k \in 1..Len(t)
                     PROVE  t[k] \in DOMAIN rec' /\ rec'[t[k]].id = modelId
          OBVIOUS
        <5>1. CASE t[k] = n
          BY <2>1, <5>1
        <5>2. CASE Has(s, t[k])
          <6>1. PICK j \in 1..Len(s) : s[j] = t[k]
            BY <5>2 DEF Has
          <6>2. s[j] \in DOMAIN rec /\ rec[s[j]].id = modelId
            BY <2>3
          <6> QED
            BY <2>1, <6>1, <6>2
        <5> QED
          BY <2>6, <5>1, <5>2
      <4> QED
        BY <2>6, <2>7, <3>1, <4>1 DEF InOrder
    <3>2. CASE i # modelId
      <4>1. log'[i] = log[i]
        BY <2>7, <3>2
      <4> QED
        BY <1>0, <2>1, <4>1 DEF LogInv
    <3> QED
      BY <3>1, <3>2
  <2>9. ASSUME NEW i \in Ids, NEW r \in DOMAIN rec', rec'[r].id = i, rec'[r].state = "pending",
               r \notin Held(i)'
        PROVE  Len(log'[i]) = LogMax /\ \A k \in 1..LogMax : r < log'[i][k]
    <3>1. CASE i = modelId
      <4>1. ~Has(t, r)
        BY <2>6, <2>7, <2>9, <3>1 DEF Held, Has
      <4>2. r \in DOMAIN rec /\ rec'[r] = rec[r] /\ r < n /\ r \in Nat
        BY <2>1, <2>6, <4>1
      <4>3. Younger(t, r)
        BY <2>4, <2>6, <2>9, <3>1, <4>1, <4>2
      <4> QED
        BY <2>7, <3>1, <4>3 DEF Younger
    <3>2. CASE i # modelId
      <4>1. log'[i] = log[i] /\ Held(i)' = Held(i)
        BY <2>7, <3>2 DEF Held
      <4>2. r \in DOMAIN rec /\ rec'[r] = rec[r]
        BY <2>1, <2>9, <3>2
      <4> QED
        BY <1>0, <2>9, <4>1, <4>2 DEF LogInv
    <3> QED
      BY <3>1, <3>2
  <2> QED
    BY <2>7, <2>8, <2>9 DEF LogInv
<1>4. UNCHANGED log \/ ServingCrash \/ \E s \in Answers : Infer(s)
  BY DEF ServingNext, servingVars, votes, RegisterVersion, Promote, Pause, Resume, FeaturesReady,
     TakeTrigger, NoInference, PublishVote, StartMonitor, Resolve, TellAggregator, CheckDrift,
     PublishDrift, ServingStart
<1> QED
  BY <1>1, <1>2, <1>3, <1>4, RecStep

LEMMA IdsGrow ==
  ASSUME NEW k \in Nat, k >= 1, NEW s \in Nat, NEW t \in Nat, s <= t,
         NEW a \in Nat, NEW b \in Nat, a <= b
  PROVE  /\ s + k * a \in Nat /\ t + k * b \in Nat /\ t + k * b >= s + k * a
         /\ s < t \/ a < b => t + k * b > s + k * a
<1>1. PICK d \in Nat : b = a + d
  <2>1. b - a \in Nat /\ b = a + (b - a)
    OBVIOUS
  <2> QED
    BY <2>1
<1>2. k * b = k * a + k * d /\ k * a \in Nat /\ k * d \in Nat /\ k * b \in Nat
  BY <1>1
<1>3. d >= 1 => k * d >= 1
  OBVIOUS
<1> QED
  BY <1>1, <1>2, <1>3

LEMMA LastIdGrows ==
  ASSUME VoteInv, [ServingNext]_servingVars
  PROVE  /\ LastId \in Nat /\ LastId' \in Nat /\ LastId' >= LastId
         /\ FeaturesReady => LastId' > LastId
<1>1. /\ Sessions \in Nat /\ Sessions >= 1 /\ session \in Nat /\ session' \in Nat
      /\ session <= session'
      /\ mishaps \in Nat /\ mishaps' \in Nat /\ mishaps <= mishaps'
  BY Clocks, ServeConstants DEF VoteInv
<1>2. FeaturesReady => session < session' \/ mishaps < mishaps'
  BY <1>1 DEF FeaturesReady, Mishap
<1>3. /\ session + Sessions * mishaps \in Nat /\ session' + Sessions * mishaps' \in Nat
      /\ session' + Sessions * mishaps' >= session + Sessions * mishaps
      /\ session < session' \/ mishaps < mishaps' =>
           session' + Sessions * mishaps' > session + Sessions * mishaps
  BY <1>1, IdsGrow
<1> QED
  BY <1>2, <1>3 DEF LastId

\* The ids the stream has lost after a step.
Left(x) == \A t \in triggers' : t.id # x

\* The stream moved on: what it holds was there before or is new, and a vote
\* that is being published still is, or was sent back, or its message is gone.
MovedOn ==
  /\ triggers' \subseteq Triggers
  /\ \A t \in triggers' : t.id <= LastId' /\ (t.id > LastId \/ ~Gone(t.id))
  /\ \A t, u \in triggers' : t.id = u.id => t = u
  /\ retried \subseteq retried'
  /\ infer' \in Inferences /\ (infer'.pc # "idle" => infer'.msg \in triggers')
  /\ infer.pc = "publishing" =>
       \/ infer.msg.id \in retried' \/ Left(infer.msg.id) \/ infer' = infer

LEMMA StreamKept ==
  ASSUME ServeInv, [ServingNext]_servingVars, Settles, MovedOn
  PROVE  StreamInv'
<1>0. /\ StreamInv /\ LastId \in Nat /\ LastId' \in Nat /\ LastId' >= LastId
      /\ \A r \in DOMAIN rec : rec[r].msg \in Nat
  BY LastIdGrows, VoteFacts DEF ServeInv
<1>1. DOMAIN rec' = DOMAIN rec /\ \A r \in DOMAIN rec : rec'[r].msg = rec[r].msg
  BY DEF Settles, Kept
<1>2. ASSUME NEW r \in DOMAIN rec
      PROVE  /\ rec[r].msg <= LastId'
             /\ \/ rec[r].msg \in retried' \/ Left(rec[r].msg)
                \/ Publishing(r)' /\ rec[r].msg = infer'.msg.id
  <2>1. rec[r].msg <= LastId /\ rec[r].msg <= LastId'
    BY <1>0 DEF StreamInv
  <2>2. CASE rec[r].msg \in retried
    BY <2>1, <2>2 DEF MovedOn
  <2>3. CASE Gone(rec[r].msg)
    <3>1. ASSUME NEW t \in triggers', t.id = rec[r].msg PROVE FALSE
      BY <1>0, <2>1, <2>3, <3>1 DEF MovedOn
    <3> QED
      BY <2>1, <3>1 DEF Left
  <2>4. CASE Publishing(r) /\ rec[r].msg = infer.msg.id
    BY <2>1, <2>4 DEF MovedOn, Publishing
  <2> QED
    BY <1>0, <2>2, <2>3, <2>4 DEF StreamInv
<1>3. \A r \in DOMAIN rec' :
       /\ rec'[r].msg <= LastId'
       /\ \/ rec'[r].msg \in retried' \/ Left(rec'[r].msg)
          \/ Publishing(r)' /\ rec'[r].msg = infer'.msg.id
  BY <1>1, <1>2
<1>4. \A q, r \in DOMAIN rec' : q # r /\ rec'[q].msg = rec'[r].msg => rec'[q].msg \in retried'
  BY <1>0, <1>1 DEF StreamInv, MovedOn
<1> QED
  BY <1>3, <1>4 DEF StreamInv, MovedOn, Gone, Left

\* An acknowledged message is gone; one sent back is there again, or gone.
LEMMA Acknowledged ==
  ASSUME StreamInv, NEW msg \in triggers, Acknowledge(msg)
  PROVE  /\ triggers' \subseteq triggers /\ Left(msg.id)
         /\ \A t \in triggers' : ~Gone(t.id)
  BY DEF StreamInv, Acknowledge, Gone, Left

LEMMA SentBack ==
  ASSUME StreamInv, NEW msg \in triggers, SendBack(msg)
  PROVE  /\ triggers' \subseteq Triggers
         /\ \A t \in triggers' : \E u \in triggers : t.id = u.id
         /\ \A t, u \in triggers' : t.id = u.id => t = u
<1>1. msg \in Triggers
  BY DEF StreamInv
<1> DEFINE b == [msg EXCEPT !.tries = @ + 1]
<1>2. b.id = msg.id /\ (b.tries < ServeDeliver => b \in Triggers)
  BY <1>1, ServeConstants DEF Triggers
<1>3. triggers' = (triggers \ {msg}) \union {t \in {b} : t.tries < ServeDeliver}
  BY DEF SendBack
<1> HIDE DEF b
<1> QED
  BY <1>2, <1>3 DEF StreamInv

LEMMA InferStream ==
  ASSUME ServeInv, NEW s \in Answers, Infer(s)
  PROVE  StreamInv'
<1>n. PICK n : n = Len(rec) + 1
  OBVIOUS
<1>0. /\ StreamInv /\ infer.pc = "asking" /\ infer.msg \in triggers /\ retried' = retried
      /\ infer.msg \in Triggers /\ infer.msg.id \in Nat
      /\ n \in Nat /\ DOMAIN credited = DOMAIN rec
  BY <1>n, VoteFacts DEF ServeInv, StreamInv, Infer, servingHist, Triggers
<1>1. /\ DOMAIN rec' = DOMAIN rec \union {n} /\ n \notin DOMAIN rec
      /\ \A r \in DOMAIN rec : rec'[r] = rec[r]
      /\ rec'[n].msg = infer.msg.id /\ session' = session /\ mishaps' = mishaps
  BY <1>n, InferAppends
<1>2. /\ \/ Acknowledge(infer.msg) /\ infer' = NotInferring
         \/ infer' = [infer EXCEPT !.pc = "publishing", !.rec = n] /\ triggers' = triggers
  BY <1>n DEF Infer
<1>3. LastId' = LastId /\ infer.msg.id <= LastId
  BY <1>0, <1>1 DEF LastId, StreamInv
<1>4. /\ triggers' \subseteq triggers /\ infer' \in Inferences
      /\ infer'.pc # "idle" => infer'.msg \in triggers'
      /\ Left(infer.msg.id) \/ (Publishing(n)' /\ infer'.msg.id = infer.msg.id)
  <2>1. CASE Acknowledge(infer.msg) /\ infer' = NotInferring
    <3>1. triggers' \subseteq triggers /\ Left(infer.msg.id)
      BY <1>0, <2>1, Acknowledged
    <3> QED
      BY <2>1, <3>1 DEF NotInferring, NoTrigger, Inferences
  <2>2. CASE infer' = [infer EXCEPT !.pc = "publishing", !.rec = n] /\ triggers' = triggers
    <3>1. infer \in Inferences
      BY <1>0 DEF StreamInv
    <3>2. infer' \in Inferences /\ infer'.pc = "publishing" /\ infer'.rec = n
          /\ infer'.msg = infer.msg
      BY <1>0, <2>2, <3>1 DEF Inferences
    <3>3. Publishing(n)' /\ infer'.msg.id = infer.msg.id
      BY <3>2 DEF Publishing
    <3> QED
      BY <1>0, <2>2, <3>2, <3>3
  <2> QED
    BY <1>2, <2>1, <2>2
<1>5. \A r \in DOMAIN rec : rec[r].msg \in retried \/ Gone(rec[r].msg)
  BY <1>0 DEF StreamInv, Publishing
<1>6. \A r \in DOMAIN rec : rec[r].msg = infer.msg.id => rec[r].msg \in retried
  BY <1>0, <1>5 DEF Gone
<1>7. \A r \in DOMAIN rec' :
        /\ rec'[r].msg <= LastId'
        /\ \/ rec'[r].msg \in retried' \/ Left(rec'[r].msg)
           \/ Publishing(r)' /\ rec'[r].msg = infer'.msg.id
  <2> SUFFICES ASSUME NEW r \in DOMAIN rec'
               PROVE  /\ rec'[r].msg <= LastId'
                      /\ \/ rec'[r].msg \in retried' \/ Left(rec'[r].msg)
                         \/ Publishing(r)' /\ rec'[r].msg = infer'.msg.id
    OBVIOUS
  <2>1. CASE r = n
    <3>1. rec'[r].msg = infer.msg.id
      BY <1>1, <2>1
    <3>2. infer.msg.id <= LastId'
      BY <1>3
    <3>3. CASE Left(infer.msg.id)
      BY <3>1, <3>2, <3>3 DEF Left
    <3>4. CASE Publishing(n)' /\ infer'.msg.id = infer.msg.id
      BY <2>1, <3>1, <3>2, <3>4
    <3> QED
      BY <1>4, <3>3, <3>4
  <2>2. CASE r \in DOMAIN rec
    <3>1. rec'[r].msg = rec[r].msg /\ rec[r].msg <= LastId'
      BY <1>0, <1>1, <1>3, <2>2 DEF StreamInv
    <3>2. CASE rec[r].msg \in retried
      BY <1>0, <3>1, <3>2
    <3>3. CASE Gone(rec[r].msg)
      BY <1>4, <3>1, <3>3 DEF Gone, Left
    <3> QED
      BY <1>5, <2>2, <3>2, <3>3
  <2> QED
    BY <1>1, <2>1, <2>2
<1>8. \A q, r \in DOMAIN rec' : q # r /\ rec'[q].msg = rec'[r].msg => rec'[q].msg \in retried'
  <2> SUFFICES ASSUME NEW q \in DOMAIN rec', NEW r \in DOMAIN rec', q # r,
                      rec'[q].msg = rec'[r].msg
               PROVE  rec'[q].msg \in retried'
    OBVIOUS
  <2>1. CASE q \in DOMAIN rec /\ r \in DOMAIN rec
    BY <1>0, <1>1, <2>1 DEF StreamInv
  <2>2. CASE q = n
    BY <1>0, <1>1, <1>6, <2>2
  <2>3. CASE r = n
    BY <1>0, <1>1, <1>6, <2>3
  <2> QED
    BY <1>1, <2>1, <2>2, <2>3
<1> QED
  BY <1>0, <1>3, <1>4, <1>7, <1>8 DEF StreamInv, Gone, Left

LEMMA StreamStep ==
  ASSUME ServeInv, [ServingNext]_servingVars
  PROVE  StreamInv'
<1>0. /\ StreamInv /\ VoteInv /\ LastId \in Nat /\ LastId' \in Nat /\ LastId' >= LastId
      /\ NotInferring \in Inferences /\ NotInferring.pc = "idle"
      /\ infer \in Inferences /\ infer.msg \in [id : Nat, tries : Nat] /\ triggers \subseteq Triggers
      /\ \A t \in triggers : ~Gone(t.id) /\ t.id \in Nat /\ t.id <= LastId /\ t.id <= LastId'
      /\ \A t, u \in triggers : t.id = u.id => t = u
      /\ infer.pc # "idle" => infer.msg \in triggers
  <2>1. /\ StreamInv /\ VoteInv /\ LastId \in Nat /\ LastId' \in Nat /\ LastId' >= LastId
    BY LastIdGrows DEF ServeInv
  <2>2. NotInferring \in Inferences /\ NotInferring.pc = "idle"
    BY DEF NotInferring, NoTrigger, Inferences
  <2>3. infer \in Inferences /\ infer.msg \in [id : Nat, tries : Nat]
    BY <2>1 DEF StreamInv, Inferences
  <2>4. \A t \in triggers : t.id \in Nat /\ t.id <= LastId
    BY <2>1 DEF StreamInv, Triggers
  <2> QED
    BY <2>1, <2>2, <2>3, <2>4 DEF StreamInv, Gone
<1>1. CASE UNCHANGED <<triggers, infer, retried>>
  <2>1. MovedOn
    BY <1>0, <1>1 DEF MovedOn
  <2>2. \A s \in Answers : ~Infer(s)
    BY <1>0, <1>1 DEF Infer, Acknowledge, Inferences, NotInferring
  <2> QED
    BY <2>1, <2>2, RecStep, StreamKept
<1>2. CASE FeaturesReady
  <2> DEFINE t0 == [id |-> LastId', tries |-> 0]
  <2>1. /\ triggers' \subseteq triggers \union {t0} /\ rec' = rec /\ infer' = infer
        /\ retried' = retried /\ triggers \subseteq triggers'
    BY <1>2 DEF FeaturesReady, LastId, votes, servingHist
  <2>2. LastId' > LastId /\ t0 \in Triggers /\ t0.id = LastId'
    BY <1>0, <1>2, LastIdGrows, ServeConstants DEF Triggers
  <2> HIDE DEF t0
  <2>3. \A t \in triggers' : t \in Triggers /\ t.id <= LastId' /\ (t.id > LastId \/ ~Gone(t.id))
    BY <1>0, <2>1, <2>2
  <2>4. \A t, u \in triggers' : t.id = u.id => t = u
    BY <1>0, <2>1, <2>2
  <2>5. MovedOn
    BY <1>0, <2>1, <2>3, <2>4 DEF MovedOn
  <2> QED
    BY <1>0, <2>1, <2>5, RecUnchanged, StreamKept
<1>3. ASSUME NEW msg \in triggers, TakeTrigger(msg) PROVE StreamInv'
  <2>1. rec' = rec /\ retried' = retried /\ infer.pc = "idle"
    BY <1>3 DEF TakeTrigger, votes, servingHist
  <2>2. CASE Acknowledge(msg) /\ infer' = infer
    <3>1. triggers' \subseteq triggers
      BY <1>0, <2>2, Acknowledged
    <3>2. MovedOn
      BY <1>0, <2>1, <2>2, <3>1 DEF MovedOn
    <3> QED
      BY <1>0, <2>1, <3>2, RecUnchanged, StreamKept
  <2>3. CASE infer' = [NotInferring EXCEPT !.pc = "asking", !.msg = msg] /\ triggers' = triggers
    <3>1. msg \in [id : Nat, tries : Nat]
      BY <1>0, ServeConstants DEF Triggers
    <3>2. infer' \in Inferences /\ infer'.msg = msg
      BY <2>3, <3>1 DEF NotInferring, Inferences
    <3>3. MovedOn
      BY <1>0, <2>1, <2>3, <3>2 DEF MovedOn
    <3> QED
      BY <1>0, <2>1, <3>3, RecUnchanged, StreamKept
  <2> QED
    BY <1>3, <2>2, <2>3 DEF TakeTrigger
<1>4. ASSUME infer' = NotInferring, infer.pc # "idle",
             Acknowledge(infer.msg) \/ SendBack(infer.msg),
             infer.pc = "publishing" => Acknowledge(infer.msg) \/ infer.msg.id \in retried',
             rec' = rec, retried \subseteq retried'
      PROVE  StreamInv'
  <2>1. /\ triggers' \subseteq Triggers
        /\ \A t \in triggers' : \E u \in triggers : t.id = u.id
        /\ \A t, u \in triggers' : t.id = u.id => t = u
    <3>1. CASE Acknowledge(infer.msg)
      BY <1>0, <1>4, <3>1, Acknowledged
    <3>2. CASE SendBack(infer.msg)
      BY <1>0, <1>4, <3>2, SentBack
    <3> QED
      BY <1>4, <3>1, <3>2
  <2>2. infer.pc = "publishing" => infer.msg.id \in retried' \/ Left(infer.msg.id)
    BY <1>0, <1>4, Acknowledged
  <2>3. \A t \in triggers' : t.id <= LastId' /\ ~Gone(t.id)
    BY <1>0, <2>1
  <2>4. MovedOn
    BY <1>0, <1>4, <2>1, <2>2, <2>3 DEF MovedOn
  <2> QED
    BY <1>0, <1>4, <2>4, RecUnchanged, StreamKept
<1>5. CASE NoInference
  BY <1>4, <1>5 DEF NoInference, votes, servingHist
<1>6. CASE PublishVote
  BY <1>4, <1>6 DEF PublishVote, votes
<1>7. CASE ServingCrash
  <2>1. infer' = NotInferring /\ triggers' = triggers /\ retried \subseteq retried'
        /\ (infer.pc = "publishing" => infer.msg.id \in retried')
    BY <1>7 DEF ServingCrash
  <2>2. MovedOn
    BY <1>0, <2>1 DEF MovedOn
  <2> QED
    BY <1>7, <2>2, CrashSettles, StreamKept
<1>8. \/ UNCHANGED <<triggers, infer, retried>>
      \/ FeaturesReady \/ (\E msg \in triggers : TakeTrigger(msg)) \/ NoInference
      \/ PublishVote \/ ServingCrash \/ \E s \in Answers : Infer(s)
  BY DEF ServingNext, servingVars, servingHist, RegisterVersion, Promote, Pause, Resume,
     StartMonitor, Resolve, TellAggregator, CheckDrift, PublishDrift, ServingStart
<1> QED
  BY <1>1, <1>2, <1>3, <1>5, <1>6, <1>7, <1>8, InferStream

LEMMA MonitorFacts ==
  ASSUME MonitorInv, NEW m \in Monitors
  PROVE  /\ monitor[m] \in MonitorRuns
         /\ monitor[m].id \in Ids /\ monitor[m].now \in Nat
         /\ monitor[m].held \subseteq DOMAIN rec /\ monitor[m].queue \subseteq monitor[m].held
         /\ monitor[m].pc # "idle" => monitor[m].now > 0
BY DEF MonitorInv, MonitorRuns

LEMMA NotMonitoringRun ==
  /\ NotMonitoring \in MonitorRuns /\ NotMonitoring.pc = "idle"
  /\ NotMonitoring.held = {} /\ NotMonitoring.queue = {}
BY ServeConstants DEF NotMonitoring, MonitorRuns, NoAlarm, Alarms, Ids

\* What an alarm rests on, when it is raised.
Warranted(x) ==
  /\ x.alarm.type \in {"performance_decay", "accuracy_decay"} =>
       ~(Cardinality(Measured(x.id, x.now)) < MinOutcomes)
  /\ (x.alarm.action = "auto_retrain") = (x.alarm.type # "prediction_shift")

LEMMA DriftCheckRuns ==
  ASSUME NEW m \in Monitors, NEW id \in Ids, NEW now \in Nat, now > 0, DriftCheck(m, id, now)
  PROVE  \E x \in MonitorRuns :
           /\ monitor' = [monitor EXCEPT ![m] = x]
           /\ x.pc \in {"idle", "alarming"} /\ x.held = {} /\ x.queue = {}
           /\ x.pc = "alarming" => x.id = id /\ x.now > 0 /\ Warranted(x)
<1>1. CASE monitor' = [monitor EXCEPT ![m] = NotMonitoring]
  BY <1>1, NotMonitoringRun
<1>2. ASSUME NEW drifted \in BOOLEAN, NEW shifted \in BOOLEAN, NEW p \in Performance(id, now),
             NEW a, a = Report(drifted, p.decay < -30, p.accuracy < 48, shifted),
             a.action # "no_action",
             monitor' = [monitor EXCEPT ![m] =
               [NotMonitoring EXCEPT !.pc = "alarming", !.id = id, !.now = now, !.alarm = a]]
      PROVE  \E x \in MonitorRuns :
               /\ monitor' = [monitor EXCEPT ![m] = x]
               /\ x.pc \in {"idle", "alarming"} /\ x.held = {} /\ x.queue = {}
               /\ x.pc = "alarming" => x.id = id /\ x.now > 0 /\ Warranted(x)
  <2> DEFINE x == [NotMonitoring EXCEPT !.pc = "alarming", !.id = id, !.now = now, !.alarm = a]
  <2>1. /\ a.type = IF drifted THEN "feature_drift"
                    ELSE IF p.decay < -30 THEN "performance_decay"
                    ELSE IF p.accuracy < 48 THEN "accuracy_decay" ELSE "prediction_shift"
        /\ a.action = IF drifted \/ p.decay < -30 \/ p.accuracy < 48 THEN "auto_retrain"
                      ELSE IF shifted THEN "alert_and_monitor" ELSE "no_action"
        /\ a \in Alarms
    BY <1>2 DEF Report, Alarms
  <2>2. /\ a \in Alarms
        /\ a.type \in {"performance_decay", "accuracy_decay"} => p.decay < -30 \/ p.accuracy < 48
        /\ (a.action = "auto_retrain") = (a.type # "prediction_shift")
    BY <1>2, <2>1
  <2>3. Cardinality(Measured(id, now)) < MinOutcomes => p.decay = 0 /\ p.accuracy = 50
    BY DEF Performance
  <2>4. /\ x \in MonitorRuns /\ x.pc = "alarming" /\ x.held = {} /\ x.queue = {}
        /\ x.id = id /\ x.now = now /\ x.alarm = a
    BY <2>2 DEF NotMonitoring, MonitorRuns
  <2>5. monitor' = [monitor EXCEPT ![m] = x]
    BY <1>2
  <2> HIDE DEF x
  <2>6. Warranted(x)
    BY <2>2, <2>3, <2>4 DEF Warranted
  <2> QED
    BY <2>4, <2>5, <2>6
<1>3. \/ monitor' = [monitor EXCEPT ![m] = NotMonitoring]
      \/ \E drifted, shifted \in BOOLEAN : \E p \in Performance(id, now) :
           LET a == Report(drifted, p.decay < -30, p.accuracy < 48, shifted)
           IN  /\ a.action # "no_action"
               /\ monitor' = [monitor EXCEPT ![m] =
                    [NotMonitoring EXCEPT !.pc = "alarming", !.id = id, !.now = now, !.alarm = a]]
  BY DEF DriftCheck
<1> QED
  BY <1>1, <1>2, <1>3

\* What a step leaves of the votes there were.
OldVotes ==
  \A r \in DOMAIN rec : /\ r \in DOMAIN rec' /\ rec'[r].on = rec[r].on
                        /\ rec[r].state # "pending" => rec'[r].state # "pending"

LEMMA OldVotesStay ==
  ASSUME ServeInv, [ServingNext]_servingVars
  PROVE  OldVotes
<1>1. CASE Settles
  BY <1>1 DEF Settles, Kept, OldVotes
<1>2. ASSUME NEW s \in Answers, Infer(s) PROVE OldVotes
  BY <1>2, InferAppends DEF OldVotes
<1> QED
  BY <1>1, <1>2, RecStep

Fits(x) ==
  /\ x.held \subseteq DOMAIN rec' /\ x.queue \subseteq x.held
  /\ x.pc # "idle" => x.now > 0
  /\ x.pc = "telling" =>
       \A r \in x.held : x.now - rec'[r].on > DropAfter => rec'[r].state # "pending"

LEMMA RunsFit ==
  ASSUME MonitorInv, OldVotes, NEW m \in Monitors
  PROVE  Fits(monitor[m])
BY MonitorFacts DEF MonitorInv, NothingOverdue, OldVotes, Fits

LEMMA MonitorReplaced ==
  ASSUME MonitorInv, OldVotes, NEW m \in Monitors, NEW x \in MonitorRuns,
         monitor' = [monitor EXCEPT ![m] = x], Fits(x)
  PROVE  MonitorInv'
<1>1. monitor' \in [Monitors -> MonitorRuns] /\ monitor'[m] = x
      /\ \A n \in Monitors \ {m} : monitor'[n] = monitor[n]
  BY DEF MonitorInv
<1>2. \A n \in Monitors : Fits(monitor'[n])
  BY <1>1, RunsFit
<1> QED
  BY <1>1, <1>2 DEF MonitorInv, NothingOverdue, Fits

LEMMA PendingFacts ==
  ASSUME LogInv, VoteInv, NEW i \in Ids
  PROVE  /\ Pending(i) \subseteq DOMAIN rec /\ Held(i) \subseteq DOMAIN rec
         /\ \A r \in Pending(i) : rec[r].state = "pending"
<1>1. log[i] \in Seq(Nat) /\ \A k \in 1..Len(log[i]) : log[i][k] \in DOMAIN rec
  BY DEF LogInv
<1>2. DOMAIN log[i] = 1..Len(log[i])
  BY <1>1
<1> QED
  BY <1>1, <1>2 DEF Held, Pending

\* The run a monitor starts.
Fetching(i) == [NotMonitoring EXCEPT !.pc = "fetching", !.id = i, !.now = session,
                                     !.held = Pending(i)]
LEMMA FetchingRun ==
  ASSUME LogInv, VoteInv, NEW i \in Ids
  PROVE  /\ Fetching(i) \in MonitorRuns /\ Fetching(i).pc = "fetching"
         /\ Fetching(i).held = Pending(i) /\ Fetching(i).queue = {}
         /\ Fetching(i).now = session /\ session > 0 /\ session \in Nat
<1>1. Pending(i) \subseteq Nat /\ session > 0 /\ session \in Nat
  BY PendingFacts, VoteFacts
<1> QED
  BY <1>1 DEF Fetching, NotMonitoring, MonitorRuns, NoAlarm, Alarms

LEMMA StartCases ==
  ASSUME NEW m \in Monitors, StartMonitor(m)
  PROVE  /\ monitor[m].pc = "idle" /\ UNCHANGED <<rec, credited, log>>
         /\ contended \subseteq contended'
         /\ \/ DriftCheck(m, modelId, session) /\ contended' = contended
            \/ /\ monitor' = [monitor EXCEPT ![m] = Fetching(modelId)]
               /\ \A n \in Monitors : \A r \in Pending(modelId) :
                    monitor[n].pc = "fetching" /\ r \in monitor[n].held => r \in contended'
BY DEF StartMonitor, Fetching, votes

LEMMA EngineIds ==
  ASSUME EngineInv
  PROVE  modelId \in Ids
BY ServeConstants DEF EngineInv

LEMMA MonitorStep ==
  ASSUME ServeInv, [ServingNext]_servingVars
  PROVE  MonitorInv'
<1>0. /\ MonitorInv /\ VoteInv /\ LogInv /\ EngineInv /\ OldVotes /\ modelId \in Ids
      /\ session \in Nat /\ session > 0
  BY OldVotesStay, EngineIds, VoteFacts DEF ServeInv
<1>1. CASE UNCHANGED monitor
  <2>1. \A n \in Monitors : Fits(monitor[n])
    BY <1>0, RunsFit
  <2> QED
    BY <1>0, <1>1, <2>1 DEF MonitorInv, NothingOverdue, Fits
<1>2. ASSUME NEW m \in Monitors, NEW id \in Ids, NEW now \in Nat, now > 0, DriftCheck(m, id, now)
      PROVE  MonitorInv'
  <2>1. PICK x \in MonitorRuns :
          /\ monitor' = [monitor EXCEPT ![m] = x]
          /\ x.pc \in {"idle", "alarming"} /\ x.held = {} /\ x.queue = {}
          /\ x.pc = "alarming" => x.id = id /\ x.now > 0 /\ Warranted(x)
    BY <1>2, DriftCheckRuns
  <2>2. Fits(x)
    BY <2>1 DEF Fits
  <2> QED
    BY <1>0, <2>1, <2>2, MonitorReplaced
<1>3. ASSUME NEW m \in Monitors, StartMonitor(m) PROVE MonitorInv'
  <2>1. CASE DriftCheck(m, modelId, session)
    BY <1>0, <1>2, <2>1
  <2>2. CASE monitor' = [monitor EXCEPT ![m] = Fetching(modelId)]
    <3>1. Fits(Fetching(modelId)) /\ Fetching(modelId) \in MonitorRuns
      BY <1>0, <1>3, FetchingRun, PendingFacts, StartCases DEF Fits
    <3> QED
      BY <1>0, <2>2, <3>1, MonitorReplaced
  <2> QED
    BY <1>3, <2>1, <2>2, StartCases
<1>4. ASSUME NEW m \in Monitors, Resolve(m) PROVE MonitorInv'
  <2>0. /\ monitor[m] \in MonitorRuns /\ monitor[m].now \in Nat /\ monitor[m].now > 0
        /\ monitor[m].held \subseteq DOMAIN rec
    BY <1>0, <1>4, MonitorFacts DEF Resolve
  <2>1. CASE monitor' = [monitor EXCEPT ![m] = NotMonitoring]
    <3>1. Fits(NotMonitoring)
      BY NotMonitoringRun DEF Fits
    <3> QED
      BY <1>0, <2>1, <3>1, MonitorReplaced, NotMonitoringRun
  <2>2. CASE /\ rec' = [r \in DOMAIN rec |->
                     IF r \in monitor[m].held THEN Judged(r, monitor[m].now) ELSE rec[r]]
             /\ monitor' = [monitor EXCEPT ![m].pc = "telling", ![m].queue =
                  {r \in monitor[m].held : OutcomeOf(r, monitor[m].now) = "labelled"}]
    <3> DEFINE Q == {r \in monitor[m].held : OutcomeOf(r, monitor[m].now) = "labelled"}
               x == [monitor[m] EXCEPT !.pc = "telling", !.queue = Q]
    <3>1. monitor' = [monitor EXCEPT ![m] = x]
      BY <1>0, <2>2 DEF MonitorInv
    <3>2. Q \subseteq monitor[m].held /\ Q \in SUBSET Nat
      BY <2>0 DEF MonitorRuns
    <3> HIDE DEF Q
    <3>3. /\ x \in MonitorRuns /\ x.pc = "telling" /\ x.queue = Q /\ x.held = monitor[m].held
          /\ x.now = monitor[m].now
      BY <2>0, <3>2 DEF MonitorRuns
    <3> HIDE DEF x
    <3>4. \A r \in x.held : x.now - rec'[r].on > DropAfter => rec'[r].state # "pending"
      <4> SUFFICES ASSUME NEW r \in monitor[m].held
                   PROVE  monitor[m].now - rec'[r].on > DropAfter => rec'[r].state # "pending"
        BY <3>3
      <4>1. r \in DOMAIN rec /\ rec'[r] = Judged(r, monitor[m].now)
        BY <2>0, <2>2
      <4> QED
        BY <1>0, <2>0, <4>1, JudgedVote
    <3>5. x.held \subseteq DOMAIN rec'
      BY <2>0, <2>2, <3>3
    <3>6. Fits(x)
      BY <2>0, <3>2, <3>3, <3>4, <3>5 DEF Fits
    <3> QED
      BY <1>0, <3>1, <3>3, <3>6, MonitorReplaced
  <2> QED
    BY <1>4, <2>1, <2>2 DEF Resolve
<1>5. ASSUME NEW m \in Monitors, TellAggregator(m) PROVE MonitorInv'
  <2>1. PICK r : /\ monitor' = [monitor EXCEPT ![m].queue = @ \ {r}]
                 /\ monitor[m].pc = "telling"
    BY <1>5 DEF TellAggregator
  <2> DEFINE x == [monitor[m] EXCEPT !.queue = @ \ {r}]
  <2>2. monitor' = [monitor EXCEPT ![m] = x]
    BY <1>0, <2>1 DEF MonitorInv
  <2>3. /\ x \in MonitorRuns /\ x.pc = monitor[m].pc /\ x.queue \subseteq monitor[m].queue
        /\ x.held = monitor[m].held /\ x.now = monitor[m].now
    BY <1>0, MonitorFacts DEF MonitorRuns
  <2> HIDE DEF x
  <2>4. Fits(x)
    BY <1>0, <2>3, RunsFit DEF Fits
  <2> QED
    BY <1>0, <2>2, <2>3, <2>4, MonitorReplaced
<1>6. ASSUME NEW m \in Monitors, CheckDrift(m) PROVE MonitorInv'
  BY <1>0, <1>2, <1>6, MonitorFacts DEF CheckDrift
<1>7. ASSUME NEW m \in Monitors, PublishDrift(m) PROVE MonitorInv'
  <2>1. Fits(NotMonitoring)
    BY NotMonitoringRun DEF Fits
  <2> QED
    BY <1>0, <1>7, <2>1, MonitorReplaced, NotMonitoringRun DEF PublishDrift
<1>8. CASE ServingCrash
  <2>1. monitor' = [m \in Monitors |-> NotMonitoring]
    BY <1>8 DEF ServingCrash
  <2> QED
    BY <2>1, NotMonitoringRun DEF MonitorInv, NothingOverdue
<1>9. \/ UNCHANGED monitor \/ ServingCrash
      \/ \E m \in Monitors : StartMonitor(m) \/ Resolve(m) \/ TellAggregator(m) \/ CheckDrift(m)
                             \/ PublishDrift(m)
  BY DEF ServingNext, servingVars, RegisterVersion, Promote, Pause, Resume, FeaturesReady,
     TakeTrigger, NoInference, Infer, PublishVote, ServingStart
<1> QED
  BY <1>1, <1>3, <1>4, <1>5, <1>6, <1>7, <1>8, <1>9

\* The credits of a step that changes none and makes no claim.
LEMMA CreditKept ==
  ASSUME CreditInv, VoteInv, OldVotes, DOMAIN rec' = DOMAIN rec, credited' = credited,
         contended \subseteq contended',
         \A n \in Monitors : \A r \in DOMAIN rec : Claims(n, r)' =>
           /\ Claims(n, r)
           /\ monitor'[n].pc = "telling" => monitor[n].pc = "telling" \/ rec'[r].state # "pending"
  PROVE  CreditInv'
<1> SUFFICES ASSUME NEW r \in DOMAIN rec', r \notin contended'
             PROVE  /\ credited'[r] \in {0, 1}
                    /\ credited'[r] > 0 => rec'[r].state # "pending"
                    /\ \A m \in Monitors : Claims(m, r)' =>
                         /\ credited'[r] = 0
                         /\ monitor'[m].pc = "telling" => rec'[r].state # "pending"
                         /\ \A n \in Monitors : Claims(n, r)' => n = m
  BY DEF CreditInv
<1>1. r \in DOMAIN rec \ contended
  OBVIOUS
<1>2. /\ credited[r] \in {0, 1}
      /\ credited[r] > 0 => rec[r].state # "pending"
      /\ \A m \in Monitors : Claims(m, r) =>
           /\ credited[r] = 0
           /\ monitor[m].pc = "telling" => rec[r].state # "pending"
           /\ \A n \in Monitors : Claims(n, r) => n = m
  BY <1>1 DEF CreditInv
<1>3. rec[r].state # "pending" => rec'[r].state # "pending"
  BY <1>1 DEF OldVotes
<1>4. ASSUME NEW m \in Monitors, Claims(m, r)'
      PROVE  /\ credited'[r] = 0
             /\ monitor'[m].pc = "telling" => rec'[r].state # "pending"
             /\ \A n \in Monitors : Claims(n, r)' => n = m
  <2>1. Claims(m, r) /\ (monitor'[m].pc = "telling" =>
                           monitor[m].pc = "telling" \/ rec'[r].state # "pending")
    BY <1>1, <1>4
  <2>2. \A n \in Monitors : Claims(n, r)' => Claims(n, r)
    BY <1>1
  <2> QED
    BY <1>2, <1>3, <2>1, <2>2
<1> QED
  BY <1>2, <1>3, <1>4

LEMMA NoClaim ==
  ASSUME NEW m \in Monitors, NEW x, x.pc = "telling" => x.queue = {}, x.pc # "fetching",
         MonitorInv, monitor' = [monitor EXCEPT ![m] = x]
  PROVE  \A n \in Monitors : \A r \in DOMAIN rec : Claims(n, r)' =>
           /\ Claims(n, r)
           /\ monitor'[n].pc = "telling" => monitor[n].pc = "telling"
<1>1. monitor'[m] = x /\ \A n \in Monitors \ {m} : monitor'[n] = monitor[n]
  BY DEF MonitorInv
<1> QED
  BY <1>1 DEF Claims

LEMMA CreditStart ==
  ASSUME ServeInv, OldVotes, NEW m \in Monitors, StartMonitor(m),
         monitor' = [monitor EXCEPT ![m] = Fetching(modelId)]
  PROVE  CreditInv'
<1>0. /\ CreditInv /\ MonitorInv /\ VoteInv /\ LogInv /\ modelId \in Ids
      /\ UNCHANGED <<rec, credited>> /\ contended \subseteq contended' /\ monitor[m].pc = "idle"
  BY EngineIds, StartCases DEF ServeInv
<1>1. /\ monitor'[m] = Fetching(modelId)
      /\ \A n \in Monitors \ {m} : monitor'[n] = monitor[n]
      /\ Fetching(modelId).pc = "fetching" /\ Fetching(modelId).held = Pending(modelId)
  BY <1>0, FetchingRun DEF MonitorInv
<1>2. \A n \in Monitors : \A r \in Pending(modelId) :
        monitor[n].pc = "fetching" /\ r \in monitor[n].held => r \in contended'
  <2>1. CASE DriftCheck(m, modelId, session)
    <3>1. PICK x \in MonitorRuns : monitor' = [monitor EXCEPT ![m] = x]
                                   /\ x.pc \in {"idle", "alarming"}
      BY <1>0, <2>1, DriftCheckRuns, VoteFacts
    <3>2. monitor'[m] = x
      BY <1>0, <3>1 DEF MonitorInv
    <3> QED
      BY <1>1, <3>1, <3>2
  <2> QED
    BY <2>1, StartCases
<1>3. \A r \in Pending(modelId) : rec[r].state = "pending"
  BY <1>0, PendingFacts
<1> SUFFICES ASSUME NEW r \in DOMAIN rec', r \notin contended'
             PROVE  /\ credited'[r] \in {0, 1}
                    /\ credited'[r] > 0 => rec'[r].state # "pending"
                    /\ \A k \in Monitors : Claims(k, r)' =>
                         /\ credited'[r] = 0
                         /\ monitor'[k].pc = "telling" => rec'[r].state # "pending"
                         /\ \A n \in Monitors : Claims(n, r)' => n = k
  BY DEF CreditInv
<1>4. r \in DOMAIN rec \ contended /\ rec' = rec /\ credited' = credited
  BY <1>0
<1>5. /\ credited[r] \in {0, 1}
      /\ credited[r] > 0 => rec[r].state # "pending"
      /\ \A k \in Monitors : Claims(k, r) =>
           /\ credited[r] = 0
           /\ monitor[k].pc = "telling" => rec[r].state # "pending"
           /\ \A n \in Monitors : Claims(n, r) => n = k
  BY <1>0, <1>4 DEF CreditInv
<1>6. \A k \in Monitors \ {m} : Claims(k, r)' <=> Claims(k, r)
  BY <1>1 DEF Claims
<1>7. Claims(m, r)' <=> r \in Pending(modelId)
  BY <1>1 DEF Claims
<1>8. r \in Pending(modelId) => credited[r] = 0 /\ \A n \in Monitors : ~Claims(n, r)
  BY <1>2, <1>3, <1>5 DEF Claims
<1>9. ~Claims(m, r)
  BY <1>0 DEF Claims
<1>10. monitor'[m].pc # "telling"
  BY <1>1
<1>11. ASSUME NEW k \in Monitors, Claims(k, r)'
       PROVE  /\ credited[r] = 0
              /\ monitor'[k].pc = "telling" => rec[r].state # "pending"
              /\ \A n \in Monitors : Claims(n, r)' => n = k
  <2>1. CASE k = m
    BY <1>6, <1>7, <1>8, <1>10, <1>11, <2>1
  <2>2. CASE k # m
    <3>1. Claims(k, r) /\ monitor'[k] = monitor[k]
      BY <1>1, <1>6, <1>11, <2>2
    <3> QED
      BY <1>5, <1>6, <1>7, <1>8, <2>2, <3>1
  <2> QED
    BY <2>1, <2>2
<1> QED
  BY <1>4, <1>5, <1>11

LEMMA LeastVote ==
  ASSUME NEW T \in SUBSET Nat, T # {}
  PROVE  \E n \in T : \A m \in T : n <= m
<1> DEFINE R == OpToRel(<, Nat)
<1>1. IsWellFoundedOn(R, Nat)
  BY NatLessThanWellFounded
<1>2. PICK n \in T : \A m \in T : ~ (<<m, n>> \in R)
  <2> HIDE DEF R
  <2> QED
    BY <1>1, WFMin
<1>3. \A m \in T : ~(m < n)
  BY <1>2 DEF OpToRel
<1> QED
  BY <1>3

LEMMA CreditTell ==
  ASSUME ServeInv, OldVotes, NEW m \in Monitors, TellAggregator(m)
  PROVE  CreditInv'
<1>0. /\ CreditInv /\ MonitorInv /\ VoteInv /\ rec' = rec /\ contended' = contended
      /\ monitor[m].pc = "telling" /\ monitor[m].queue # {}
      /\ monitor[m] \in MonitorRuns /\ monitor[m].queue \subseteq DOMAIN rec
      /\ monitor[m].queue \in SUBSET Nat
  BY MonitorFacts DEF ServeInv, TellAggregator, votes, MonitorRuns
<1>1. PICK q : /\ q = CHOOSE x \in monitor[m].queue : \A y \in monitor[m].queue : x <= y
               /\ monitor' = [monitor EXCEPT ![m].queue = @ \ {q}]
               /\ credited' = [credited EXCEPT ![q] = @ + 1] \/ credited' = credited
  BY DEF TellAggregator
<1>2. q \in monitor[m].queue
  <2>1. \E x \in monitor[m].queue : \A y \in monitor[m].queue : x <= y
    BY <1>0, LeastVote
  <2> QED
    BY <1>1, <2>1
<1>3. /\ monitor'[m].pc = "telling" /\ monitor'[m].queue = monitor[m].queue \ {q}
      /\ \A n \in Monitors \ {m} : monitor'[n] = monitor[n]
  BY <1>0, <1>1 DEF MonitorInv, MonitorRuns
<1>4. /\ \A r \in DOMAIN rec : credited[r] \in Nat
      /\ DOMAIN credited = DOMAIN rec
  BY <1>0, VoteFacts
<1> SUFFICES ASSUME NEW r \in DOMAIN rec', r \notin contended'
             PROVE  /\ credited'[r] \in {0, 1}
                    /\ credited'[r] > 0 => rec'[r].state # "pending"
                    /\ \A k \in Monitors : Claims(k, r)' =>
                         /\ credited'[r] = 0
                         /\ monitor'[k].pc = "telling" => rec'[r].state # "pending"
                         /\ \A n \in Monitors : Claims(n, r)' => n = k
  BY DEF CreditInv
<1>5. r \in DOMAIN rec \ contended
  BY <1>0
<1>6. /\ credited[r] \in {0, 1}
      /\ credited[r] > 0 => rec[r].state # "pending"
      /\ \A k \in Monitors : Claims(k, r) =>
           /\ credited[r] = 0
           /\ monitor[k].pc = "telling" => rec[r].state # "pending"
           /\ \A n \in Monitors : Claims(n, r) => n = k
  BY <1>0, <1>5 DEF CreditInv
<1>7. \A k \in Monitors : /\ Claims(k, r)' => Claims(k, r) /\ (k = m => r # q)
                          /\ monitor'[k].pc = monitor[k].pc
  BY <1>0, <1>3 DEF Claims
<1>8. CASE r = q
  <2>1. Claims(m, r)
    BY <1>0, <1>2, <1>8 DEF Claims
  <2>2. credited[r] = 0 /\ rec[r].state # "pending" /\ \A n \in Monitors : Claims(n, r) => n = m
    BY <1>0, <1>6, <2>1
  <2>3. \A n \in Monitors : ~Claims(n, r)'
    BY <1>7, <1>8, <2>2
  <2>4. credited'[r] \in {0, 1}
    BY <1>1, <1>4, <1>5, <1>8, <2>2
  <2> QED
    BY <1>0, <2>2, <2>3, <2>4
<1>9. CASE r # q
  <2>1. credited'[r] = credited[r]
    BY <1>1, <1>4, <1>5, <1>9
  <2> QED
    BY <1>0, <1>6, <1>7, <2>1
<1> QED
  BY <1>8, <1>9

LEMMA CreditInfer ==
  ASSUME ServeInv, NEW s \in Answers, Infer(s)
  PROVE  CreditInv'
<1>0. CreditInv /\ MonitorInv /\ monitor' = monitor /\ contended' = contended
  BY DEF ServeInv, Infer
<1>n. PICK n : n = Len(rec) + 1
  OBVIOUS
<1>1. /\ DOMAIN rec' = DOMAIN rec \union {n} /\ n \notin DOMAIN rec
      /\ \A r \in DOMAIN rec : rec'[r] = rec[r] /\ credited'[r] = credited[r]
      /\ credited'[n] = 0
  BY <1>n, InferAppends
<1>2. \A m \in Monitors : ~Claims(m, n)
  BY <1>0, <1>1, MonitorFacts DEF Claims
<1>3. \A m \in Monitors : \A r : Claims(m, r)' <=> Claims(m, r)
  BY <1>0 DEF Claims
<1> QED
  BY <1>0, <1>1, <1>2, <1>3 DEF CreditInv

LEMMA CreditStep ==
  ASSUME ServeInv, [ServingNext]_servingVars
  PROVE  CreditInv'
<1>0. /\ CreditInv /\ MonitorInv /\ VoteInv /\ LogInv /\ EngineInv /\ OldVotes /\ modelId \in Ids
      /\ session \in Nat /\ session > 0
  BY OldVotesStay, EngineIds, VoteFacts DEF ServeInv
<1>1. CASE UNCHANGED <<monitor, credited>> /\ contended' = contended /\ Settles
  <2>1. DOMAIN rec' = DOMAIN rec
    BY <1>1 DEF Settles
  <2>2. \A n \in Monitors : \A r \in DOMAIN rec : Claims(n, r)' =>
          Claims(n, r) /\ monitor'[n].pc = monitor[n].pc
    BY <1>1 DEF Claims
  <2> QED
    BY <1>0, <1>1, <2>1, <2>2, CreditKept
<1>2. ASSUME NEW m \in Monitors, NEW id \in Ids, NEW now \in Nat, now > 0, DriftCheck(m, id, now),
             rec' = rec, credited' = credited, contended' = contended
      PROVE  CreditInv'
  <2>1. PICK x \in MonitorRuns : monitor' = [monitor EXCEPT ![m] = x]
                                 /\ x.pc \in {"idle", "alarming"}
    BY <1>2, DriftCheckRuns
  <2> QED
    BY <1>0, <1>2, <2>1, NoClaim, CreditKept
<1>3. ASSUME NEW m \in Monitors, StartMonitor(m) PROVE CreditInv'
  <2>1. CASE DriftCheck(m, modelId, session) /\ contended' = contended
    BY <1>0, <1>2, <1>3, <2>1, StartCases
  <2>2. CASE monitor' = [monitor EXCEPT ![m] = Fetching(modelId)]
    BY <1>0, <1>3, <2>2, CreditStart
  <2> QED
    BY <1>3, <2>1, <2>2, StartCases
<1>4. ASSUME NEW m \in Monitors, Resolve(m) PROVE CreditInv'
  <2>0. /\ credited' = credited /\ contended' = contended /\ monitor[m].pc = "fetching"
        /\ Settles /\ DOMAIN rec' = DOMAIN rec
    BY <1>4, ResolveSettles DEF Resolve, servingHist, Settles
  <2>1. CASE monitor' = [monitor EXCEPT ![m] = NotMonitoring]
    BY <1>0, <2>0, <2>1, NotMonitoringRun, NoClaim, CreditKept
  <2>2. CASE /\ rec' = [r \in DOMAIN rec |->
                     IF r \in monitor[m].held THEN Judged(r, monitor[m].now) ELSE rec[r]]
             /\ monitor' = [monitor EXCEPT ![m].pc = "telling", ![m].queue =
                  {r \in monitor[m].held : OutcomeOf(r, monitor[m].now) = "labelled"}]
    <3>1. /\ monitor'[m].pc = "telling"
          /\ monitor'[m].queue =
               {r \in monitor[m].held : OutcomeOf(r, monitor[m].now) = "labelled"}
          /\ \A n \in Monitors \ {m} : monitor'[n] = monitor[n]
      BY <1>0, <2>2 DEF MonitorInv, MonitorRuns
    <3>2. monitor[m].now \in Nat /\ monitor[m].now > 0
      BY <1>0, <2>0, MonitorFacts
    <3>3. ASSUME NEW n \in Monitors, NEW r \in DOMAIN rec, Claims(n, r)'
          PROVE  /\ Claims(n, r)
                 /\ monitor'[n].pc = "telling" =>
                      monitor[n].pc = "telling" \/ rec'[r].state # "pending"
      <4>1. CASE n = m
        <5>1. r \in monitor[m].held /\ OutcomeOf(r, monitor[m].now) = "labelled"
          BY <3>1, <3>3, <4>1 DEF Claims
        <5>2. rec'[r] = Judged(r, monitor[m].now)
          BY <2>2, <5>1
        <5> QED
          BY <1>0, <2>0, <3>2, <4>1, <5>1, <5>2, JudgedVote DEF Claims
      <4>2. CASE n # m
        BY <3>1, <3>3, <4>2 DEF Claims
      <4> QED
        BY <4>1, <4>2
    <3> QED
      BY <1>0, <2>0, <3>3, CreditKept
  <2> QED
    BY <1>4, <2>1, <2>2 DEF Resolve
<1>5. ASSUME NEW m \in Monitors, CheckDrift(m) PROVE CreditInv'
  <2>1. /\ DriftCheck(m, monitor[m].id, monitor[m].now) /\ monitor[m].pc = "telling"
        /\ rec' = rec /\ credited' = credited /\ contended' = contended
    BY <1>5 DEF CheckDrift, votes, servingHist
  <2> QED
    BY <1>0, <1>2, <2>1, MonitorFacts
<1>6. ASSUME NEW m \in Monitors, PublishDrift(m) PROVE CreditInv'
  <2>1. /\ monitor' = [monitor EXCEPT ![m] = NotMonitoring]
        /\ rec' = rec /\ credited' = credited /\ contended' = contended
    BY <1>6 DEF PublishDrift, votes, servingHist
  <2> QED
    BY <1>0, <2>1, NotMonitoringRun, NoClaim, CreditKept
<1>7. CASE ServingCrash
  <2>1. /\ monitor' = [m \in Monitors |-> NotMonitoring] /\ credited' = credited
        /\ contended' = contended /\ DOMAIN rec' = DOMAIN rec
    BY <1>7, CrashSettles DEF ServingCrash, Settles
  <2>2. \A n \in Monitors : \A r \in DOMAIN rec : ~Claims(n, r)'
    BY <2>1, NotMonitoringRun DEF Claims
  <2> QED
    BY <1>0, <2>1, <2>2, CreditKept
<1>8. \/ UNCHANGED <<monitor, credited>> /\ contended' = contended
      \/ ServingCrash \/ (\E s \in Answers : Infer(s))
      \/ \E m \in Monitors : StartMonitor(m) \/ Resolve(m) \/ TellAggregator(m) \/ CheckDrift(m)
                             \/ PublishDrift(m)
  BY DEF ServingNext, servingVars, servingHist, RegisterVersion, Promote, Pause, Resume,
     FeaturesReady, TakeTrigger, NoInference, PublishVote, ServingStart
<1> QED
  BY <1>0, <1>1, <1>3, <1>4, <1>5, <1>6, <1>7, <1>8, RecStep, CreditTell, CreditInfer

LEMMA ServeInitInv == ServingInit => ServeInv
<1> SUFFICES ASSUME ServingInit PROVE ServeInv
  OBVIOUS
<1> USE DEF ServingInit
<1>1. EngineInv
  BY DEF EngineInv
<1>2. DOMAIN rec = {} /\ rec = <<>> /\ credited = <<>> /\ Len(rec) = 0
  OBVIOUS
<1>3. VoteInv
  BY <1>2, ServeConstants DEF VoteInv
<1>4. LogInv
  <2>1. \A i \in Ids : log[i] = <<>> /\ Len(log[i]) = 0
    OBVIOUS
  <2>2. log \in [Ids -> Seq(Nat)]
    OBVIOUS
  <2> QED
    BY <1>2, <2>1, <2>2, ServeConstants DEF LogInv
<1>5. StreamInv
  <2>1. [id |-> 1, tries |-> 0] \in Triggers
    BY ServeConstants DEF Triggers
  <2>2. LastId = 1
    <3>1. Sessions * 0 = 0
      BY ServeConstants
    <3> QED
      BY <3>1 DEF LastId
  <2>3. NotInferring \in Inferences /\ NotInferring.pc = "idle"
    BY DEF NotInferring, NoTrigger, Inferences
  <2> QED
    BY <1>2, <2>1, <2>2, <2>3 DEF StreamInv
<1>6. MonitorInv
  BY NotMonitoringRun DEF MonitorInv, NothingOverdue
<1>7. CreditInv /\ PauseInv
  BY <1>2 DEF CreditInv, PauseInv
<1> QED
  BY <1>1, <1>3, <1>4, <1>5, <1>6, <1>7 DEF ServeInv

LEMMA ServeInvNext == ServeInv /\ [ServingNext]_servingVars => ServeInv'
<1> SUFFICES ASSUME ServeInv, [ServingNext]_servingVars PROVE ServeInv'
  OBVIOUS
<1>1. EngineInv' /\ VoteInv' /\ LogInv' /\ StreamInv' /\ MonitorInv' /\ CreditInv' /\ PauseInv'
  BY EngineStep, VoteStep, LogStep, StreamStep, MonitorStep, CreditStep, PauseStep
<1> QED
  BY <1>1 DEF ServeInv

-----------------------------------------------------------------------------
(* Deep enough a log.  Of votes in their order, no three of one day, every *)
(* second one is of a later day: 2 * Horizon younger ones are of Horizon   *)
(* later days.                                                             *)

LEMMA ThreeOfADay ==
  ASSUME NEW S, IsFiniteSet(S), NEW a \in S, NEW b \in S, NEW c \in S, a # b, b # c, a # c
  PROVE  Cardinality(S) > 2
<1>1. PICK A : A = {a} /\ IsFiniteSet(A) /\ Cardinality(A) = 1
  BY FS_Singleton
<1>2. PICK B : B = A \union {b} /\ IsFiniteSet(B) /\ Cardinality(B) = 2
  <2>1. b \notin A
    BY <1>1
  <2>2. IsFiniteSet(A \union {b}) /\ Cardinality(A \union {b}) = Cardinality(A) + 1
    BY <1>1, <2>1, FS_AddElement
  <2> QED
    BY <1>1, <2>2
<1>3. PICK C : C = B \union {c} /\ IsFiniteSet(C) /\ Cardinality(C) = 3
  <2>1. c \notin B
    BY <1>1, <1>2
  <2>2. IsFiniteSet(B \union {c}) /\ Cardinality(B \union {c}) = Cardinality(B) + 1
    BY <1>2, <2>1, FS_AddElement
  <2> QED
    BY <1>2, <2>2
<1>4. C \subseteq S
  BY <1>1, <1>2, <1>3
<1>5. Cardinality(C) <= Cardinality(S) /\ Cardinality(S) \in Nat
  BY <1>4, FS_Subset, FS_CardinalityType
<1> QED
  BY <1>3, <1>5

LEMMA Deep ==
  ASSUME ServeInv, NEW r \in DOMAIN rec, rec[r].state = "pending", r \notin Held(rec[r].id),
         session - rec[r].on < Horizon,
         \A d \in 1..session : ~(Cardinality({q \in DOMAIN rec : rec[q].on = d}) > 2)
  PROVE  FALSE
<1> DEFINE s == log[rec[r].id]
           on(k) == rec[s[k]].on
           late(k) == 2 * k <= LogMax /\ on(2 * k) < rec[r].on + k
           S == {k \in Nat : k >= 1 /\ late(k)}
<1>1. /\ VoteInv /\ LogInv /\ rec[r].id \in Ids /\ rec[r].on \in Nat /\ rec[r].on >= 1
      /\ Len(rec) \in Nat /\ DOMAIN rec = 1..Len(rec) /\ session \in Nat
      /\ LogMax \in Nat /\ Horizon \in Nat \ {0} /\ LogMax >= 2 * Horizon
  <2>1. rec[r].on \in 1..Sessions /\ Sessions \in Nat
    BY VoteFacts, ServeConstants DEF ServeInv
  <2> QED
    BY <2>1, VoteFacts, ServeConstants DEF ServeInv
<1>2. \A k \in 1..LogMax : s[k] \in DOMAIN rec /\ r < s[k]
  BY <1>1 DEF LogInv
<1>3. \A j, k \in 1..LogMax : j < k => s[j] < s[k]
  BY <1>1 DEF LogInv
<1>4. \A q \in DOMAIN rec : rec[q].on \in Nat /\ rec[q].on <= session /\ rec[q].on >= 1
  <2>1. \A q \in DOMAIN rec : rec[q].on \in 1..Sessions
    BY <1>1, VoteFacts
  <2> QED
    BY <1>1, <2>1, ServeConstants DEF VoteInv
<1>5. \A p, q \in DOMAIN rec : p < q => rec[p].on <= rec[q].on
  BY <1>1 DEF VoteInv
<1> HIDE DEF s
<1>6. ASSUME NEW a \in DOMAIN rec, NEW b \in DOMAIN rec, NEW c \in DOMAIN rec, a < b, b < c
      PROVE  rec[a].on + 1 <= rec[c].on
  <2>1. rec[a].on <= rec[b].on /\ rec[b].on <= rec[c].on
    BY <1>5, <1>6
  <2>2. CASE rec[a].on = rec[c].on
    <3> DEFINE D == {q \in DOMAIN rec : rec[q].on = rec[a].on}
    <3>1. rec[b].on = rec[a].on
      BY <1>4, <2>1, <2>2
    <3>2. a \in D /\ b \in D /\ c \in D /\ a # b /\ b # c /\ a # c
      BY <1>1, <1>6, <2>2, <3>1
    <3>3. IsFiniteSet(D)
      <4>1. IsFiniteSet(1..Len(rec)) /\ DOMAIN rec = 1..Len(rec)
        BY <1>1, FS_Interval
      <4> QED
        BY <4>1, FS_Subset
    <3>4. rec[a].on \in 1..session
      BY <1>1, <1>4
    <3>5. ~(Cardinality(D) > 2)
      BY <3>4
    <3> HIDE DEF D
    <3> QED
      BY <3>2, <3>3, <3>5, ThreeOfADay
  <2> QED
    BY <1>4, <2>1, <2>2
<1>7. S = {}
  <2> SUFFICES ASSUME S # {} PROVE FALSE
    OBVIOUS
  <2>1. PICK k \in S : \A m \in S : k <= m
    BY LeastVote
  <2>2. k \in Nat /\ k >= 1 /\ 2 * k <= LogMax /\ on(2 * k) < rec[r].on + k
    BY <2>1
  <2>3. 2 * k \in 1..LogMax /\ 2 * k - 1 \in 1..LogMax /\ 2 * k - 1 < 2 * k
    <3>1. k \in Nat /\ k >= 1 /\ 2 * k <= LogMax /\ LogMax \in Nat
      BY <1>1, <2>2
    <3> QED
      BY <3>1
  <2>4. /\ s[2 * k - 1] \in DOMAIN rec /\ s[2 * k] \in DOMAIN rec
        /\ s[2 * k - 1] < s[2 * k] /\ r < s[2 * k - 1]
    BY <1>2, <1>3, <2>3
  <2>5. CASE k = 1
    <3>1. rec[r].on + 1 <= rec[s[2 * k]].on
      BY <1>6, <2>4
    <3>2. PICK x \in Nat : x = rec[s[2 * k]].on
      BY <1>4, <2>4
    <3>3. rec[r].on + 1 <= x /\ x < rec[r].on + k
      BY <2>2, <3>1, <3>2
    <3> QED
      BY <1>1, <2>5, <3>2, <3>3
  <2>6. CASE k # 1
    <3> DEFINE j == k - 1
    <3>1. j \in Nat /\ j >= 1 /\ 2 * j \in 1..LogMax /\ 2 * j < 2 * k - 1 /\ j < k
          /\ 2 * j <= LogMax /\ k = j + 1
      <4>1. k \in Nat /\ k >= 1 /\ 2 * k <= LogMax /\ LogMax \in Nat
        BY <1>1, <2>2
      <4> QED
        BY <2>6, <4>1
    <3> HIDE DEF j
    <3>2. j \notin S
      BY <2>1, <2>2, <3>1
    <3>3. ~(on(2 * j) < rec[r].on + j)
      BY <3>1, <3>2
    <3>4. s[2 * j] \in DOMAIN rec /\ s[2 * j] < s[2 * k - 1]
      BY <1>2, <1>3, <2>3, <3>1
    <3>5. rec[s[2 * j]].on + 1 <= rec[s[2 * k]].on
      BY <1>6, <2>4, <3>4
    <3>6. PICK x \in Nat : x = rec[s[2 * k]].on
      BY <1>4, <2>4
    <3>7. PICK y \in Nat : y = rec[s[2 * j]].on
      BY <1>4, <3>4
    <3>8. PICK o \in Nat : o = rec[r].on
      BY <1>1
    <3>9. y + 1 <= x /\ x < o + k /\ ~(y < o + j)
      BY <2>2, <3>3, <3>5, <3>6, <3>7, <3>8
    <3>10. j \in Nat /\ k = j + 1
      BY <3>1
    <3> QED
      BY <3>6, <3>7, <3>8, <3>9, <3>10
  <2> QED
    BY <2>5, <2>6
<1>8. ~late(Horizon)
  BY <1>1, <1>7
<1>9. s[2 * Horizon] \in DOMAIN rec
  BY <1>1, <1>2
<1>10. on(2 * Horizon) \in Nat /\ on(2 * Horizon) <= session
  BY <1>4, <1>9
<1> QED
  BY <1>1, <1>8, <1>10

LEMMA ServeInvSettles == ServeInv => VotesAreSettledOnce
<1> SUFFICES ASSUME ServeInv PROVE VotesAreSettledOnce
  OBVIOUS
<1>0. EngineInv /\ VoteInv /\ LogInv /\ StreamInv /\ MonitorInv /\ CreditInv
  BY DEF ServeInv
<1>1. ServingTypeOK
  <2>1. model \in Ids \ {Nameless} /\ modelId \in Ids
    BY <1>0, ServeConstants DEF EngineInv
  <2>2. \A i \in Ids : Len(log[i]) <= LogMax /\ Held(i) \subseteq DOMAIN rec
    BY <1>0, PendingFacts DEF LogInv
  <2>3. \A t \in triggers : t.tries \in 0..(ServeDeliver - 1)
    BY <1>0 DEF StreamInv, Triggers
  <2>4. infer.pc \in {"idle", "asking", "publishing"}
    BY <1>0 DEF StreamInv, Inferences
  <2>5. \A m \in Monitors : /\ monitor[m].pc \in {"idle", "fetching", "telling", "alarming"}
                            /\ monitor[m].queue \subseteq monitor[m].held
    BY <1>0, MonitorFacts DEF MonitorRuns
  <2>6. DOMAIN credited = DOMAIN rec
    BY <1>0, VoteFacts
  <2> QED
    BY <1>0, <2>1, <2>2, <2>3, <2>4, <2>5, <2>6 DEF ServingTypeOK, EngineInv
<1>2. CreditedOnce
  <2> SUFFICES ASSUME NEW q \in DOMAIN rec, NEW r \in DOMAIN rec, credited[q] > 0,
                      credited[r] > 0, rec[q].msg = rec[r].msg
               PROVE  /\ credited[r] = 1 \/ r \in contended
                      /\ q = r \/ rec[q].msg \in retried
    BY DEF CreditedOnce
  <2>1. credited[r] = 1 \/ r \in contended
    BY <1>0 DEF CreditInv
  <2>2. q = r \/ rec[q].msg \in retried
    BY <1>0 DEF StreamInv
  <2> QED
    BY <2>1, <2>2
<1>3. NothingOverdue
  BY <1>0 DEF MonitorInv
<1>4. MaturesBeforeEviction
  BY Deep DEF MaturesBeforeEviction
<1> QED
  BY <1>1, <1>2, <1>3, <1>4 DEF VotesAreSettledOnce

\* However deliveries, crashes and the two monitors interleave: a vote is counted
\* once unless its message was redelivered or two runs held it, none a run has
\* judged stays pending past its cutoff, and a log of twice the horizon keeps
\* every vote until its label is certain (outcomes.py:70-117, inference_log.py:32-48).
THEOREM VotesSettled == ServingSpec => []VotesAreSettledOnce
<1> QED
  BY ServeInitInv, ServeInvNext, ServeInvSettles, PTL DEF ServingSpec

-----------------------------------------------------------------------------
(* What serving answers for                                                *)

LEMMA VoteOfProduction ==
  ASSUME ServeInv, [ServingNext]_servingVars, Len(rec') > Len(rec)
  PROVE  (rec'[Len(rec')].model = alias /\ rec'[Len(rec')].id = alias) \/ stale
<1>0. Len(rec) \in Nat /\ EngineInv
  BY VoteFacts DEF ServeInv
<1>1. ~Settles
  BY <1>0 DEF Settles
<1>2. PICK s \in Answers : Infer(s)
  BY <1>1, RecStep
<1>3. /\ Len(rec') = Len(rec) + 1 /\ rec'[Len(rec) + 1].id = modelId
      /\ rec'[Len(rec) + 1].model = model
  BY <1>2, InferAppends
<1>4. up
  BY <1>2 DEF Infer
<1> QED
  BY <1>0, <1>3, <1>4 DEF EngineInv

LEMMA PauseObeyed ==
  ASSUME ServeInv, [ServingNext]_servingVars, paused,
         Len(rec') > Len(rec) \/ (infer.pc = "publishing" /\ infer'.pc = "idle")
  PROVE  surprised \/ ~up'
<1>0. Len(rec) \in Nat /\ PauseInv
  BY VoteFacts DEF ServeInv
<1>1. CASE infer.pc = "publishing"
  BY <1>0, <1>1 DEF PauseInv
<1>2. CASE Len(rec') > Len(rec)
  <2>1. ~Settles
    BY <1>0, <1>2 DEF Settles
  <2>2. PICK s \in Answers : Infer(s)
    BY <2>1, RecStep
  <2>3. infer.pc # "idle"
    BY <2>2 DEF Infer
  <2> QED
    BY <1>0, <2>3 DEF PauseInv
<1> QED
  BY <1>1, <1>2

LEMMA AlarmMeasured ==
  ASSUME ServeInv, [ServingNext]_servingVars, NEW m \in Monitors,
         monitor'[m].pc = "alarming", monitor[m].pc # "alarming"
  PROVE  LET a == monitor'[m].alarm
         IN  /\ a.type \in {"performance_decay", "accuracy_decay"} =>
                  MinOutcomes <= Cardinality(
                    {r \in Held(monitor'[m].id) : rec[r].state = "labelled" /\ rec[r].at > 0})
             /\ (a.action = "auto_retrain") = (a.type # "prediction_shift")
<1>0. /\ MonitorInv /\ VoteInv /\ LogInv /\ EngineInv /\ modelId \in Ids
      /\ session \in Nat /\ session > 0 /\ MinOutcomes \in Nat
      /\ Len(rec) \in Nat /\ DOMAIN rec = 1..Len(rec)
  BY EngineIds, VoteFacts, ServeConstants DEF ServeInv
<1>1. \E id \in Ids, now \in Nat : now > 0 /\ DriftCheck(m, id, now)
  <2>1. ASSUME NEW n \in Monitors, NEW x, monitor' = [monitor EXCEPT ![n] = x],
               n # m \/ x.pc # "alarming"
        PROVE  FALSE
    BY <1>0, <2>1 DEF MonitorInv
  <2>2. ASSUME NEW n \in Monitors, NEW id \in Ids, NEW now \in Nat, now > 0,
               DriftCheck(n, id, now)
        PROVE  n = m
    <3>1. PICK x \in MonitorRuns : monitor' = [monitor EXCEPT ![n] = x]
      BY <2>2, DriftCheckRuns
    <3> QED
      BY <2>1, <3>1
  <2>3. ASSUME NEW n \in Monitors, StartMonitor(n)
        PROVE  n = m /\ DriftCheck(n, modelId, session)
    <3>1. CASE DriftCheck(n, modelId, session)
      BY <1>0, <2>2, <3>1
    <3>2. CASE monitor' = [monitor EXCEPT ![n] = Fetching(modelId)]
      BY <1>0, <2>1, <3>2, FetchingRun
    <3> QED
      BY <2>3, <3>1, <3>2, StartCases
  <2>4. ASSUME NEW n \in Monitors, Resolve(n) PROVE FALSE
    <3>1. CASE monitor' = [monitor EXCEPT ![n] = NotMonitoring]
      BY <2>1, <3>1, NotMonitoringRun
    <3>2. ASSUME NEW Q, monitor' = [monitor EXCEPT ![n].pc = "telling", ![n].queue = Q]
          PROVE  FALSE
      <4>1. monitor' = [monitor EXCEPT ![n] = [monitor[n] EXCEPT !.pc = "telling", !.queue = Q]]
            /\ monitor[n] \in MonitorRuns
        BY <1>0, <3>2, MonitorFacts DEF MonitorInv
      <4>2. [monitor[n] EXCEPT !.pc = "telling", !.queue = Q].pc = "telling"
        BY <4>1 DEF MonitorRuns
      <4> QED
        BY <2>1, <4>1, <4>2
    <3> QED
      BY <2>4, <3>1, <3>2 DEF Resolve
  <2>5. ASSUME NEW n \in Monitors, TellAggregator(n) PROVE FALSE
    <3>1. PICK r : /\ monitor' = [monitor EXCEPT ![n].queue = @ \ {r}]
                   /\ monitor[n].pc = "telling"
      BY <2>5 DEF TellAggregator
    <3>2. monitor[n] \in MonitorRuns /\ monitor' =
            [monitor EXCEPT ![n] = [monitor[n] EXCEPT !.queue = @ \ {r}]]
      BY <1>0, <3>1, MonitorFacts DEF MonitorInv
    <3>3. [monitor[n] EXCEPT !.queue = @ \ {r}].pc = "telling"
      BY <3>1, <3>2 DEF MonitorRuns
    <3> QED
      BY <2>1, <3>2, <3>3
  <2>6. ASSUME NEW n \in Monitors, PublishDrift(n) PROVE FALSE
    BY <2>1, <2>6, NotMonitoringRun DEF PublishDrift
  <2>7. ASSUME NEW n \in Monitors, CheckDrift(n)
        PROVE  /\ n = m /\ DriftCheck(n, monitor[n].id, monitor[n].now)
               /\ monitor[n].id \in Ids /\ monitor[n].now \in Nat /\ monitor[n].now > 0
    <3>1. /\ DriftCheck(n, monitor[n].id, monitor[n].now)
          /\ monitor[n].id \in Ids /\ monitor[n].now \in Nat /\ monitor[n].now > 0
      BY <1>0, <2>7, MonitorFacts DEF CheckDrift
    <3> QED
      BY <2>2, <3>1
  <2>8. ~ServingCrash
    BY NotMonitoringRun DEF ServingCrash
  <2>9. \/ UNCHANGED monitor \/ ServingCrash
        \/ \E n \in Monitors : StartMonitor(n) \/ Resolve(n) \/ TellAggregator(n)
                               \/ CheckDrift(n) \/ PublishDrift(n)
    BY DEF ServingNext, servingVars, RegisterVersion, Promote, Pause, Resume, FeaturesReady,
       TakeTrigger, NoInference, Infer, PublishVote, ServingStart
  <2> QED
    BY <1>0, <2>3, <2>4, <2>5, <2>6, <2>7, <2>8, <2>9
<1>2. PICK id \in Ids, now \in Nat : now > 0 /\ DriftCheck(m, id, now)
  BY <1>1
<1>3. PICK x \in MonitorRuns :
        /\ monitor' = [monitor EXCEPT ![m] = x]
        /\ x.pc = "alarming" => x.id = id /\ x.now > 0 /\ Warranted(x)
  BY <1>2, DriftCheckRuns
<1>4. monitor'[m] = x /\ Warranted(x) /\ x.id \in Ids /\ x.now \in Nat
  BY <1>0, <1>3 DEF MonitorInv, MonitorRuns
<1> DEFINE S == {r \in Held(x.id) : rec[r].state = "labelled" /\ rec[r].at > 0}
<1>5. Held(x.id) \subseteq DOMAIN rec
  BY <1>0, <1>4, PendingFacts
<1>6. Measured(x.id, x.now) \subseteq S
  BY <1>0, <1>5 DEF Measured, VoteInv
<1>7. IsFiniteSet(S)
  <2>1. Len(rec) \in Nat /\ DOMAIN rec = 1..Len(rec)
    BY <1>0
  <2>3. IsFiniteSet(1..Len(rec))
    BY <2>1, FS_Interval
  <2>2. S \subseteq DOMAIN rec
    BY <1>5
  <2> QED
    BY <2>1, <2>2, <2>3, FS_Subset
<1> HIDE DEF S
<1>8. Cardinality(Measured(x.id, x.now)) <= Cardinality(S) /\ Cardinality(S) \in Nat
      /\ Cardinality(Measured(x.id, x.now)) \in Nat
  <2>1. IsFiniteSet(Measured(x.id, x.now))
        /\ Cardinality(Measured(x.id, x.now)) <= Cardinality(S)
    BY <1>6, <1>7, FS_Subset
  <2> QED
    BY <1>7, <2>1, FS_CardinalityType
<1>9. x.alarm.type \in {"performance_decay", "accuracy_decay"} => MinOutcomes <= Cardinality(S)
  BY <1>0, <1>4, <1>8 DEF Warranted
<1> QED
  BY <1>4, <1>9 DEF Warranted, S

\* A vote is computed by the model the production alias names, unless a reload
\* failed; a pause lets out only the inference it surprised; and an alarm of decay
\* rests on enough labelled votes of its model (serving.py:125-147, service.py:251-258).
THEOREM ServingAccountable == ServingSpec => ServingIsAccountable
<1>1. ServeInv /\ [ServingNext]_servingVars =>
        [Len(rec') > Len(rec) =>
           LET r == rec'[Len(rec')] IN (r.model = alias /\ r.id = alias) \/ stale]_servingVars
  BY VoteOfProduction
<1>2. ServeInv /\ [ServingNext]_servingVars =>
        [paused /\ (Len(rec') > Len(rec) \/ (infer.pc = "publishing" /\ infer'.pc = "idle"))
           => surprised \/ ~up']_servingVars
  BY PauseObeyed
<1>3. ServeInv /\ [ServingNext]_servingVars =>
        [\A m \in Monitors :
           monitor'[m].pc = "alarming" /\ monitor[m].pc # "alarming" =>
             LET a == monitor'[m].alarm
             IN  /\ a.type \in {"performance_decay", "accuracy_decay"} =>
                      MinOutcomes <= Cardinality(
                        {r \in Held(monitor'[m].id) : rec[r].state = "labelled" /\ rec[r].at > 0})
                 /\ (a.action = "auto_retrain") = (a.type # "prediction_shift")]_servingVars
  BY AlarmMeasured
<1> QED
  BY <1>1, <1>2, <1>3, ServeInitInv, ServeInvNext, PTL DEF ServingSpec, ServingIsAccountable,
     VotesAreOfProduction, PauseIsObeyed, AlarmsAreMeasured
=============================================================================
