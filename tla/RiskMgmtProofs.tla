--------------------------- MODULE RiskMgmtProofs ---------------------------
(***************************************************************************)
(* Proofs about RiskMgmt for every number of concurrent requests, every    *)
(* set of aggregates and pushed metrics, and all thresholds.               *)
(***************************************************************************)
EXTENDS RiskMgmt, FunctionTheorems, FiniteSetTheorems, TLAPS

-----------------------------------------------------------------------------
(* The breaker                                                             *)

\* What evaluate() returns, for every breaker and every reading: the level
\* shows the sticky rules, and a halt of today survives any reading.
LEMMA EvaluateShowsRule ==
  ASSUME NEW b \in Breakers, NEW dd \in Nat, NEW loss \in Nat,
         NEW day \in Nat \ {0}, b.halted <= day
  PROVE  LET e == Evaluate(b, dd, loss, day)
         IN  /\ e \in Breakers
             /\ e.level = "BLACK" <=> e.latched
             /\ e.halted = day => IsTripped(e)
             /\ b.halted = day => e.halted = day
             /\ dd >= DrawdownFlatten => e.latched
             /\ b.latched => e.latched
             /\ e.halted <= day
<1> DEFINE latched == b.latched \/ dd >= DrawdownFlatten
           halted  == IF loss >= DailyLossHalt THEN day ELSE b.halted
           e == Evaluate(b, dd, loss, day)
<1>1. latched \in BOOLEAN /\ halted \in Nat /\ halted <= day
      /\ (b.halted = day => halted = day)
  BY DEF Breakers
<1>2. e = [level |-> LevelOf(latched, halted, dd, day), latched |-> latched, halted |-> halted]
  BY DEF Evaluate
<1> HIDE DEF latched, halted, e
<1>3. /\ LevelOf(latched, halted, dd, day) \in Levels
      /\ LevelOf(latched, halted, dd, day) = "BLACK" <=> latched
      /\ halted = day => LevelOf(latched, halted, dd, day) \in {"RED", "BLACK"}
  BY <1>1 DEF LevelOf, Levels
<1>4. e \in Breakers
  BY <1>1, <1>2, <1>3 DEF Breakers
<1>5. (b.latched => latched) /\ (dd >= DrawdownFlatten => latched)
  BY DEF latched
<1>6. e.level = "BLACK" <=> e.latched
  BY <1>2, <1>3
<1>7. e.halted = day => IsTripped(e)
  BY <1>2, <1>3 DEF IsTripped
<1> QED
  BY <1>1, <1>2, <1>4, <1>5, <1>6, <1>7 DEF e

-----------------------------------------------------------------------------
(* The inductive invariant                                                 *)

\* No halt, in memory, on its way to Redis or stored, is of a later session:
\* otherwise the clock could reach it and a session would be halted unasked.
HaltsNotAhead ==
  /\ breaker.halted <= today
  /\ \A s \in redis : s.breaker.halted <= today
  /\ \A t \in Tasks : snap[t].breaker.halted <= today

IInv == TypeOK /\ LevelShowsRule /\ HaltsNotAhead

\* What a service that starts from nothing holds.
LEMMA FreshTyped ==
  /\ FreshBreaker \in Breakers /\ FreshBreaker.halted = 0 /\ ~FreshBreaker.latched
  /\ FreshBreaker.level = "NONE"
  /\ FreshPortfolio \in Portfolios /\ FreshPortfolio.dd = 0 /\ FreshPortfolio.loss = 0
  /\ FreshSnapshot \in Snapshots /\ FreshSnapshot.breaker.halted = 0
BY DEF FreshBreaker, Breakers, Levels, NoSession, FreshPortfolio, Portfolios,
       InitialValue, Regimes, FreshSnapshot, Snapshots, Latch, Latches

\* A ledger never grows by being pruned.
LEMMA RecordTyped ==
  ASSUME NEW l \in SUBSET Keys, NEW k \in Keys
  PROVE  /\ Record(l, k) \in SUBSET Keys
         /\ Record(l, k) \subseteq l \union {k}
         /\ Prune(l) \subseteq l
BY DEF Record, Prune

\* Counting an order keeps a counter per key and lowers none.
LEMMA CountTyped ==
  ASSUME NEW c \in [Keys -> Nat]
  PROVE  /\ CountOrder(c) \in [Keys -> Nat]
         /\ \A k \in Keys : CountOrder(c)[k] >= c[k]
BY DEF CountOrder

\* Issuing a save of a well-typed state keeps the tasks well typed.
LEMMA IssueSaveTyped ==
  ASSUME TasksTyped, NEW t \in Tasks, NEW p \in Portfolios, NEW l \in SUBSET Keys,
         NEW b \in Breakers, NEW level \in Levels, IssueSave(t, p, l, b, level)
  PROVE  /\ TasksTyped'
         /\ dirty' \in BOOLEAN
         /\ \A u \in Tasks : snap'[u].breaker.halted
                = IF u = t THEN b.halted ELSE snap[u].breaker.halted
<1>1. [portfolio |-> p, orders |-> l, breaker |-> Latch(b)] \in Snapshots
  BY DEF Snapshots, Latch, Latches, Breakers
<1> QED
  BY <1>1 DEF IssueSave, TasksTyped, PCs, Latch

\* Ending a save or a task keeps the tasks well typed.
LEMMA EndTyped ==
  ASSUME TasksTyped, NEW t \in Tasks
  PROVE  /\ EndSave(t) => /\ behind' \in [Tasks -> SUBSET Tasks]
                          /\ snap' \in [Tasks -> Snapshots]
                          /\ \A u \in Tasks : snap'[u] \in {snap[u], FreshSnapshot}
         /\ EndTask(t) => pc' \in [Tasks -> PCs] /\ alert' \in [Tasks -> Levels]
BY FreshTyped DEF EndSave, EndTask, TasksTyped, PCs, Levels

-----------------------------------------------------------------------------
(* One lemma per group of actions                                          *)

LEMMA InitIInv == Init => IInv
<1> SUFFICES ASSUME Init PROVE IInv
  OBVIOUS
<1>1. MemoryTyped
  BY FreshTyped DEF Init, MemoryTyped
<1>2. TasksTyped
  BY FreshTyped DEF Init, TasksTyped, PCs, Levels
<1>3. InboxTyped /\ HistoryTyped
  BY FreshTyped DEF Init, InboxTyped, HistoryTyped, NoSession, Latch, Latches, Breakers
<1>4. LevelShowsRule
  BY FreshTyped, ThresholdsAssumption DEF Init, LevelShowsRule
<1>5. HaltsNotAhead
  BY FreshTyped DEF Init, HaltsNotAhead
<1> QED
  BY <1>1, <1>2, <1>3, <1>4, <1>5 DEF IInv, TypeOK

LEMMA ApproveStep ==
  ASSUME IInv,
         \/ \E m \in Msgs : IgnoreAggregate(m) \/ OrderAggregate(m)
         \/ \E h \in Http, m \in Msgs : PostSignal(h, m)
  PROVE  IInv'
<1> USE DEF IInv, TypeOK
<1>1. UNCHANGED <<up, today, memory, redis, snap, alert, behind, history>>
  BY DEF IgnoreAggregate, OrderAggregate, PostSignal, tasks
<1>2. MemoryTyped' /\ HistoryTyped' /\ LevelShowsRule' /\ HaltsNotAhead'
  BY <1>1 DEF MemoryTyped, HistoryTyped, LevelShowsRule, HaltsNotAhead, memory, history
<1>3. TasksTyped'
  <2>1. pc' \in [Tasks -> PCs]
    BY DEF IgnoreAggregate, OrderAggregate, PostSignal, tasks, TasksTyped, PCs
  <2> QED
    BY <1>1, <2>1 DEF TasksTyped
<1>4. InboxTyped'
  BY DEF IgnoreAggregate, OrderAggregate, PostSignal, Deliver, inbox, InboxTyped
<1> QED
  BY <1>2, <1>3, <1>4

LEMMA PublishOrderStep ==
  ASSUME IInv, PublishOrder
  PROVE  IInv'
<1> USE DEF IInv, TypeOK
<1> PICK k \in CurrentKeys :
       /\ ledger' = Record(ledger, k)
       /\ IssueSave(Agg, portfolio, Record(ledger, k), breaker, "NONE")
  BY DEF PublishOrder
<1>1. UNCHANGED <<up, today, breaker, portfolio, persistent, redis, inbox,
                  interrupted, announced, lossSession, acked, owed, faults>>
  BY DEF PublishOrder
<1>2. k \in Keys /\ Agg \in Tasks
  BY DEF CurrentKeys, Keys, InboxTyped, Tasks
<1>3. Record(ledger, k) \in SUBSET Keys
  BY <1>2, RecordTyped DEF MemoryTyped
<1>4. MemoryTyped' /\ LevelShowsRule' /\ InboxTyped'
  BY <1>1, <1>3 DEF MemoryTyped, LevelShowsRule, InboxTyped, inbox
<1>5. TasksTyped' /\ dirty' \in BOOLEAN /\ HaltsNotAhead'
  <2>1. /\ TasksTyped'
        /\ dirty' \in BOOLEAN
        /\ \A u \in Tasks : snap'[u].breaker.halted
              = IF u = Agg THEN breaker.halted ELSE snap[u].breaker.halted
    BY <1>2, <1>3, IssueSaveTyped DEF MemoryTyped, Levels
  <2> QED
    BY <1>1, <2>1 DEF HaltsNotAhead
<1>6. HistoryTyped'
  <2>1. orders' \in [Keys -> Nat]
    BY CountTyped DEF PublishOrder, HistoryTyped
  <2> QED
    BY <1>1, <1>5, <2>1 DEF HistoryTyped
<1> QED
  BY <1>4, <1>5, <1>6

\* An evaluation on a well-typed reading keeps the rule visible in the level.
LEMMA UpdatePortfolioStep ==
  ASSUME IInv, NEW t \in Tasks, NEW p \in Portfolios, UpdatePortfolio(t, p),
         lossSession' \in Nat
  PROVE  IInv'
<1> USE DEF IInv, TypeOK
<1> DEFINE b == Evaluate(breaker, p.dd, p.loss, today)
           level == AlertFor(breaker, b)
<1>1. UNCHANGED <<up, today, ledger, persistent, redis, inbox,
                  orders, interrupted, announced, acked, owed, faults>>
      /\ portfolio' = p /\ breaker' = b /\ IssueSave(t, p, ledger, b, level)
  BY DEF UpdatePortfolio
<1>2. /\ b \in Breakers
      /\ b.level = "BLACK" <=> b.latched
      /\ b.halted = today => IsTripped(b)
      /\ p.dd >= DrawdownFlatten => b.latched
      /\ b.halted <= today
  BY EvaluateShowsRule DEF MemoryTyped, HaltsNotAhead, Portfolios
<1> HIDE DEF b
<1>3. MemoryTyped' /\ InboxTyped'
  BY <1>1, <1>2 DEF MemoryTyped, InboxTyped, inbox
<1>4. LevelShowsRule'
  BY <1>1, <1>2 DEF LevelShowsRule
<1>5. TasksTyped' /\ dirty' \in BOOLEAN /\ HaltsNotAhead'
  <2>1. level \in Levels
    BY <1>2 DEF AlertFor, Levels, Breakers
  <2>2. /\ TasksTyped'
        /\ dirty' \in BOOLEAN
        /\ \A u \in Tasks : snap'[u].breaker.halted
              = IF u = t THEN b.halted ELSE snap[u].breaker.halted
    BY <1>1, <1>2, <2>1, IssueSaveTyped DEF MemoryTyped
  <2> QED
    BY <1>1, <1>2, <2>2 DEF HaltsNotAhead
<1>6. HistoryTyped'
  BY <1>1, <1>5 DEF HistoryTyped
<1> QED
  BY <1>3, <1>4, <1>5, <1>6

LEMMA PostPortfolioStep ==
  ASSUME IInv, NEW h \in Http, NEW m \in Pushes, PostPortfolio(h, m)
  PROVE  IInv'
<1> DEFINE p == [value |-> m.value, exposure |-> m.exposure, dd |-> m.dd,
                 loss |-> m.loss, regime |-> portfolio.regime]
<1>1. p \in Portfolios
  BY RiskAssumption DEF Metrics, Portfolios, IInv, TypeOK, MemoryTyped
<1>2. lossSession' \in Nat
  BY DEF PostPortfolio, IInv, TypeOK, MemoryTyped, HistoryTyped
<1>3. h \in Tasks /\ UpdatePortfolio(h, p)
  BY DEF PostPortfolio, Tasks
<1> QED
  BY <1>1, <1>2, <1>3, UpdatePortfolioStep

LEMMA RegimeStep ==
  ASSUME IInv, NEW r \in Macro, HandleRegimeChanged(r)
  PROVE  IInv'
<1>1. [portfolio EXCEPT !.regime = r] \in Portfolios
  BY RiskAssumption DEF Portfolios, IInv, TypeOK, MemoryTyped
<1>2. lossSession' \in Nat
  BY DEF HandleRegimeChanged, IInv, TypeOK, HistoryTyped
<1>3. Reg \in Tasks /\ UpdatePortfolio(Reg, [portfolio EXCEPT !.regime = r])
  BY DEF HandleRegimeChanged, Tasks
<1> QED
  BY <1>1, <1>2, <1>3, UpdatePortfolioStep

LEMMA ResetStep ==
  ASSUME IInv, NEW h \in Http, PostReset(h)
  PROVE  IInv'
<1> USE DEF IInv, TypeOK
<1> DEFINE b == Reset(breaker, portfolio.dd, portfolio.loss, today)
<1>1. UNCHANGED <<up, today, portfolio, ledger, persistent, redis, inbox,
                  orders, interrupted, lossSession, owed, faults>>
      /\ breaker' = b /\ IssueSave(h, portfolio, ledger, b, "NONE")
      /\ announced' = FALSE /\ acked' = TRUE
  BY DEF PostReset
<1>2. /\ b \in Breakers
      /\ b.level = "BLACK" <=> b.latched
      /\ b.halted = today => IsTripped(b)
      /\ portfolio.dd >= DrawdownFlatten => b.latched
      /\ b.halted <= today
  <2> DEFINE c == [breaker EXCEPT !.latched = FALSE]
  <2>1. c \in Breakers /\ c.halted <= today
    BY DEF MemoryTyped, HaltsNotAhead, Breakers
  <2> HIDE DEF c
  <2> QED
    BY <2>1, EvaluateShowsRule DEF MemoryTyped, Portfolios, Reset, c
<1> HIDE DEF b
<1>3. MemoryTyped' /\ InboxTyped' /\ LevelShowsRule'
  BY <1>1, <1>2 DEF MemoryTyped, InboxTyped, inbox, LevelShowsRule
<1>4. TasksTyped' /\ dirty' \in BOOLEAN /\ HaltsNotAhead'
  <2>1. h \in Tasks
    BY DEF Tasks
  <2>2. /\ TasksTyped'
        /\ dirty' \in BOOLEAN
        /\ \A u \in Tasks : snap'[u].breaker.halted
              = IF u = h THEN b.halted ELSE snap[u].breaker.halted
    BY <1>1, <1>2, <2>1, IssueSaveTyped DEF MemoryTyped, Levels
  <2> QED
    BY <1>1, <1>2, <2>2 DEF HaltsNotAhead
<1>5. HistoryTyped'
  BY <1>1, <1>4 DEF HistoryTyped
<1> QED
  BY <1>3, <1>4, <1>5

\* Acknowledging or refusing a message keeps the inbox well typed.
LEMMA AckTyped ==
  ASSUME InboxTyped, NEW t \in Tasks, UNCHANGED delivered, Ack(t) \/ Nak(t)
  PROVE  InboxTyped'
BY DEF Ack, Nak, InboxTyped

LEMMA EndManualStep ==
  ASSUME IInv, NEW t \in Tasks,
         \/ t \in Http /\ PublishManualOrder(t)
         \/ \E stored \in BOOLEAN : PublishOrderFails(t, stored)
         \/ PublishAlert(t) \/ PublishAlertFails(t)
  PROVE  IInv'
<1> USE DEF IInv, TypeOK
<1>1. UNCHANGED <<up, today, memory, redis, snap, behind, lossSession, dirty, owed>>
      /\ EndTask(t)
  BY DEF PublishManualOrder, PublishOrderFails, PublishAlert, PublishAlertFails, history
<1>2. MemoryTyped' /\ LevelShowsRule' /\ HaltsNotAhead'
  BY <1>1 DEF MemoryTyped, LevelShowsRule, HaltsNotAhead, memory
<1>3. TasksTyped'
  BY <1>1, EndTyped DEF TasksTyped
<1>4. InboxTyped'
  <2>1. CASE PublishManualOrder(t)
    BY <2>1 DEF PublishManualOrder, inbox, InboxTyped
  <2>2. CASE ~PublishManualOrder(t)
    BY <2>2, AckTyped DEF PublishOrderFails, PublishAlert, PublishAlertFails
  <2> QED
    BY <2>1, <2>2
<1>5. HistoryTyped'
  <2>1. orders' \in [Keys -> Nat] /\ interrupted' \in [Keys -> Nat]
    BY CountTyped DEF PublishManualOrder, PublishOrderFails, PublishAlert,
                      PublishAlertFails, history, placed, HistoryTyped
  <2>2. announced' \in BOOLEAN /\ acked' \in BOOLEAN /\ faults' \in Nat
    BY DEF PublishManualOrder, PublishOrderFails, PublishAlert, PublishAlertFails,
           history, HistoryTyped, Fault, MemoryTyped, Breakers
  <2> QED
    BY <1>1, <2>1, <2>2 DEF HistoryTyped
<1> QED
  BY <1>2, <1>3, <1>4, <1>5

LEMMA EndSaveStep ==
  ASSUME IInv, NEW t \in Tasks, SaveLands(t) \/ SaveFails(t)
  PROVE  IInv'
<1> USE DEF IInv, TypeOK
<1>1. /\ UNCHANGED <<up, today, memory, delivered, orders, announced, lossSession, owed>>
      /\ EndSave(t)
  BY DEF SaveLands, SaveFails, placed
<1>2. redis' = redis \/ redis' = {snap[t]}
  BY DEF SaveLands, SaveFails, Stored
<1>3. MemoryTyped'
  BY <1>1, <1>2 DEF MemoryTyped, TasksTyped, memory
<1>4. LevelShowsRule'
  BY <1>1 DEF LevelShowsRule, memory
<1>5. HaltsNotAhead'
  BY <1>1, <1>2, EndTyped, FreshTyped DEF HaltsNotAhead, memory, MemoryTyped
<1>6. TasksTyped'
  <2>1. pc' \in [Tasks -> PCs] /\ alert' \in [Tasks -> Levels]
    <3>1. CASE SaveLands(t) /\ alert[t] # "NONE"
      BY <3>1 DEF SaveLands, TasksTyped, PCs
    <3>2. CASE SaveFails(t) \/ (SaveLands(t) /\ alert[t] = "NONE")
      BY <3>2, EndTyped DEF SaveLands, SaveFails
    <3> QED
      BY <3>1, <3>2
  <2> QED
    BY <1>1, <2>1, EndTyped DEF TasksTyped
<1>7. InboxTyped'
  <2>1. CASE UNCHANGED <<settled, current>>
    BY <1>1, <2>1 DEF InboxTyped
  <2>2. CASE Ack(t) \/ Nak(t)
    BY <1>1, <2>2, AckTyped
  <2> QED
    BY <2>1, <2>2 DEF SaveLands, SaveFails
<1>8. HistoryTyped'
  <2>1. interrupted' \in [Keys -> Nat]
    BY CountTyped DEF SaveLands, SaveFails, placed, HistoryTyped
  <2>2. faults' \in Nat
    <3>1. faults' = faults \/ faults' = faults + 1
      BY Zenon DEF SaveLands, SaveFails, Fault
    <3> QED
      BY <3>1 DEF HistoryTyped
  <2>3. acked' \in BOOLEAN /\ dirty' \in BOOLEAN
    BY Zenon DEF SaveLands, SaveFails, HistoryTyped
  <2> QED
    BY <1>1, <2>1, <2>2, <2>3 DEF HistoryTyped
<1> QED
  BY <1>3, <1>4, <1>5, <1>6, <1>7, <1>8

LEMMA CrashStep ==
  ASSUME IInv, NEW stored \in BOOLEAN, Crash(stored)
  PROVE  IInv'
<1> USE DEF IInv, TypeOK
<1>1. /\ UNCHANGED <<today, persistent, redis, delivered, settled,
                     announced, lossSession, dirty>>
      /\ StartFresh /\ NoTasks /\ current' = {} /\ up' = FALSE /\ acked' = FALSE
  BY DEF Crash
<1>2. MemoryTyped' /\ LevelShowsRule'
  BY <1>1, FreshTyped DEF MemoryTyped, StartFresh, LevelShowsRule
<1>3. TasksTyped' /\ HaltsNotAhead'
  BY <1>1, FreshTyped DEF NoTasks, StartFresh, TasksTyped, PCs, Levels, HaltsNotAhead, MemoryTyped
<1>4. InboxTyped'
  BY <1>1 DEF InboxTyped
<1>5. HistoryTyped'
  <2>1. orders' \in [Keys -> Nat] /\ interrupted' \in [Keys -> Nat]
    BY CountTyped DEF Crash, HistoryTyped
  <2>2. owed' \in Latches
    BY FreshTyped DEF Crash, Latch, Latches, Breakers, MemoryTyped
  <2>3. faults' \in Nat
    BY DEF Crash, Fault, HistoryTyped
  <2> QED
    BY <1>1, <2>1, <2>2, <2>3 DEF HistoryTyped
<1> QED
  BY <1>2, <1>3, <1>4, <1>5

LEMMA RestartStep ==
  ASSUME IInv, Restart \/ RestartWithoutRedis
  PROVE  IInv'
<1> USE DEF IInv, TypeOK
<1>1. UNCHANGED <<today, redis, tasks, inbox,
                  orders, interrupted, announced, lossSession, acked, owed>>
  BY DEF Restart, RestartWithoutRedis
<1>2. up' \in BOOLEAN /\ persistent' \in BOOLEAN /\ dirty' \in BOOLEAN /\ faults' \in Nat
  <2>1. up' \in BOOLEAN /\ persistent' \in BOOLEAN /\ dirty' \in BOOLEAN
    BY Zenon DEF Restart, RestartWithoutRedis, HistoryTyped
  <2>2. faults' = faults \/ faults' = faults + 1
    BY Zenon DEF Restart, RestartWithoutRedis, Fault
  <2> QED
    BY <2>1, <2>2 DEF HistoryTyped
<1>3. /\ breaker' \in Breakers /\ portfolio' \in Portfolios /\ ledger' \in SUBSET Keys
      /\ breaker'.halted <= today
      /\ LevelShowsRule'
  <2>1. CASE StartFresh
    BY <2>1, <1>1, FreshTyped, ThresholdsAssumption
      DEF StartFresh, LevelShowsRule, MemoryTyped
  <2>2. CASE Restart /\ ~StartFresh
    <3> PICK s \in redis :
          /\ portfolio' = s.portfolio
          /\ ledger' = Prune(s.orders)
          /\ breaker' = Evaluate(RestoreLatch(FreshBreaker, s.breaker),
                                 s.portfolio.dd, s.portfolio.loss, today)
      BY <2>2 DEF Restart
    <3> DEFINE r == RestoreLatch(FreshBreaker, s.breaker)
    <3>1. s \in Snapshots /\ s.breaker.halted <= today
      BY DEF MemoryTyped, HaltsNotAhead
    <3>2. r \in Breakers /\ r.halted <= today
      BY <3>1, FreshTyped DEF RestoreLatch, Snapshots, Latches, Breakers
    <3>3. s.portfolio \in Portfolios /\ s.orders \in SUBSET Keys
      BY <3>1 DEF Snapshots
    <3> HIDE DEF r
    <3>4. breaker' = Evaluate(r, s.portfolio.dd, s.portfolio.loss, today)
      BY DEF r
    <3>5. Prune(s.orders) \in SUBSET Keys
      BY <3>3 DEF Prune
    <3>6. s.portfolio.dd \in Nat /\ s.portfolio.loss \in Nat
      BY <3>3 DEF Portfolios
    <3> DEFINE e == Evaluate(r, s.portfolio.dd, s.portfolio.loss, today)
    <3>8. today \in Nat \ {0}
      BY DEF MemoryTyped
    <3>9. /\ e \in Breakers
          /\ e.level = "BLACK" <=> e.latched
          /\ e.halted = today => IsTripped(e)
          /\ s.portfolio.dd >= DrawdownFlatten => e.latched
          /\ e.halted <= today
      BY <3>2, <3>6, <3>8, EvaluateShowsRule
    <3> HIDE DEF e
    <3>7. /\ breaker' \in Breakers
          /\ breaker'.level = "BLACK" <=> breaker'.latched
          /\ breaker'.halted = today => IsTripped(breaker')
          /\ portfolio'.dd >= DrawdownFlatten => breaker'.latched
          /\ breaker'.halted <= today
      BY <3>4, <3>9 DEF e
    <3> QED
      BY <1>1, <3>3, <3>5, <3>7 DEF LevelShowsRule
  <2> QED
    BY <2>1, <2>2 DEF RestartWithoutRedis
<1>4. MemoryTyped' /\ TasksTyped' /\ InboxTyped' /\ HistoryTyped'
  BY <1>1, <1>2, <1>3 DEF MemoryTyped, TasksTyped, tasks, InboxTyped, inbox, HistoryTyped
<1>5. HaltsNotAhead'
  BY <1>1, <1>3 DEF HaltsNotAhead, tasks
<1> QED
  BY <1>3, <1>4, <1>5

LEMMA NextDayStep ==
  ASSUME IInv, NextDay
  PROVE  IInv'
<1> USE DEF IInv, TypeOK
<1>1. today' = today + 1 /\ UNCHANGED <<up, memory, redis, tasks, inbox, history>>
  BY DEF NextDay
<1>2. MemoryTyped' /\ TasksTyped' /\ InboxTyped' /\ HistoryTyped'
  BY <1>1 DEF MemoryTyped, memory, TasksTyped, tasks, InboxTyped, inbox,
              HistoryTyped, history
<1>3. LevelShowsRule' /\ HaltsNotAhead'
  <2>1. \A t \in Tasks : snap[t] \in Snapshots
    BY DEF TasksTyped
  <2>2. \A s \in Snapshots : s.breaker.halted \in Nat
    BY DEF Snapshots, Latches
  <2> QED
    BY <1>1, <2>1, <2>2 DEF LevelShowsRule, HaltsNotAhead, MemoryTyped, memory, tasks, Breakers
<1> QED
  BY <1>2, <1>3

LEMMA NextIInv == IInv /\ [Next]_vars => IInv'
<1> SUFFICES ASSUME IInv, [Next]_vars PROVE IInv'
  OBVIOUS
<1>1. CASE UNCHANGED vars
  BY <1>1 DEF vars, memory, tasks, inbox, history, IInv, TypeOK, MemoryTyped,
              TasksTyped, InboxTyped, HistoryTyped, LevelShowsRule, HaltsNotAhead
<1>2. CASE \E m \in Msgs : IgnoreAggregate(m) \/ OrderAggregate(m)
  BY <1>2, ApproveStep
<1>3. CASE PublishOrder
  BY <1>3, PublishOrderStep
<1>4. CASE \E h \in Http : PublishManualOrder(h)
  BY <1>4, EndManualStep DEF Tasks
<1>5. CASE \E h \in Http, m \in Msgs : PostSignal(h, m)
  BY <1>5, ApproveStep
<1>6. CASE \E h \in Http, m \in Pushes : PostPortfolio(h, m)
  BY <1>6, PostPortfolioStep
<1>7. CASE \E h \in Http : PostReset(h)
  BY <1>7, ResetStep
<1>8. CASE \E r \in Macro : HandleRegimeChanged(r)
  BY <1>8, RegimeStep
<1>9. CASE \E t \in Tasks, stored \in BOOLEAN : PublishOrderFails(t, stored)
  BY <1>9, EndManualStep
<1>10. CASE \E t \in Tasks : SaveLands(t) \/ SaveFails(t)
  BY <1>10, EndSaveStep
<1>11. CASE \E t \in Tasks : PublishAlert(t) \/ PublishAlertFails(t)
  BY <1>11, EndManualStep
<1>12. CASE \E stored \in BOOLEAN : Crash(stored)
  BY <1>12, CrashStep
<1>13. CASE Restart \/ RestartWithoutRedis
  BY <1>13, RestartStep
<1>14. CASE NextDay
  BY <1>14, NextDayStep
<1> QED
  BY <1>1, <1>2, <1>3, <1>4, <1>5, <1>6, <1>7, <1>8, <1>9, <1>10, <1>11, <1>12,
     <1>13, <1>14 DEF Next

-----------------------------------------------------------------------------
(* Theorems                                                                *)

\* The inductive invariant holds in every reachable state of the service.
THEOREM IInvHolds == Spec => []IInv
BY InitIInv, NextIInv, PTL DEF Spec

\* Every variable stays in its type.
THEOREM TypeCorrect == Spec => []TypeOK
<1>1. IInv => TypeOK
  BY DEF IInv
<1> QED
  BY <1>1, IInvHolds, PTL

\* The cached level an order is checked against always shows the standing rule:
\* the latch, this session's halt, a breach of the flatten threshold.
THEOREM LevelIsRule == Spec => []LevelShowsRule
<1>1. IInv => LevelShowsRule
  BY DEF IInv
<1> QED
  BY <1>1, IInvHolds, PTL

\* No order is cleared for publication under a latch or in a halted session,
\* for every interleaving of aggregates, posts, resets, failures and restarts.
THEOREM HaltBlocksOrders == Spec => NoOrderDuringHalt
<1> DEFINE Clears(t) == pc[t] # "ordering" /\ pc'[t] = "ordering"
           Blocked == [\A t \in Tasks : Clears(t)
                         => ~breaker.latched /\ breaker.halted # today]_vars
<1>1. IInv /\ [Next]_vars => Blocked
  <2> SUFFICES ASSUME IInv, [Next]_vars, NEW t \in Tasks, Clears(t)
               PROVE  ~breaker.latched /\ breaker.halted # today
    OBVIOUS
  <2>1. CASE \/ \E m \in Msgs : OrderAggregate(m)
             \/ \E h \in Http, m \in Msgs : PostSignal(h, m)
    <3>1. up /\ ~IsTripped(breaker)
      BY <2>1 DEF OrderAggregate, PostSignal, Deliver, Running, Approved
    <3> QED
      BY <3>1 DEF IInv, LevelShowsRule, IsTripped
  <2>2. CASE ~\/ \E m \in Msgs : OrderAggregate(m)
              \/ \E h \in Http, m \in Msgs : PostSignal(h, m)
    <3>1. pc \in [Tasks -> PCs]
      BY DEF IInv, TypeOK, TasksTyped
    <3>2. ~Clears(t)
      <4>1. CASE UNCHANGED pc
        BY <4>1
      <4>2. CASE \E u \in Tasks, v \in {"idle", "saving", "alerting"} :
                   pc' = [pc EXCEPT ![u] = v]
        BY <3>1, <4>2
      <4>3. CASE pc' = [u \in Tasks |-> "idle"]
        BY <4>3
      <4> QED
        BY <2>2, <4>1, <4>2, <4>3
          DEF Next, vars, tasks, Tasks, IgnoreAggregate, PublishOrder, PublishManualOrder,
              PostPortfolio, UpdatePortfolio, PostReset, HandleRegimeChanged,
              PublishOrderFails, SaveLands, SaveFails, PublishAlert, PublishAlertFails,
              IssueSave, EndTask, Crash, NoTasks, Restart, RestartWithoutRedis, NextDay
    <3> QED
      BY <3>2
  <2> QED
    BY <2>1, <2>2
<1> QED
  BY <1>1, IInvHolds, PTL DEF Spec, NoOrderDuringHalt

\* The breaker of a living process changes only by an evaluation of the posted
\* book or by a human's reset.
LEMMA BreakerSteps ==
  ASSUME [Next]_vars, up, up'
  PROVE  \/ breaker' = breaker
         \/ \E p \in {portfolio'} : breaker' = Evaluate(breaker, p.dd, p.loss, today)
         \/ \E h \in Http : PostReset(h)
<1>1. CASE \/ \E h \in Http, m \in Pushes : PostPortfolio(h, m)
           \/ \E r \in Macro : HandleRegimeChanged(r)
  BY <1>1 DEF PostPortfolio, HandleRegimeChanged, UpdatePortfolio
<1>2. CASE \E h \in Http : PostReset(h)
  BY <1>2
<1>3. CASE \/ Restart \/ RestartWithoutRedis
           \/ \E stored \in BOOLEAN : Crash(stored)
  BY <1>3 DEF Restart, RestartWithoutRedis, Crash
<1>4. CASE UNCHANGED memory
  BY <1>4 DEF memory
<1>5. CASE UNCHANGED breaker
  BY <1>5
<1> QED
  BY <1>1, <1>2, <1>3, <1>4, <1>5
    DEF Next, vars, memory, IgnoreAggregate, OrderAggregate, PublishOrder,
        PublishManualOrder, PostSignal, PublishOrderFails, SaveLands, SaveFails,
        PublishAlert, PublishAlertFails, NextDay

\* An evaluation of the posted book keeps today's halt and any latch.
LEMMA EvaluationKeeps ==
  ASSUME IInv, portfolio' \in Portfolios, NEW p \in {portfolio'},
         breaker' = Evaluate(breaker, p.dd, p.loss, today)
  PROVE  /\ breaker.halted = today => IsTripped(breaker')
         /\ breaker.latched => breaker'.latched
<1> DEFINE e == Evaluate(breaker, p.dd, p.loss, today)
<1>1. /\ breaker \in Breakers /\ breaker.halted <= today /\ today \in Nat \ {0}
      /\ p.dd \in Nat /\ p.loss \in Nat
  BY DEF IInv, TypeOK, MemoryTyped, HaltsNotAhead, Portfolios
<1>2. /\ e.halted = today => IsTripped(e)
      /\ breaker.halted = today => e.halted = today
      /\ breaker.latched => e.latched
  BY <1>1, EvaluateShowsRule
<1> QED
  BY <1>2

\* "UNTIL NEXT DAY": no metric, regime change or reset lifts a RED in its own
\* session, however the handlers interleave.
THEOREM RedHolds == Spec => RedHoldsForSession
<1> DEFINE Halted == up /\ up' /\ today' = today /\ breaker.halted = today
<1>1. IInv /\ [Next]_vars => [Halted => IsTripped(breaker')]_vars
  <2> SUFFICES ASSUME IInv, [Next]_vars, Halted
               PROVE  IsTripped(breaker')
    OBVIOUS
  <2> USE DEF IInv, TypeOK, MemoryTyped
  <2>1. portfolio' \in Portfolios
    BY NextIInv
  <2>2. CASE breaker' = breaker
    BY <2>2 DEF LevelShowsRule
  <2>3. CASE \E p \in {portfolio'} : breaker' = Evaluate(breaker, p.dd, p.loss, today)
    BY <2>1, <2>3, EvaluationKeeps
  <2>4. CASE \E h \in Http : PostReset(h)
    <3> DEFINE c == [breaker EXCEPT !.latched = FALSE]
    <3>1. breaker' = Evaluate(c, portfolio.dd, portfolio.loss, today)
      BY <2>4 DEF PostReset, Reset
    <3>2. c \in Breakers /\ c.halted = today
      BY DEF Breakers
    <3> HIDE DEF c
    <3> QED
      BY <3>1, <3>2, EvaluateShowsRule DEF Portfolios
  <2> QED
    BY <2>2, <2>3, <2>4, BreakerSteps
<1> QED
  BY <1>1, IInvHolds, PTL DEF Spec, RedHoldsForSession

\* "REQUIRE HUMAN RESTART": within a process, only an accepted reset of a book
\* back inside the flatten threshold takes the latch away.
THEOREM BlackIsHumanOnly == Spec => BlackNeedsReset
<1> DEFINE Cleared == up /\ up' /\ breaker.latched /\ ~breaker'.latched
           ByHuman == portfolio.dd < DrawdownFlatten /\ \E h \in Http : PostReset(h)
<1>1. IInv /\ [Next]_vars => [Cleared => ByHuman]_vars
  <2> SUFFICES ASSUME IInv, [Next]_vars, Cleared
               PROVE  ByHuman
    OBVIOUS
  <2> USE DEF IInv, TypeOK, MemoryTyped
  <2>1. portfolio' \in Portfolios
    BY NextIInv
  <2>2. \E h \in Http : PostReset(h)
    BY <2>1, BreakerSteps, EvaluationKeeps
  <2> QED
    BY <2>2 DEF PostReset, ResetAccepted
<1> QED
  BY <1>1, IInvHolds, PTL DEF Spec, BlackNeedsReset

-----------------------------------------------------------------------------
(* What a step may do to the breaker and to the saves on their way         *)

\* The state the snapshots and the record depend on.
recorded == <<up, today, breaker, portfolio, persistent, redis, snap, behind,
              dirty, acked, owed>>

\* Task t has issued a save of the breaker as it now is.
Issued(t) ==
  /\ up /\ t \in Tasks /\ t \notin Saving
  /\ Saving' = Saving \union {t}
  /\ \E s : s.breaker = Latch(breaker') /\ snap' = [snap EXCEPT ![t] = s]
  /\ behind' = [behind EXCEPT ![t] = Saving]
  /\ dirty' = FALSE
  /\ UNCHANGED <<up, today, persistent, redis, owed>>

\* A breaker only an evaluation has touched, or a human's reset.
Moved ==
  /\ breaker.halted <= breaker'.halted
  /\ \/ (breaker.latched => breaker'.latched) /\ acked' = acked
     \/ acked' = TRUE

\* A save that is issued finds its task not saving, and every other save ahead.
LEMMA IssueSaveIssues ==
  ASSUME IInv, NEW t \in Tasks, pc[t] # "saving", up,
         NEW p \in Portfolios, NEW l \in SUBSET Keys, NEW level,
         IssueSave(t, p, l, breaker', level),
         UNCHANGED <<up, today, persistent, redis, owed>>
  PROVE  Issued(t)
<1>1. pc' = [pc EXCEPT ![t] = "saving"] /\ pc \in [Tasks -> PCs]
  BY DEF IssueSave, IInv, TypeOK, TasksTyped
<1>2. t \notin Saving /\ Saving' = Saving \union {t}
  BY <1>1 DEF Saving
<1>3. {u \in Tasks \ {t} : pc[u] = "saving"} = Saving
  BY DEF Saving
<1> DEFINE s == [portfolio |-> p, orders |-> l, breaker |-> Latch(breaker')]
<1>4. s.breaker = Latch(breaker') /\ snap' = [snap EXCEPT ![t] = s]
  BY DEF IssueSave
<1> HIDE DEF s
<1> QED
  BY <1>2, <1>3, <1>4 DEF IssueSave, Issued

\* Every step of the service, by what it does to the record.
LEMMA StepKinds ==
  ASSUME IInv, [Next]_vars
  PROVE  \/ UNCHANGED recorded /\ Saving' = Saving
         \/ \E t \in Tasks : Issued(t) /\ Moved
         \/ \E t \in Tasks : SaveLands(t) \/ SaveFails(t)
         \/ \E stored \in BOOLEAN : Crash(stored)
         \/ Restart \/ RestartWithoutRedis
         \/ NextDay
<1> USE DEF IInv, TypeOK
<1>1. pc \in [Tasks -> PCs]
  BY DEF TasksTyped
<1>2. /\ breaker \in Breakers /\ portfolio \in Portfolios /\ ledger \in SUBSET Keys
      /\ today \in Nat \ {0} /\ breaker.halted <= today
  BY DEF MemoryTyped, HaltsNotAhead
<1>3. CASE UNCHANGED vars
  BY <1>3 DEF vars, recorded, memory, tasks, history, Saving
<1>4. CASE \/ \E m \in Msgs : IgnoreAggregate(m) \/ OrderAggregate(m)
           \/ \E h \in Http, m \in Msgs : PostSignal(h, m)
  <2>1. UNCHANGED recorded
    BY <1>4 DEF IgnoreAggregate, OrderAggregate, PostSignal, recorded, memory, tasks, history
  <2>2. Saving' = Saving
    BY <1>1, <1>4 DEF IgnoreAggregate, OrderAggregate, PostSignal, tasks, Saving,
                      Deliver, Running
  <2> QED
    BY <2>1, <2>2
<1>5. CASE \/ \E h \in Http : PublishManualOrder(h)
           \/ \E t \in Tasks, stored \in BOOLEAN : PublishOrderFails(t, stored)
           \/ \E t \in Tasks : PublishAlert(t) \/ PublishAlertFails(t)
  <2>1. UNCHANGED recorded
    BY <1>5 DEF PublishManualOrder, PublishOrderFails, PublishAlert, PublishAlertFails,
                recorded, memory, history
  <2>2. PICK t \in Tasks : pc[t] # "saving" /\ EndTask(t)
    BY <1>5 DEF PublishManualOrder, PublishOrderFails, PublishAlert, PublishAlertFails, Tasks
  <2>3. Saving' = Saving
    BY <1>1, <2>2 DEF EndTask, Saving
  <2> QED
    BY <2>1, <2>3
<1>6. CASE PublishOrder
  <2> PICK k \in CurrentKeys :
         IssueSave(Agg, portfolio, Record(ledger, k), breaker, "NONE")
    BY <1>6 DEF PublishOrder
  <2>1. k \in Keys /\ Agg \in Tasks
    BY DEF CurrentKeys, Keys, InboxTyped, Tasks
  <2>2. Record(ledger, k) \in SUBSET Keys
    BY <1>2, <2>1, RecordTyped
  <2>3. UNCHANGED <<up, today, breaker, persistent, redis, owed, acked>>
        /\ up /\ pc[Agg] # "saving"
    BY <1>6 DEF PublishOrder
  <2>4. Issued(Agg)
    BY <1>2, <2>1, <2>2, <2>3, IssueSaveIssues
  <2>5. Moved
    BY <1>2, <2>3 DEF Moved, Breakers
  <2> QED
    BY <2>1, <2>4, <2>5
<1>7. ASSUME NEW t \in Tasks, NEW p \in Portfolios, UpdatePortfolio(t, p)
      PROVE  Issued(t) /\ Moved
  <2> DEFINE b == Evaluate(breaker, p.dd, p.loss, today)
  <2>1. /\ breaker' = b /\ IssueSave(t, p, ledger, breaker', AlertFor(breaker, b))
        /\ UNCHANGED <<up, today, persistent, redis, owed, acked>>
        /\ up /\ pc[t] # "saving"
    BY <1>7 DEF UpdatePortfolio, Running
  <2>2. p.dd \in Nat /\ p.loss \in Nat
    BY DEF Portfolios
  <2>3. breaker.latched => b.latched
    BY <1>2, <2>2, EvaluateShowsRule
  <2>4. breaker.halted <= b.halted
    BY <1>2 DEF Evaluate, Breakers
  <2> QED
    BY <1>2, <2>1, <2>3, <2>4, IssueSaveIssues DEF Moved
<1>8. CASE \/ \E h \in Http, m \in Pushes : PostPortfolio(h, m)
           \/ \E r \in Macro : HandleRegimeChanged(r)
  <2>1. PICK t \in Tasks, p \in Portfolios : UpdatePortfolio(t, p)
    <3>1. ASSUME NEW h \in Http, NEW m \in Pushes, PostPortfolio(h, m)
          PROVE  \E t \in Tasks, p \in Portfolios : UpdatePortfolio(t, p)
      <4> DEFINE p == [value |-> m.value, exposure |-> m.exposure, dd |-> m.dd,
                       loss |-> m.loss, regime |-> portfolio.regime]
      <4>1. p \in Portfolios /\ h \in Tasks
        BY <1>2, RiskAssumption DEF Metrics, Portfolios, Tasks
      <4> QED
        BY <3>1, <4>1 DEF PostPortfolio
    <3>2. ASSUME NEW r \in Macro, HandleRegimeChanged(r)
          PROVE  \E t \in Tasks, p \in Portfolios : UpdatePortfolio(t, p)
      <4>1. [portfolio EXCEPT !.regime = r] \in Portfolios /\ Reg \in Tasks
        BY <1>2, RiskAssumption DEF Portfolios, Tasks
      <4> QED
        BY <3>2, <4>1 DEF HandleRegimeChanged
    <3> QED
      BY <1>8, <3>1, <3>2
  <2> QED
    BY <2>1, <1>7
<1>9. CASE \E h \in Http : PostReset(h)
  <2> PICK h \in Http : PostReset(h)
    BY <1>9
  <2> DEFINE c == [breaker EXCEPT !.latched = FALSE]
             b == Evaluate(c, portfolio.dd, portfolio.loss, today)
  <2>1. /\ breaker' = b /\ IssueSave(h, portfolio, ledger, breaker', "NONE")
        /\ UNCHANGED <<up, today, persistent, redis, owed>> /\ acked' = TRUE
        /\ up /\ pc[h] # "saving"
    BY DEF PostReset, Running, Reset
  <2>2. h \in Tasks
    BY DEF Tasks
  <2>3. breaker.halted <= b.halted
    BY <1>2 DEF Evaluate, Breakers
  <2> QED
    BY <1>2, <2>1, <2>2, <2>3, IssueSaveIssues DEF Moved
<1> QED
  BY <1>3, <1>4, <1>5, <1>6, <1>8, <1>9 DEF Next

-----------------------------------------------------------------------------
(* The saves on their way, in order                                        *)

\* No task of a dead process holds anything.
DeadIsIdle == ~up => Saving = {}

\* Of two saves on their way one is ahead, and only such saves are ahead.
InLine ==
  /\ \A t \in Tasks : behind[t] \subseteq Saving
  /\ \A t, u \in Saving : t = u \/ t \in behind[u] \/ u \in behind[t]

\* From the record over the saves in line to the breaker, a halted session
\* never moves back.
RedMovesOn ==
  /\ StoredRed <= breaker.halted
  /\ \A t \in Saving : StoredRed <= snap[t].breaker.halted
                       /\ snap[t].breaker.halted <= breaker.halted
  /\ \A t, u \in Saving :
       u \in behind[t] => snap[u].breaker.halted <= snap[t].breaker.halted

\* Along the same line a latch goes only with an accepted reset.
NoResetUnderWay ==
  \A u \in Saving : snap[u].breaker.latched =>
    /\ breaker.latched
    /\ \A v \in Saving : u \in behind[v] => snap[v].breaker.latched
RecordKept == StoredBlack => breaker.latched /\ \A t \in Saving : snap[t].breaker.latched
BlackStays == acked \/ (NoResetUnderWay /\ RecordKept)

LineInv ==
  /\ DeadIsIdle /\ InLine
  /\ up /\ persistent => RedMovesOn /\ BlackStays

\* What is stored is one snapshot; its halts are typed.
LEMMA StoredTyped ==
  ASSUME MemoryTyped
  PROVE  /\ StoredRed \in Nat
         /\ \A s \in redis : /\ StoredRed = s.breaker.halted
                             /\ StoredBlack <=> s.breaker.latched
                             /\ s.breaker \in Latches /\ s.portfolio \in Portfolios
         /\ redis = {} => StoredRed = 0 /\ ~StoredBlack
<1>1. ASSUME NEW s \in redis
      PROVE  /\ (CHOOSE r \in redis : TRUE) = s
             /\ s.breaker \in Latches /\ s.portfolio \in Portfolios
  <2>1. (CHOOSE r \in redis : TRUE) \in redis
    OBVIOUS
  <2> QED
    BY <2>1 DEF MemoryTyped, Snapshots
<1>2. CASE redis = {}
  BY <1>2 DEF StoredRed, StoredBlack, NoSession
<1>3. CASE redis # {}
  <2> PICK s \in redis : TRUE
    BY <1>3
  <2>1. StoredRed = s.breaker.halted
    BY <1>1, <1>3 DEF StoredRed
  <2> QED
    BY <1>1, <1>3, <2>1 DEF MemoryTyped, StoredBlack, Latches
<1> QED
  BY <1>2, <1>3

\* The service starts with no save on its way and no halt.
LEMMA LineInit == Init => LineInv
<1> SUFFICES ASSUME Init PROVE LineInv
  OBVIOUS
<1>1. Saving = {}
  BY DEF Init, Saving
<1>2. RedMovesOn /\ BlackStays
  BY <1>1, FreshTyped DEF Init, RedMovesOn, BlackStays, NoResetUnderWay, RecordKept,
     StoredRed, StoredBlack, NoSession
<1>3. InLine
  BY <1>1 DEF Init, InLine
<1> QED
  BY <1>1, <1>2, <1>3 DEF LineInv, DeadIsIdle

\* A save joins the end of the line.
LEMMA LineIssued ==
  ASSUME IInv, LineInv, NEW t \in Tasks, Issued(t), Moved, breaker' \in Breakers
  PROVE  LineInv'
<1> USE DEF IInv, TypeOK
<1>1. PICK x : x.breaker = Latch(breaker') /\ snap' = [snap EXCEPT ![t] = x]
  BY DEF Issued
<1>2. /\ up /\ t \notin Saving /\ Saving' = Saving \union {t}
      /\ behind' = [behind EXCEPT ![t] = Saving]
      /\ UNCHANGED <<up, today, persistent, redis>>
      /\ Saving \subseteq Tasks
  BY DEF Issued, Saving
<1>3. /\ behind'[t] = Saving /\ \A u \in Tasks : u # t => behind'[u] = behind[u]
      /\ snap'[t].breaker = Latch(breaker')
      /\ \A u \in Tasks : u # t => snap'[u] = snap[u]
  BY <1>1, <1>2 DEF TasksTyped
<1>4. DeadIsIdle' /\ InLine'
  <2>1. \A u \in Tasks : t \notin behind[u]
    BY <1>2 DEF LineInv, InLine
  <2> QED
    BY <1>2, <1>3, <2>1 DEF LineInv, InLine, DeadIsIdle
<1>5. snap'[t].breaker.halted = breaker'.halted /\ snap'[t].breaker.latched = breaker'.latched
  BY <1>3 DEF Latch
<1>6. StoredRed' = StoredRed /\ StoredBlack' = StoredBlack
  BY <1>2 DEF StoredRed, StoredBlack
<1>7. \A u \in Saving : t \notin behind[u] /\ u # t
  BY <1>2 DEF LineInv, InLine
<1>8. ASSUME up', persistent' PROVE RedMovesOn' /\ BlackStays'
  <2>1. RedMovesOn /\ BlackStays
    BY <1>2, <1>8 DEF LineInv
  <2>2. /\ StoredRed \in Nat /\ breaker.halted \in Nat /\ breaker'.halted \in Nat
        /\ \A u \in Tasks : snap[u].breaker.halted \in Nat
    <3>1. StoredRed \in Nat
      BY StoredTyped
    <3>2. \A u \in Tasks : snap[u] \in Snapshots
      BY DEF TasksTyped
    <3> QED
      BY <3>1, <3>2 DEF MemoryTyped, Breakers, Snapshots, Latches
  <2>3. RedMovesOn'
    BY <1>2, <1>3, <1>5, <1>6, <1>7, <2>1, <2>2 DEF RedMovesOn, Moved
  <2>4. CASE acked'
    BY <2>3, <2>4 DEF BlackStays
  <2>5. CASE ~acked'
    <3>1. (breaker.latched => breaker'.latched) /\ NoResetUnderWay /\ RecordKept
      BY <2>1, <2>5 DEF Moved, BlackStays
    <3>2. NoResetUnderWay'
      BY <3>1, <1>2, <1>3, <1>5, <1>7 DEF NoResetUnderWay
    <3>3. RecordKept'
      BY <3>1, <1>2, <1>3, <1>5, <1>6, <1>7 DEF RecordKept
    <3> QED
      BY <2>3, <3>2, <3>3 DEF BlackStays
  <2> QED
    BY <2>3, <2>4, <2>5
<1> QED
  BY <1>4, <1>8 DEF LineInv

\* A save leaves the line: at its head if it lands, anywhere if it fails.
LEMMA LineEnded ==
  ASSUME FifoSaves, IInv, LineInv, NEW t \in Tasks, SaveLands(t) \/ SaveFails(t)
  PROVE  LineInv'
<1> USE DEF IInv, TypeOK
<1>1. /\ up /\ t \in Saving /\ EndSave(t)
      /\ UNCHANGED <<up, today, breaker, persistent>>
  BY DEF SaveLands, SaveFails, Saving, memory
<1>2. Saving' = Saving \ {t} /\ Saving \subseteq Tasks
  <2>1. \/ pc' = [pc EXCEPT ![t] = "idle"]
        \/ pc' = [pc EXCEPT ![t] = "alerting"]
    BY DEF SaveLands, SaveFails, EndTask
  <2> QED
    BY <2>1 DEF Saving, TasksTyped
<1>3. /\ \A u \in Tasks : behind'[u] \subseteq behind[u] \ {t}
      /\ \A u \in Tasks : u # t => behind'[u] = behind[u] \ {t} /\ snap'[u] = snap[u]
  BY <1>1 DEF EndSave, TasksTyped
<1>4. DeadIsIdle' /\ InLine'
  BY <1>1, <1>2, <1>3 DEF LineInv, InLine, DeadIsIdle
<1>5. ASSUME up', persistent' PROVE RedMovesOn' /\ BlackStays'
  <2>1. RedMovesOn /\ BlackStays /\ persistent
    BY <1>1, <1>5 DEF LineInv
  <2>2. \A u, v \in Saving' : u \in behind'[v] => u \in behind[v]
    BY <1>2, <1>3
  <2>3. CASE SaveFails(t)
    <3>1. UNCHANGED <<redis, acked>>
      BY <2>3 DEF SaveFails
    <3>2. StoredRed' = StoredRed /\ StoredBlack' = StoredBlack
      BY <3>1 DEF StoredRed, StoredBlack
    <3>3. RedMovesOn'
      BY <1>1, <1>2, <1>3, <2>1, <2>2, <3>2 DEF RedMovesOn
    <3>4. BlackStays'
      BY <1>1, <1>2, <1>3, <2>1, <2>2, <3>1, <3>2
        DEF BlackStays, NoResetUnderWay, RecordKept
    <3> QED
      BY <3>3, <3>4
  <2>4. CASE SaveLands(t)
    <3>1. redis' = {snap[t]} /\ behind[t] = {} /\ snap[t] \in Snapshots
      BY <2>1, <2>4 DEF SaveLands, Stored, TasksTyped
    <3>2. /\ StoredRed' = snap[t].breaker.halted
          /\ StoredBlack' <=> snap[t].breaker.latched
      <4>1. (CHOOSE s \in {snap[t]} : TRUE) = snap[t]
        OBVIOUS
      <4>2. StoredBlack' <=> snap[t].breaker.latched
        BY <3>1 DEF StoredBlack
      <4>3. StoredRed' = (CHOOSE s \in {snap[t]} : TRUE).breaker.halted
        BY <3>1 DEF StoredRed
      <4> QED
        BY <4>1, <4>2, <4>3
    <3>3. \A u \in Saving' : t \in behind[u] /\ u # t
      BY <1>1, <1>2, <3>1 DEF LineInv, InLine
    <3>4. RedMovesOn'
      BY <1>1, <1>2, <1>3, <2>1, <2>2, <3>2, <3>3 DEF RedMovesOn
    <3>5. BlackStays'
      <4>1. CASE acked'
        BY <4>1 DEF BlackStays
      <4>2. CASE ~acked'
        <5>1. NoResetUnderWay
          <6>1. CASE ~acked
            BY <6>1, <2>1 DEF BlackStays
          <6>2. CASE acked
            <7>1. ~ResetUnderWay
              BY <2>1, <2>4, <4>2, <6>2 DEF SaveLands
            <7> QED
              BY <7>1 DEF ResetUnderWay, NoResetUnderWay
          <6> QED
            BY <6>1, <6>2
        <5>2. NoResetUnderWay'
          BY <1>1, <1>2, <1>3, <2>2, <5>1 DEF NoResetUnderWay
        <5>3. RecordKept'
          BY <1>1, <1>2, <1>3, <3>2, <3>3, <5>1 DEF NoResetUnderWay, RecordKept
        <5> QED
          BY <5>2, <5>3 DEF BlackStays
      <4> QED
        BY <4>1, <4>2
    <3> QED
      BY <3>4, <3>5
  <2> QED
    BY <2>3, <2>4
<1> QED
  BY <1>4, <1>5 DEF LineInv

\* What a restart evaluates from a snapshot keeps the halts of the snapshot.
LEMMA RestoredKeeps ==
  ASSUME IInv, NEW s \in redis,
         breaker' = Evaluate(RestoreLatch(FreshBreaker, s.breaker),
                             s.portfolio.dd, s.portfolio.loss, today)
  PROVE  /\ s.breaker.latched \/ s.portfolio.dd >= DrawdownFlatten <=> breaker'.latched
         /\ breaker'.level = "BLACK" <=> breaker'.latched
         /\ s.breaker.halted <= breaker'.halted
         /\ breaker'.halted = today <=>
              s.breaker.halted = today \/ s.portfolio.loss >= DailyLossHalt
         /\ breaker'.halted = today => IsTripped(breaker')
<1> USE DEF IInv, TypeOK
<1> DEFINE r == RestoreLatch(FreshBreaker, s.breaker)
           e == Evaluate(r, s.portfolio.dd, s.portfolio.loss, today)
<1>1. /\ s.breaker \in Latches /\ s.breaker.halted <= today /\ today \in Nat \ {0}
      /\ s.portfolio.dd \in Nat /\ s.portfolio.loss \in Nat
  BY StoredTyped DEF MemoryTyped, HaltsNotAhead, Portfolios
<1>2. /\ r \in Breakers /\ (r.latched <=> s.breaker.latched)
      /\ r.halted = s.breaker.halted
  BY <1>1, FreshTyped DEF RestoreLatch, Latches, Breakers
<1> HIDE DEF r
<1>3. e.latched <=> r.latched \/ s.portfolio.dd >= DrawdownFlatten
  BY DEF Evaluate
<1>4. e.halted = IF s.portfolio.loss >= DailyLossHalt THEN today ELSE r.halted
  BY DEF Evaluate
<1>5. /\ e.level = "BLACK" <=> e.latched
      /\ e.halted = today => IsTripped(e)
  BY <1>1, <1>2, EvaluateShowsRule
<1>6. breaker' = e
  BY DEF r
<1> HIDE DEF e
<1>7. s.breaker.halted \in Nat
  BY <1>1 DEF Latches
<1>8. e.latched <=> s.breaker.latched \/ s.portfolio.dd >= DrawdownFlatten
  BY <1>2, <1>3
<1>9. /\ s.breaker.halted <= e.halted
      /\ e.halted = today <=> s.breaker.halted = today \/ s.portfolio.loss >= DailyLossHalt
  BY <1>1, <1>2, <1>4, <1>7
<1> QED
  BY <1>5, <1>6, <1>8, <1>9

\* A restart brings back the record, and finds no save on its way.
LEMMA LineRestarted ==
  ASSUME IInv, LineInv, Restart \/ RestartWithoutRedis
  PROVE  LineInv'
<1>1. ~up /\ UNCHANGED <<today, redis, tasks, acked>>
  BY DEF Restart, RestartWithoutRedis, inbox
<1>2. Saving' = Saving /\ Saving = {}
  BY <1>1 DEF LineInv, DeadIsIdle, Saving, tasks
<1>3. DeadIsIdle' /\ InLine'
  BY <1>1, <1>2 DEF LineInv, DeadIsIdle, InLine, tasks
<1>4. ASSUME persistent', up' PROVE RedMovesOn' /\ BlackStays'
  <2>1. StoredRed' = StoredRed /\ StoredBlack' = StoredBlack
    BY <1>1 DEF StoredRed, StoredBlack
  <2>2. Restart
    BY <1>4 DEF RestartWithoutRedis
  <2>3. MemoryTyped
    BY DEF IInv, TypeOK
  <2>4. StoredRed <= breaker'.halted /\ (StoredBlack => breaker'.latched)
    <3>1. CASE redis = {} /\ StartFresh
      BY <3>1, <2>3, StoredTyped, FreshTyped DEF StartFresh
    <3>2. CASE ~(redis = {} /\ StartFresh)
      <4> PICK s \in redis :
            breaker' = Evaluate(RestoreLatch(FreshBreaker, s.breaker),
                                s.portfolio.dd, s.portfolio.loss, today)
        BY <2>2, <3>2 DEF Restart
      <4>1. s.breaker.halted <= breaker'.halted /\ (s.breaker.latched => breaker'.latched)
        BY RestoredKeeps
      <4> QED
        BY <2>3, <4>1, StoredTyped
    <3> QED
      BY <3>1, <3>2
  <2> QED
    BY <1>2, <2>1, <2>4 DEF RedMovesOn, BlackStays, NoResetUnderWay, RecordKept
<1> QED
  BY <1>3, <1>4 DEF LineInv

\* Every step keeps the line in order.
LEMMA LineNext == FifoSaves /\ IInv /\ LineInv /\ [Next]_vars => LineInv'
<1> SUFFICES ASSUME FifoSaves, IInv, LineInv, [Next]_vars PROVE LineInv'
  OBVIOUS
<1>1. CASE UNCHANGED recorded /\ Saving' = Saving
  BY <1>1 DEF recorded, LineInv, DeadIsIdle, InLine, RedMovesOn, BlackStays,
              NoResetUnderWay, RecordKept, StoredRed, StoredBlack
<1>2. CASE \E t \in Tasks : Issued(t) /\ Moved
  <2>1. breaker' \in Breakers
    BY NextIInv DEF IInv, TypeOK, MemoryTyped
  <2> QED
    BY <1>2, <2>1, LineIssued
<1>3. CASE \E t \in Tasks : SaveLands(t) \/ SaveFails(t)
  BY <1>3, LineEnded
<1>4. CASE \E stored \in BOOLEAN : Crash(stored)
  <2>1. ~up' /\ NoTasks
    BY <1>4 DEF Crash
  <2>2. Saving' = {}
    BY <2>1 DEF NoTasks, Saving
  <2> QED
    BY <2>1, <2>2 DEF NoTasks, LineInv, DeadIsIdle, InLine
<1>5. CASE Restart \/ RestartWithoutRedis
  BY <1>5, LineRestarted
<1>6. CASE NextDay
  BY <1>6 DEF NextDay, memory, tasks, history, Saving, LineInv, DeadIsIdle, InLine,
              RedMovesOn, BlackStays, NoResetUnderWay, RecordKept, StoredRed, StoredBlack
<1> QED
  BY <1>1, <1>2, <1>3, <1>4, <1>5, <1>6, StepKinds

-----------------------------------------------------------------------------
(* What a restart owes                                                     *)

\* The evaluation of stored snapshot s brings back the halts l, as of today.
Covers(s, l) ==
  /\ l.latched => s.breaker.latched \/ s.portfolio.dd >= DrawdownFlatten
  /\ l.halted = today => s.breaker.halted = today \/ s.portfolio.loss >= DailyLossHalt

RedisCovers(l) == (~l.latched /\ l.halted # today) \/ \E s \in redis : Covers(s, l)

\* Unless the last save failed, the halts of a living process are covered by the
\* record or will be by the last save in line.
LastSaveCovers ==
  \/ Saving = {} /\ RedisCovers(Latch(breaker))
  \/ \E t \in Saving : /\ snap[t].breaker = Latch(breaker)
                       /\ \A u \in Saving : u = t \/ u \in behind[t]

OwedInv ==
  /\ up /\ persistent /\ ~dirty => LastSaveCovers
  /\ ~up => RedisCovers(owed)
  /\ owed.halted <= today

\* The service starts owing nothing.
LEMMA OwedInit == Init => OwedInv
<1> SUFFICES ASSUME Init PROVE OwedInv
  OBVIOUS
<1>1. Saving = {}
  BY DEF Init, Saving
<1>2. /\ ~Latch(FreshBreaker).latched /\ Latch(FreshBreaker).halted = 0
  BY FreshTyped DEF Latch
<1> QED
  BY <1>1, <1>2 DEF Init, OwedInv, LastSaveCovers, RedisCovers

\* A restart that reaches Redis holds what the record covers.
LEMMA RestartCovers ==
  ASSUME IInv, Restart, NEW l, RedisCovers(l)
  PROVE  /\ l.latched => breaker'.level = "BLACK"
         /\ l.halted = today => IsTripped(breaker')
         /\ RedisCovers(Latch(breaker'))
<1>1. CASE redis = {} /\ StartFresh
  BY <1>1, FreshTyped DEF RedisCovers, StartFresh, Latch, IInv, TypeOK, MemoryTyped
<1>2. CASE ~(redis = {} /\ StartFresh)
  <2> PICK s \in redis :
        breaker' = Evaluate(RestoreLatch(FreshBreaker, s.breaker),
                            s.portfolio.dd, s.portfolio.loss, today)
    BY <1>2 DEF Restart
  <2>1. /\ s.breaker.latched \/ s.portfolio.dd >= DrawdownFlatten <=> breaker'.latched
        /\ breaker'.level = "BLACK" <=> breaker'.latched
        /\ breaker'.halted = today <=>
             s.breaker.halted = today \/ s.portfolio.loss >= DailyLossHalt
        /\ breaker'.halted = today => IsTripped(breaker')
    BY RestoredKeeps
  <2>2. \A r \in redis : r = s
    BY DEF IInv, TypeOK, MemoryTyped
  <2>3. Covers(s, Latch(breaker'))
    BY <2>1 DEF Covers, Latch
  <2> QED
    BY <2>1, <2>2, <2>3 DEF RedisCovers, Covers
<1> QED
  BY <1>1, <1>2

\* Every step keeps what is owed covered by the record or the last save.
LEMMA OwedNext ==
  FifoSaves /\ IInv /\ LineInv /\ OwedInv /\ [Next]_vars => OwedInv'
<1> SUFFICES ASSUME FifoSaves, IInv, LineInv, OwedInv, [Next]_vars PROVE OwedInv'
  OBVIOUS
<1>1. CASE UNCHANGED recorded /\ Saving' = Saving
  BY <1>1 DEF recorded, OwedInv, LastSaveCovers, RedisCovers, Covers
<1>2. CASE \E t \in Tasks : Issued(t) /\ Moved
  <2> PICK t \in Tasks : Issued(t)
    BY <1>2
  <2>1. /\ up /\ UNCHANGED <<up, today, persistent, redis, owed>>
        /\ Saving' = Saving \union {t}
    BY DEF Issued
  <2>2. snap'[t].breaker = Latch(breaker') /\ behind'[t] = Saving
    <3> PICK s : s.breaker = Latch(breaker') /\ snap' = [snap EXCEPT ![t] = s]
      BY DEF Issued
    <3> QED
      BY DEF Issued, IInv, TypeOK, TasksTyped
  <2>3. LastSaveCovers'
    BY <2>1, <2>2 DEF LastSaveCovers
  <2> QED
    BY <2>1, <2>3 DEF OwedInv
<1>3. CASE \E t \in Tasks : SaveLands(t)
  <2> PICK t \in Tasks : SaveLands(t)
    BY <1>3
  <2>1. /\ up /\ t \in Saving /\ EndSave(t) /\ behind[t] = {} /\ redis' = Stored(snap[t])
        /\ UNCHANGED <<up, today, breaker, persistent, dirty, owed>>
    BY DEF SaveLands, Saving, memory
  <2>2. Saving' = Saving \ {t} /\ Saving \subseteq Tasks
    <3>1. \/ pc' = [pc EXCEPT ![t] = "idle"]
          \/ pc' = [pc EXCEPT ![t] = "alerting"]
      BY DEF SaveLands, EndTask
    <3> QED
      BY <3>1 DEF Saving, IInv, TypeOK, TasksTyped
  <2>3. ASSUME persistent, ~dirty PROVE LastSaveCovers'
    <3> PICK w \in Saving : /\ snap[w].breaker = Latch(breaker)
                            /\ \A u \in Saving : u = w \/ u \in behind[w]
      BY <2>1, <2>3 DEF OwedInv, LastSaveCovers
    <3>1. CASE w = t
      <4> PICK x : x = snap[t]
        OBVIOUS
      <4>1. Saving' = {} /\ redis' = {x}
        BY <2>1, <2>2, <2>3, <3>1 DEF Stored
      <4>2. x.breaker = Latch(breaker)
        BY <3>1
      <4>3. /\ Latch(breaker)' = Latch(breaker) /\ today' = today
            /\ breaker' = breaker
        BY <2>1 DEF Latch
      <4>4. x.breaker = Latch(breaker')
        BY <4>2, <4>3
      <4>5. RedisCovers(Latch(breaker))'
        BY <4>1, <4>3, <4>4 DEF RedisCovers, Covers
      <4> QED
        BY <4>1, <4>5 DEF LastSaveCovers
    <3>2. CASE w # t
      <4>1. snap'[w] = snap[w] /\ behind'[w] = behind[w] \ {t} /\ w \in Saving'
        BY <2>1, <2>2, <3>2 DEF EndSave, IInv, TypeOK, TasksTyped
      <4> QED
        BY <2>1, <2>2, <4>1 DEF LastSaveCovers
    <3> QED
      BY <3>1, <3>2
  <2> QED
    BY <2>1, <2>3 DEF OwedInv
<1>4. CASE \E t \in Tasks : SaveFails(t)
  BY <1>4 DEF SaveFails, OwedInv
<1>5. CASE \E stored \in BOOLEAN : Crash(stored)
  <2>1. /\ up /\ ~up' /\ UNCHANGED <<today, redis>>
        /\ owed' = IF LatchStored THEN Latch(breaker) ELSE Latch(FreshBreaker)
    BY <1>5 DEF Crash
  <2>2. Latch(breaker).halted <= today /\ Latch(FreshBreaker).halted <= today
        /\ ~Latch(FreshBreaker).latched /\ Latch(FreshBreaker).halted # today
    BY FreshTyped DEF Latch, IInv, TypeOK, MemoryTyped, HaltsNotAhead
  <2>3. LatchStored => RedisCovers(Latch(breaker))
    BY <2>1 DEF LatchStored, OwedInv, LastSaveCovers
  <2>4. RedisCovers(owed')
    BY <2>1, <2>2, <2>3 DEF RedisCovers
  <2>5. RedisCovers(owed)'
    BY <2>1, <2>4 DEF RedisCovers, Covers
  <2> QED
    BY <2>1, <2>2, <2>5 DEF OwedInv
<1>6. CASE Restart
  <2>1. up' /\ UNCHANGED <<today, redis, owed, tasks>> /\ Saving' = Saving /\ Saving = {}
    BY <1>6 DEF Restart, LineInv, DeadIsIdle, tasks, Saving
  <2>2. RedisCovers(Latch(breaker'))
    BY <1>6, RestartCovers DEF Restart, OwedInv
  <2>3. RedisCovers(Latch(breaker))'
    BY <2>1, <2>2 DEF RedisCovers, Covers
  <2> QED
    BY <2>1, <2>3 DEF OwedInv, LastSaveCovers
<1>7. CASE RestartWithoutRedis
  BY <1>7 DEF RestartWithoutRedis, OwedInv
<1>8. CASE NextDay
  <2>1. /\ today' = today + 1 /\ Saving' = Saving
        /\ UNCHANGED <<up, breaker, persistent, redis, snap, behind, dirty, owed>>
    BY <1>8 DEF NextDay, memory, tasks, history, Saving
  <2>2. /\ today \in Nat /\ breaker.halted \in Nat /\ owed.halted \in Nat
        /\ breaker.halted <= today
    BY DEF IInv, TypeOK, MemoryTyped, HistoryTyped, HaltsNotAhead, Breakers, Latches
  <2>3. ASSUME NEW l, l.halted \in Nat, l.halted <= today, RedisCovers(l)
        PROVE  RedisCovers(l)'
    BY <2>1, <2>2, <2>3 DEF RedisCovers, Covers
  <2>4. Latch(breaker)' = Latch(breaker) /\ Latch(breaker).halted = breaker.halted
    BY <2>1 DEF Latch
  <2>5. LastSaveCovers => LastSaveCovers'
    BY <2>1, <2>2, <2>3, <2>4 DEF LastSaveCovers
  <2>6. RedisCovers(owed) => RedisCovers(owed)'
    BY <2>1, <2>2, <2>3 DEF OwedInv
  <2> QED
    BY <2>1, <2>2, <2>5, <2>6 DEF OwedInv
<1> QED
  BY <1>1, <1>2, <1>3, <1>4, <1>5, <1>6, <1>7, <1>8, StepKinds

-----------------------------------------------------------------------------
(* The ledger and its copies                                               *)

\* The keys an order was published for.
Published == {k \in Keys : orders[k] > 0}

\* The ledger, its stored copy and every copy on its way name only those.
LedgersPublished ==
  /\ ledger \subseteq Published
  /\ \A s \in redis : s.orders \subseteq Published
  /\ \A t \in Tasks : snap[t].orders \subseteq Published

\* No step takes back an order, and publishing counts the one in hand.
LEMMA PublishedGrows ==
  ASSUME IInv, [Next]_vars
  PROVE  Published \subseteq Published' /\ (PublishOrder => CurrentKeys \subseteq Published')
<1> USE DEF IInv, TypeOK, HistoryTyped
<1>1. orders \in [Keys -> Nat] /\ CurrentKeys \subseteq Keys
  BY DEF CurrentKeys, Keys, InboxTyped
<1>2. orders' = orders \/ orders' = CountOrder(orders)
  BY DEF Next, vars, history, placed, IgnoreAggregate, OrderAggregate, PublishOrder,
     PublishManualOrder, PostSignal, PostPortfolio, HandleRegimeChanged, UpdatePortfolio,
     PostReset, PublishOrderFails, SaveLands, SaveFails, PublishAlert, PublishAlertFails,
     Crash, Restart, RestartWithoutRedis, NextDay
<1>3. \A k \in Keys : orders'[k] >= orders[k] /\ orders'[k] \in Nat
  BY <1>1, <1>2, CountTyped
<1>4. ASSUME PublishOrder, NEW k \in CurrentKeys PROVE orders'[k] > 0
  BY <1>1, <1>4 DEF PublishOrder, CountOrder
<1> QED
  BY <1>1, <1>3, <1>4 DEF Published

\* Every step keeps the copies within what was published.
LEMMA LedgersNext == IInv /\ LedgersPublished /\ [Next]_vars => LedgersPublished'
<1> SUFFICES ASSUME IInv, LedgersPublished, [Next]_vars PROVE LedgersPublished'
  OBVIOUS
<1> USE DEF LedgersPublished
<1>1. Published \subseteq Published'
  BY PublishedGrows
<1>2. /\ snap \in [Tasks -> Snapshots] /\ ledger \in SUBSET Keys /\ redis \subseteq Snapshots
      /\ \A s \in Snapshots : s.orders \in SUBSET Keys
  BY DEF IInv, TypeOK, TasksTyped, MemoryTyped, Snapshots
<1>3. FreshSnapshot.orders = {}
  BY DEF FreshSnapshot
<1>4. CASE UNCHANGED <<ledger, redis, snap>>
  BY <1>1, <1>4
<1>5. ASSUME NEW t \in Tasks, NEW p, NEW l, l \subseteq Published', NEW b, NEW level,
             IssueSave(t, p, l, b, level), ledger' = l, UNCHANGED redis
      PROVE  LedgersPublished'
  <2>1. snap'[t].orders = l /\ \A u \in Tasks : u # t => snap'[u] = snap[u]
    BY <1>2, <1>5 DEF IssueSave
  <2> QED
    BY <1>1, <1>5, <2>1
<1>6. CASE PublishOrder
  <2> PICK k \in CurrentKeys :
        /\ ledger' = Record(ledger, k)
        /\ IssueSave(Agg, portfolio, Record(ledger, k), breaker, "NONE")
    BY <1>6 DEF PublishOrder
  <2>1. k \in Keys /\ k \in Published' /\ Agg \in Tasks /\ UNCHANGED redis
    BY <1>6, PublishedGrows DEF CurrentKeys, Keys, IInv, TypeOK, InboxTyped, Tasks, PublishOrder
  <2>2. Record(ledger, k) \subseteq ledger \union {k}
    BY <1>2, <2>1, RecordTyped
  <2>3. Record(ledger, k) \subseteq Published'
    BY <1>1, <2>1, <2>2
  <2> QED
    BY <1>5, <2>1, <2>3
<1>7. CASE \/ \E h \in Http, m \in Pushes : PostPortfolio(h, m)
           \/ \E r \in Macro : HandleRegimeChanged(r)
           \/ \E h \in Http : PostReset(h)
  <2>1. PICK t \in Tasks : \E p, b, level :
          IssueSave(t, p, ledger, b, level) /\ UNCHANGED <<ledger, redis>>
    BY <1>7, Zenon DEF PostPortfolio, HandleRegimeChanged, UpdatePortfolio, PostReset, Tasks
  <2> QED
    BY <1>1, <1>5, <2>1
<1>8. CASE \E t \in Tasks : SaveLands(t) \/ SaveFails(t)
  <2> PICK t \in Tasks : SaveLands(t) \/ SaveFails(t)
    BY <1>8
  <2>1. EndSave(t) /\ UNCHANGED ledger /\ redis' \subseteq redis \union {snap[t]}
    BY DEF SaveLands, SaveFails, Stored, memory
  <2>2. \A u \in Tasks : snap'[u] \in {snap[u], FreshSnapshot}
    BY <2>1, EndTyped DEF IInv, TypeOK
  <2> QED
    BY <1>1, <1>3, <2>1, <2>2
<1>9. CASE \E stored \in BOOLEAN : Crash(stored)
  BY <1>1, <1>3, <1>9 DEF Crash, StartFresh, NoTasks
<1>10. CASE Restart \/ RestartWithoutRedis
  <2>1. UNCHANGED <<redis, snap>>
    BY <1>10 DEF Restart, RestartWithoutRedis, tasks
  <2>2. ledger' = {} \/ \E s \in redis : ledger' = Prune(s.orders)
    BY <1>10 DEF Restart, RestartWithoutRedis, StartFresh
  <2>3. \A s \in redis : Prune(s.orders) \subseteq s.orders
    BY DEF Prune
  <2> QED
    BY <1>1, <2>1, <2>2, <2>3
<1> QED
  BY <1>4, <1>6, <1>7, <1>8, <1>9, <1>10
     DEF Next, vars, memory, tasks, IgnoreAggregate, OrderAggregate, PostSignal,
         PublishManualOrder, PublishOrderFails, PublishAlert, PublishAlertFails, NextDay

-----------------------------------------------------------------------------
(* Theorems                                                                *)

\* The ledger names only orders that were published, in memory and stored,
\* whichever publish or save fails and whenever the process dies: an aggregate
\* without an order is never taken for one that was acted on.
THEOREM LedgerIsOfPlaced == Spec => []LedgerOnlyOfPlaced
<1>1. Init => LedgersPublished
  BY DEF Init, LedgersPublished, FreshSnapshot
<1>2. LedgersPublished => LedgerOnlyOfPlaced
  BY DEF LedgersPublished, Published, LedgerOnlyOfPlaced
<1> QED
  BY <1>1, <1>2, LedgersNext, IInvHolds, PTL DEF Spec

\* If saves reach Redis in the order they were issued, every behaviour of the
\* service, with its failures, crashes and starts without Redis, is one of the
\* record: a stored BLACK goes only with a reset, a stored RED never moves back.
THEOREM RecordIsImplemented == FifoSaves => (Spec => HaltsStayOnRecord)
<1> SUFFICES ASSUME FifoSaves PROVE Spec => HaltsStayOnRecord
  OBVIOUS
<1>1. Init => OnRecord!Init
  BY FreshTyped DEF Init, OnRecord!Init, StoredBlack, StoredRed, NoSession
<1>2. IInv /\ LineInv /\ [Next]_vars => [OnRecord!Next]_(OnRecord!vars)
  <2> SUFFICES ASSUME IInv, LineInv, [Next]_vars
               PROVE  OnRecord!Next \/ UNCHANGED OnRecord!vars
    OBVIOUS
  <2>1. UNCHANGED redis => UNCHANGED <<StoredBlack, StoredRed>>
    BY DEF StoredBlack, StoredRed
  <2>2. CASE UNCHANGED <<redis, today, acked>>
    BY <2>1, <2>2 DEF OnRecord!vars
  <2>3. CASE \E t \in Tasks : Issued(t) /\ Moved
    <3>1. UNCHANGED <<today, redis>> /\ (acked' = acked \/ acked' = TRUE)
      BY <2>3 DEF Issued, Moved
    <3> QED
      BY <2>1, <2>2, <3>1 DEF OnRecord!Next, OnRecord!AcceptReset
  <2>4. CASE \E t \in Tasks : SaveLands(t)
    <3> PICK t \in Tasks : SaveLands(t)
      BY <2>4
    <3>1. /\ up /\ t \in Saving /\ behind[t] = {} /\ redis' = Stored(snap[t])
          /\ UNCHANGED <<today, persistent>>
          /\ acked' = (acked /\ (persistent => ResetUnderWay))
      BY DEF SaveLands, Saving, memory
    <3>2. acked \in BOOLEAN /\ snap[t] \in Snapshots /\ today \in Nat
          /\ StoredRed \in Nat /\ snap[t].breaker.halted <= today
      BY StoredTyped DEF IInv, TypeOK, HistoryTyped, TasksTyped, MemoryTyped, HaltsNotAhead
    <3>3. CASE ~persistent
      BY <2>2, <3>1, <3>2, <3>3 DEF Stored
    <3>4. CASE persistent
      <4>1. redis' = {snap[t]} /\ RedMovesOn /\ BlackStays
        BY <3>1, <3>4 DEF Stored, LineInv
      <4>2. StoredBlack' <=> snap[t].breaker.latched
        BY <4>1 DEF StoredBlack
      <4>3. StoredRed' = snap[t].breaker.halted
        <5>1. (CHOOSE s \in {snap[t]} : TRUE) = snap[t]
          OBVIOUS
        <5> QED
          BY <4>1, <5>1 DEF StoredRed
      <4>4. StoredBlack /\ ~StoredBlack' => acked
        BY <3>1, <4>1, <4>2 DEF BlackStays, RecordKept
      <4>5. StoredRed' \in StoredRed..today
        BY <3>1, <3>2, <4>1, <4>3 DEF RedMovesOn, Snapshots, Latches
      <4>6. StoredBlack' \in BOOLEAN /\ acked' \in BOOLEAN /\ (acked' => acked)
        BY <3>1 DEF StoredBlack
      <4> QED
        BY <3>1, <4>4, <4>5, <4>6 DEF OnRecord!Next, OnRecord!Store
    <3> QED
      BY <3>3, <3>4
  <2>5. CASE \E t \in Tasks : SaveFails(t)
    BY <2>2, <2>5 DEF SaveFails
  <2>6. CASE \E stored \in BOOLEAN : Crash(stored)
    BY <2>1, <2>6 DEF Crash, OnRecord!Next, OnRecord!Forget
  <2>7. CASE Restart \/ RestartWithoutRedis
    BY <2>2, <2>7 DEF Restart, RestartWithoutRedis
  <2>8. CASE NextDay
    BY <2>1, <2>8 DEF NextDay, history, OnRecord!Next, OnRecord!NextDay
  <2>9. CASE UNCHANGED recorded
    BY <2>2, <2>9 DEF recorded
  <2> QED
    BY <2>3, <2>4, <2>5, <2>6, <2>7, <2>8, <2>9, StepKinds
<1>3. IInv /\ LineInv /\ [Next]_vars => LineInv'
  BY LineNext
<1> QED
  BY <1>1, <1>2, <1>3, LineInit, IInvHolds, PTL DEF Spec, HaltsStayOnRecord, OnRecord!Spec

\* "A restart is not a human reset": what the process held when it died, saved
\* and with nothing in flight, is in force again once it is back on Redis.
THEOREM RestartRestoresHalts == FifoSaves => (Spec => RestartIsNoReset)
<1> SUFFICES ASSUME FifoSaves PROVE Spec => RestartIsNoReset
  OBVIOUS
<1> DEFINE Back == ~up /\ up' /\ persistent'
           InForce == /\ owed.latched => breaker'.level = "BLACK"
                      /\ owed.halted = today => IsTripped(breaker')
<1>1. IInv /\ LineInv /\ OwedInv /\ [Next]_vars => [Back => InForce]_vars
  <2> SUFFICES ASSUME IInv, OwedInv, [Next]_vars, Back PROVE InForce
    OBVIOUS
  <2>1. Restart
    BY StepKinds DEF recorded, Issued, SaveLands, SaveFails, Crash, RestartWithoutRedis, NextDay
  <2> QED
    BY <2>1, RestartCovers DEF OwedInv
<1>2. IInv /\ LineInv /\ [Next]_vars => LineInv'
  BY LineNext
<1>3. IInv /\ LineInv /\ OwedInv /\ [Next]_vars => OwedInv'
  BY OwedNext
<1> QED
  BY <1>1, <1>2, <1>3, LineInit, OwedInit, IInvHolds, PTL DEF Spec, RestartIsNoReset

-----------------------------------------------------------------------------
(* One order for a key                                                     *)

\* The ledger still reaches back to the session of k.
Kept(k) == Cardinality(NewerOrdered(k.session)) < KeepSessions

\* Redis names k, and so does every snapshot that will overwrite it.
StoredWith(k) ==
  /\ redis # {} /\ \A s \in redis : k \in s.orders
  /\ \A t \in Saving : k \in snap[t].orders

\* The save of the order of k is on its way, and what does not name it is ahead.
OnItsWay(k) ==
  /\ pc[Agg] = "saving" /\ k \in CurrentKeys /\ k \in snap[Agg].orders
  /\ \A t \in Saving : k \in snap[t].orders \/ t \in behind[Agg]

\* An order for k that no cut attempt accounts for is in the memory, and in
\* Redis or on its way there; one that is about to be published is the first.
Guarded(k) ==
  /\ orders[k] <= 1 + interrupted[k]
  /\ orders[k] > interrupted[k] => (up => k \in ledger) /\ (StoredWith(k) \/ OnItsWay(k))
  /\ pc[Agg] = "ordering" /\ k \in CurrentKeys => orders[k] <= interrupted[k]

OnceInv ==
  /\ persistent /\ (~up => \A t \in Tasks : pc[t] = "idle")
  /\ IsFiniteSet(Published)
  /\ \A k \in Keys : Kept(k) => Guarded(k)

\* The image of a finite set under the session of its keys, and of fewer keys.
LEMMA SessionsFinite ==
  ASSUME NEW S, IsFiniteSet(S), NEW T \in SUBSET S
  PROVE  /\ IsFiniteSet({k.session : k \in S})
         /\ Cardinality({k.session : k \in S}) \in Nat
         /\ Cardinality({k.session : k \in T}) \in Nat
         /\ Cardinality({k.session : k \in T}) <= Cardinality({k.session : k \in S})
<1> DEFINE I == {k.session : k \in S}
           J == {k.session : k \in T}
           f == [k \in S |-> k.session]
<1>1. f \in Surjection(S, I)
  <2>1. f \in [S -> I] /\ \A i \in I : \E k \in S : f[k] = i
    OBVIOUS
  <2> HIDE DEF f, I
  <2> QED
    BY <2>1, Fun_IsSurj
<1>2. J \in SUBSET I
  OBVIOUS
<1> HIDE DEF f, I, J
<1>3. IsFiniteSet(I)
  BY <1>1, FS_Surjection
<1>4. Cardinality(I) \in Nat
  BY <1>3, FS_CardinalityType
<1>5. IsFiniteSet(J) /\ Cardinality(J) <= Cardinality(I)
  BY <1>2, <1>3, FS_Subset
<1>6. Cardinality(J) \in Nat
  BY <1>5, FS_CardinalityType
<1> QED
  BY <1>3, <1>4, <1>5, <1>6 DEF I, J

LEMMA PublishedStaysFinite ==
  ASSUME IInv, [Next]_vars, IsFiniteSet(Published)
  PROVE  IsFiniteSet(Published')
<1>1. orders \in [Keys -> Nat] /\ current \subseteq Msgs /\ \A m, n \in current : m = n
  BY DEF IInv, TypeOK, InboxTyped, HistoryTyped
<1>2. orders' = orders \/ orders' = CountOrder(orders)
  BY DEF Next, vars, history, placed, IgnoreAggregate, OrderAggregate, PublishOrder,
     PublishManualOrder, PostSignal, PostPortfolio, HandleRegimeChanged, UpdatePortfolio,
     PostReset, PublishOrderFails, SaveLands, SaveFails, PublishAlert, PublishAlertFails,
     Crash, Restart, RestartWithoutRedis, NextDay
<1>3. \A k \in Keys : orders'[k] > 0 => orders[k] > 0 \/ k \in CurrentKeys
  BY <1>1, <1>2 DEF CountOrder
<1>4. Published' \subseteq Published \union CurrentKeys
  BY <1>3 DEF Published
<1>5. IsFiniteSet(CurrentKeys)
  <2>1. CASE current = {}
    BY <2>1, FS_EmptySet DEF CurrentKeys
  <2>2. CASE current # {}
    <3>1. PICK m : current = {m}
      BY <1>1, <2>2
    <3>2. CurrentKeys = {KeyOf(m)}
      BY <3>1 DEF CurrentKeys
    <3> QED
      BY <3>2, FS_Singleton
  <2> QED
    BY <2>1, <2>2
<1>6. IsFiniteSet(Published \union CurrentKeys)
  BY <1>5, FS_Union
<1> QED
  BY <1>4, <1>6, FS_Subset

LEMMA NewerOfPublished ==
  ASSUME NEW s
  PROVE  NewerOrdered(s) = {k.session : k \in {j \in Published : j.session > s}}
  BY DEF NewerOrdered, Published

\* A key the ledger reaches back to was reached before.
LEMMA KeptBefore ==
  ASSUME IInv, [Next]_vars, IsFiniteSet(Published), NEW k \in Keys, Kept(k)'
  PROVE  Kept(k)
<1> DEFINE S == {j \in Published' : j.session > k.session}
           T == {j \in Published : j.session > k.session}
<1>1. Published \subseteq Published' /\ IsFiniteSet(Published')
  BY PublishedGrows, PublishedStaysFinite
<1>2. IsFiniteSet(S) /\ T \in SUBSET S
  BY <1>1, FS_Subset
<1>3. /\ NewerOrdered(k.session)' = {j.session : j \in S}
      /\ NewerOrdered(k.session) = {j.session : j \in T}
  BY DEF NewerOrdered, Published
<1> HIDE DEF S, T
<1>4. /\ Cardinality(NewerOrdered(k.session)) <= Cardinality(NewerOrdered(k.session)')
      /\ Cardinality(NewerOrdered(k.session)) \in Nat
      /\ Cardinality(NewerOrdered(k.session)') \in Nat
  BY <1>2, <1>3, SessionsFinite
<1>5. Cardinality(NewerOrdered(k.session)') < KeepSessions
  BY DEF Kept
<1> QED
  BY <1>4, <1>5, KeepSessionsAssumption DEF Kept

\* Pruning a ledger of published keys leaves the keys it reaches back to.
LEMMA PruneLeaves ==
  ASSUME NEW P, IsFiniteSet(P), NEW k,
         Cardinality({j.session : j \in {i \in P : i.session > k.session}}) < KeepSessions,
         NEW l \in SUBSET P, k \in l
  PROVE  k \in Prune(l)
<1> DEFINE S == {j \in P : j.session > k.session}
           T == {j \in l : j.session > k.session}
<1>1. IsFiniteSet(S) /\ T \in SUBSET S
  BY FS_Subset
<1>2. NewerSessions(l, k.session) = {j.session : j \in T}
  BY DEF NewerSessions
<1>3. Cardinality({j.session : j \in S}) < KeepSessions
  OBVIOUS
<1> HIDE DEF S, T
<1> DEFINE n == Cardinality({j.session : j \in S})
           m == Cardinality({j.session : j \in T})
<1>4. m <= n /\ m \in Nat /\ n \in Nat
  BY <1>1, SessionsFinite
<1>5. n < KeepSessions /\ Cardinality(NewerSessions(l, k.session)) = m
  BY <1>2, <1>3
<1> HIDE DEF n, m
<1>6. m < KeepSessions
  BY <1>4, <1>5, KeepSessionsAssumption
<1> QED
  BY <1>5, <1>6 DEF Prune

\* After a step, the ledger of a key it reaches back to still has it.
LEMMA StillRecorded ==
  ASSUME IsFiniteSet(Published'), NEW k, Kept(k)', NEW l \in SUBSET Published', k \in l
  PROVE  k \in Prune(l)
<1>1. NewerOrdered(k.session)' = {j.session : j \in {i \in Published' : i.session > k.session}}
  BY DEF NewerOrdered, Published
<1>2. Cardinality({j.session : j \in {i \in Published' : i.session > k.session}}) < KeepSessions
  BY <1>1 DEF Kept
<1> DEFINE P == Published'
<1>3. IsFiniteSet(P) /\ l \in SUBSET P
      /\ Cardinality({j.session : j \in {i \in P : i.session > k.session}}) < KeepSessions
  BY <1>2
<1> HIDE DEF P
<1> QED
  BY <1>3, PruneLeaves

-----------------------------------------------------------------------------
(* A step, seen from one key                                               *)

\* What the steps below start from.
Before(k) ==
  /\ IInv /\ LedgersPublished /\ OnceInv /\ IsFiniteSet(Published') /\ Published \subseteq Published'
  /\ k \in Keys /\ Kept(k) /\ Guarded(k)

Counters == <<orders, interrupted>>

\* A step that saves nothing, counts nothing and takes no aggregate up.
LEMMA QuietStep ==
  ASSUME NEW k, Before(k), UNCHANGED <<up, ledger, redis, snap, behind, Counters>>,
         Saving' = Saving,
         pc'[Agg] = "ordering" => pc[Agg] = "ordering" /\ current' = current,
         pc[Agg] = "saving" => pc'[Agg] = "saving" /\ current' = current
  PROVE  Guarded(k)'
<1>1. StoredWith(k) => StoredWith(k)'
  BY DEF StoredWith
<1>2. OnItsWay(k) => OnItsWay(k)'
  BY DEF OnItsWay, CurrentKeys
<1> QED
  BY <1>1, <1>2 DEF Before, Guarded, CurrentKeys, Counters

\* An aggregate is taken up only if the ledger does not have its key.
LEMMA OrderAggregateGuards ==
  ASSUME NEW k, Before(k), NEW m \in Msgs, OrderAggregate(m)
  PROVE  Guarded(k)'
<1>1. /\ up /\ pc[Agg] = "idle" /\ KeyOf(m) \notin ledger /\ current' = {m}
      /\ pc' = [pc EXCEPT ![Agg] = "ordering"]
      /\ UNCHANGED <<up, ledger, redis, snap, behind, orders, interrupted>>
  BY DEF OrderAggregate, Deliver, Running, AlreadyPlaced, memory, history
<1>2. Saving' = Saving
  BY <1>1 DEF Saving, Before, IInv, TypeOK, TasksTyped
<1>3. orders[k] \in Nat /\ interrupted[k] \in Nat
  BY DEF Before, IInv, TypeOK, HistoryTyped
<1>4. k = KeyOf(m) => orders[k] <= interrupted[k]
  BY <1>1, <1>3 DEF Before, Guarded
<1>5. CurrentKeys' = {KeyOf(m)}
  BY <1>1 DEF CurrentKeys
<1>6. orders[k] > interrupted[k] => StoredWith(k)
  BY <1>1 DEF Before, Guarded, OnItsWay
<1>7. StoredWith(k) => StoredWith(k)'
  BY <1>1, <1>2 DEF StoredWith
<1> QED
  BY <1>1, <1>4, <1>5, <1>6, <1>7 DEF Before, Guarded

\* A save that is issued names every key the ledger has.
LEMMA IssueGuards ==
  ASSUME NEW k, Before(k), NEW t \in Tasks \ {Agg}, up, pc[t] # "saving",
         NEW p, NEW b, NEW level, IssueSave(t, p, ledger, b, level),
         UNCHANGED <<up, ledger, redis, current, Counters>>
  PROVE  Guarded(k)'
<1> DEFINE s == [portfolio |-> p, orders |-> ledger, breaker |-> Latch(b)]
<1>1. /\ pc' = [pc EXCEPT ![t] = "saving"] /\ snap' = [snap EXCEPT ![t] = s]
      /\ behind' = [behind EXCEPT ![t] = {u \in Tasks \ {t} : pc[u] = "saving"}]
      /\ s.orders = ledger
  BY DEF IssueSave
<1> HIDE DEF s
<1>2. pc \in [Tasks -> PCs] /\ snap \in [Tasks -> Snapshots] /\ behind \in [Tasks -> SUBSET Tasks]
  BY DEF Before, IInv, TypeOK, TasksTyped
<1>3. Saving' = Saving \union {t}
  BY <1>1, <1>2 DEF Saving
<1>4. k \in ledger => snap'[t] = s /\ k \in snap'[t].orders
  BY <1>1, <1>2
<1>5. \A u \in Tasks \ {t} : snap'[u] = snap[u] /\ behind'[u] = behind[u] /\ pc'[u] = pc[u]
  BY <1>1, <1>2
<1>6. k \in ledger /\ StoredWith(k) => StoredWith(k)'
  BY <1>3, <1>4, <1>5 DEF StoredWith, Saving
<1>7. k \in ledger /\ OnItsWay(k) => OnItsWay(k)'
  BY <1>3, <1>4, <1>5 DEF OnItsWay, Saving, CurrentKeys, Tasks
<1>8. pc'[Agg] = pc[Agg] /\ CurrentKeys' = CurrentKeys
  BY <1>5 DEF Tasks, CurrentKeys
<1> QED
  BY <1>6, <1>7, <1>8 DEF Before, Guarded, Counters

LEMMA PublishOrderGuards ==
  ASSUME NEW k, Before(k), Kept(k)', PublishOrder, CurrentKeys \subseteq Published'
  PROVE  Guarded(k)'
<1> PICK j \in CurrentKeys :
      /\ ledger' = Record(ledger, j)
      /\ IssueSave(Agg, portfolio, Record(ledger, j), breaker, "NONE")
  BY DEF PublishOrder
<1> DEFINE l == Record(ledger, j)
           s == [portfolio |-> portfolio, orders |-> l, breaker |-> Latch(breaker)]
<1>1. /\ up /\ up' /\ pc[Agg] = "ordering" /\ Agg \in Tasks
      /\ orders' = CountOrder(orders) /\ UNCHANGED <<interrupted, redis, current>>
      /\ ledger' = l /\ s.orders = l
      /\ pc' = [pc EXCEPT ![Agg] = "saving"] /\ snap' = [snap EXCEPT ![Agg] = s]
      /\ behind' = [behind EXCEPT ![Agg] = {u \in Tasks \ {Agg} : pc[u] = "saving"}]
  BY DEF PublishOrder, IssueSave, inbox, Tasks
<1>2. /\ pc \in [Tasks -> PCs] /\ snap \in [Tasks -> Snapshots] /\ behind \in [Tasks -> SUBSET Tasks]
      /\ \A m, n \in current : m = n
      /\ k \in Keys /\ orders \in [Keys -> Nat] /\ interrupted \in [Keys -> Nat]
  BY DEF Before, IInv, TypeOK, TasksTyped, InboxTyped, HistoryTyped
<1>3. CurrentKeys = {j} /\ CurrentKeys' = {j}
  BY <1>1, <1>2 DEF CurrentKeys
<1>4. k \in ledger \union {j} => k \in l
  <2>1. ledger \union {j} \in SUBSET Published'
    BY <1>3 DEF Before, LedgersPublished
  <2> QED
    BY <2>1, StillRecorded DEF Record, Before
<1> HIDE DEF l, s
<1>5. /\ snap'[Agg] = s /\ pc'[Agg] = "saving" /\ behind'[Agg] = {u \in Tasks \ {Agg} : pc[u] = "saving"}
      /\ Saving' = Saving \union {Agg}
      /\ \A u \in Tasks \ {Agg} : snap'[u] = snap[u] /\ pc'[u] = pc[u]
  BY <1>1, <1>2 DEF Saving
<1>6. CASE k = j
  <2>1. orders[k] <= interrupted[k]
    BY <1>1, <1>3, <1>6 DEF Before, Guarded
  <2>2. orders'[k] = orders[k] + 1
    BY <1>1, <1>2, <1>3, <1>6 DEF CountOrder
  <2>3. OnItsWay(k)'
    BY <1>1, <1>3, <1>4, <1>5, <1>6 DEF OnItsWay, Saving
  <2>4. orders'[k] <= 1 + interrupted'[k]
    BY <1>1, <1>2, <2>1, <2>2
  <2> QED
    BY <1>1, <1>4, <1>5, <1>6, <2>3, <2>4 DEF Guarded
<1>7. CASE k # j
  <2>1. orders'[k] = orders[k]
    BY <1>1, <1>2, <1>3, <1>7 DEF CountOrder
  <2>2. orders[k] > interrupted[k] => k \in ledger /\ StoredWith(k)
    BY <1>1 DEF Before, Guarded, OnItsWay
  <2>3. k \in ledger /\ StoredWith(k) => StoredWith(k)'
    BY <1>1, <1>4, <1>5 DEF StoredWith, Saving
  <2> QED
    BY <1>1, <1>4, <1>5, <2>1, <2>2, <2>3 DEF Before, Guarded
<1> QED
  BY <1>6, <1>7

\* An attempt that is cut while its order may be stored is counted as such.
LEMMA CutIsCounted ==
  ASSUME NEW k, Before(k), pc[Agg] = "ordering", pc'[Agg] = "idle", current' = {},
         orders' = CountOrder(orders), interrupted' = CountOrder(interrupted),
         UNCHANGED <<redis, ledger>> \/ (UNCHANGED redis /\ up' = FALSE),
         up' => up, \A t \in Saving' : t \in Saving /\ snap'[t] = snap[t]
  PROVE  Guarded(k)'
<1>1. k \in Keys /\ orders \in [Keys -> Nat] /\ interrupted \in [Keys -> Nat]
  BY DEF Before, IInv, TypeOK, HistoryTyped
<1>2. /\ orders'[k] = orders[k] + (IF k \in CurrentKeys THEN 1 ELSE 0)
      /\ interrupted'[k] = interrupted[k] + (IF k \in CurrentKeys THEN 1 ELSE 0)
  BY <1>1 DEF CountOrder
<1>3. orders[k] > interrupted[k] => (up => k \in ledger) /\ StoredWith(k)
  BY DEF Before, Guarded, OnItsWay
<1>4. StoredWith(k) => StoredWith(k)'
  BY DEF StoredWith
<1>5. orders'[k] <= 1 + interrupted'[k]
  BY <1>1, <1>2 DEF Before, Guarded
<1>6. orders'[k] > interrupted'[k] => orders[k] > interrupted[k]
  BY <1>1, <1>2
<1> QED
  BY <1>3, <1>4, <1>5, <1>6 DEF Guarded

LEMMA PublishFailsGuards ==
  ASSUME NEW k, Before(k), NEW t \in Tasks, NEW stored \in BOOLEAN, PublishOrderFails(t, stored)
  PROVE  Guarded(k)'
<1>1. /\ pc[t] = "ordering" /\ pc' = [pc EXCEPT ![t] = "idle"] /\ pc \in [Tasks -> PCs]
      /\ UNCHANGED <<up, ledger, redis, snap, behind>>
      /\ t # Agg => current' = current /\ UNCHANGED Counters
      /\ t = Agg => current' = {}
  BY DEF PublishOrderFails, EndTask, Nak, memory, placed, Counters, Before, IInv, TypeOK, TasksTyped
<1>2. Saving' = Saving
  BY <1>1 DEF Saving
<1>3. CASE stored /\ t = Agg
  BY <1>1, <1>2, <1>3, CutIsCounted DEF PublishOrderFails
<1>4. CASE ~(stored /\ t = Agg)
  <2>1. UNCHANGED Counters
    BY <1>4 DEF PublishOrderFails, placed, Counters
  <2>2. /\ pc'[Agg] = "ordering" => pc[Agg] = "ordering" /\ current' = current
        /\ pc[Agg] = "saving" => pc'[Agg] = "saving" /\ current' = current
    BY <1>1 DEF Tasks
  <2> QED
    BY <1>1, <1>2, <2>1, <2>2, QuietStep
<1> QED
  BY <1>3, <1>4

\* The first save in line lands: with it, what it names is stored.
LEMMA LandGuards ==
  ASSUME FifoSaves, persistent, NEW k, Before(k), NEW t \in Tasks, SaveLands(t)
  PROVE  Guarded(k)'
<1>1. /\ pc[t] = "saving" /\ behind[t] = {} /\ redis' = {snap[t]} /\ t \in Saving
      /\ behind' = [u \in Tasks |-> IF u = t THEN {} ELSE behind[u] \ {t}]
      /\ snap' = [snap EXCEPT ![t] = FreshSnapshot]
      /\ pc' = [pc EXCEPT ![t] = IF alert[t] # "NONE" THEN "alerting" ELSE "idle"]
      /\ UNCHANGED <<up, ledger, Counters>>
      /\ t # Agg => current' = current
  BY DEF SaveLands, Stored, EndSave, EndTask, Ack, Saving, memory, placed, Counters
<1>2. pc \in [Tasks -> PCs] /\ snap \in [Tasks -> Snapshots] /\ behind \in [Tasks -> SUBSET Tasks]
  BY DEF Before, IInv, TypeOK, TasksTyped
<1>3. Saving' = Saving \ {t} /\ \A u \in Saving' : snap'[u] = snap[u]
  BY <1>1, <1>2 DEF Saving
<1>4. StoredWith(k) => StoredWith(k)'
  BY <1>1, <1>3 DEF StoredWith
<1>5. t = Agg /\ OnItsWay(k) => StoredWith(k)'
  BY <1>1, <1>3 DEF OnItsWay, StoredWith, Saving
<1>6. t # Agg /\ OnItsWay(k) => OnItsWay(k)'
  <2> SUFFICES ASSUME t # Agg, OnItsWay(k) PROVE OnItsWay(k)'
    OBVIOUS
  <2>1. pc'[Agg] = "saving" /\ snap'[Agg] = snap[Agg] /\ CurrentKeys' = CurrentKeys
        /\ behind'[Agg] = behind[Agg] \ {t}
    BY <1>1, <1>2 DEF OnItsWay, Tasks, CurrentKeys
  <2> QED
    BY <1>3, <2>1 DEF OnItsWay
<1>7. pc'[Agg] = "ordering" => pc[Agg] = "ordering" /\ CurrentKeys' = CurrentKeys
  BY <1>1, <1>2 DEF Tasks, CurrentKeys
<1> QED
  BY <1>1, <1>4, <1>5, <1>6, <1>7 DEF Before, Guarded, Counters

\* A save fails, or the process dies: the key in hand is counted as cut.
LEMMA SaveLostGuards ==
  ASSUME NEW k, Before(k), UNCHANGED <<redis, orders>>, up' => up /\ ledger' = ledger,
         \A t \in Saving' : t \in Saving /\ snap'[t] = snap[t],
         pc'[Agg] = "ordering" => pc[Agg] = "ordering" /\ current' = current,
         \/ interrupted' = interrupted /\ (pc[Agg] = "saving" /\ OnItsWay(k) => OnItsWay(k)')
         \/ interrupted' = CountOrder(interrupted) /\ pc[Agg] = "saving"
  PROVE  Guarded(k)'
<1>1. k \in Keys /\ orders \in [Keys -> Nat] /\ interrupted \in [Keys -> Nat]
  BY DEF Before, IInv, TypeOK, HistoryTyped
<1>2. StoredWith(k) => StoredWith(k)'
  BY DEF StoredWith
<1>3. CASE interrupted' = interrupted /\ (pc[Agg] = "saving" /\ OnItsWay(k) => OnItsWay(k)')
  <2>1. OnItsWay(k) => OnItsWay(k)'
    BY <1>3 DEF OnItsWay
  <2>2. pc'[Agg] = "ordering" => CurrentKeys' = CurrentKeys
    BY DEF CurrentKeys
  <2> QED
    BY <1>2, <1>3, <2>1, <2>2 DEF Before, Guarded
<1>4. CASE interrupted' = CountOrder(interrupted) /\ pc[Agg] = "saving"
  <2>1. interrupted'[k] = interrupted[k] + (IF k \in CurrentKeys THEN 1 ELSE 0)
    BY <1>1, <1>4 DEF CountOrder
  <2>2. interrupted'[k] >= interrupted[k] /\ interrupted'[k] \in Nat
    BY <1>1, <2>1
  <2>3. orders'[k] > interrupted'[k] => k \notin CurrentKeys
    BY <1>1, <2>1 DEF Before, Guarded
  <2>4. orders'[k] > interrupted'[k] => orders[k] > interrupted[k]
    BY <1>1, <2>2
  <2>5. orders'[k] > interrupted'[k] => (up => k \in ledger) /\ StoredWith(k)
    BY <2>3, <2>4 DEF Before, Guarded, OnItsWay
  <2>6. orders'[k] <= 1 + interrupted'[k]
    BY <1>1, <2>2 DEF Before, Guarded
  <2>7. pc'[Agg] # "ordering"
    BY <1>4
  <2> QED
    BY <1>2, <2>5, <2>6, <2>7 DEF Guarded
<1> QED
  BY <1>3, <1>4

LEMMA SaveFailsGuards ==
  ASSUME NEW k, Before(k), NEW t \in Tasks, SaveFails(t)
  PROVE  Guarded(k)'
<1>1. /\ pc[t] = "saving" /\ UNCHANGED <<up, ledger, redis, orders>>
      /\ behind' = [u \in Tasks |-> IF u = t THEN {} ELSE behind[u] \ {t}]
      /\ snap' = [snap EXCEPT ![t] = FreshSnapshot]
      /\ pc' = [pc EXCEPT ![t] = "idle"]
      /\ interrupted' = IF t = Agg THEN CountOrder(interrupted) ELSE interrupted
      /\ t # Agg => current' = current
  BY DEF SaveFails, EndSave, EndTask, Nak, memory
<1>2. pc \in [Tasks -> PCs] /\ snap \in [Tasks -> Snapshots] /\ behind \in [Tasks -> SUBSET Tasks]
  BY DEF Before, IInv, TypeOK, TasksTyped
<1>3. Saving' = Saving \ {t} /\ \A u \in Saving' : snap'[u] = snap[u]
  BY <1>1, <1>2 DEF Saving
<1>4. t # Agg /\ OnItsWay(k) => OnItsWay(k)'
  <2> SUFFICES ASSUME t # Agg, OnItsWay(k) PROVE OnItsWay(k)'
    OBVIOUS
  <2>1. pc'[Agg] = "saving" /\ snap'[Agg] = snap[Agg] /\ CurrentKeys' = CurrentKeys
        /\ behind'[Agg] = behind[Agg] \ {t}
    BY <1>1, <1>2 DEF OnItsWay, Tasks, CurrentKeys
  <2> QED
    BY <1>3, <2>1 DEF OnItsWay
<1>5. pc'[Agg] = "ordering" => pc[Agg] = "ordering" /\ current' = current
  BY <1>1, <1>2 DEF Tasks
<1> QED
  BY <1>1, <1>3, <1>4, <1>5, SaveLostGuards

LEMMA CrashGuards ==
  ASSUME NEW k, Before(k), NEW stored \in BOOLEAN, Crash(stored)
  PROVE  Guarded(k)'
<1>1. /\ up' = FALSE /\ current' = {} /\ UNCHANGED redis /\ Agg \in Tasks
      /\ pc' = [t \in Tasks |-> "idle"]
  BY DEF Crash, NoTasks, Tasks
<1>2. Saving' = {} /\ pc'[Agg] = "idle"
  BY <1>1 DEF Saving
<1>3. CASE stored /\ pc[Agg] = "ordering"
  <2>1. orders' = CountOrder(orders) /\ interrupted' = CountOrder(interrupted)
    BY <1>3 DEF Crash
  <2> QED
    BY <1>1, <1>2, <1>3, <2>1, CutIsCounted
<1>4. CASE ~(stored /\ pc[Agg] = "ordering")
  <2>1. orders' = orders
        /\ interrupted' = IF pc[Agg] = "saving" THEN CountOrder(interrupted) ELSE interrupted
    BY <1>4 DEF Crash
  <2> QED
    BY <1>1, <1>2, <2>1, SaveLostGuards
<1> QED
  BY <1>3, <1>4

LEMMA RestartGuards ==
  ASSUME NEW k, Before(k), Kept(k)', Restart
  PROVE  Guarded(k)'
<1>1. /\ ~up /\ \A t \in Tasks : pc[t] = "idle"
      /\ UNCHANGED <<redis, pc, snap, behind, current, orders, interrupted>>
      /\ \/ redis = {}
         \/ \E s \in redis : ledger' = Prune(s.orders)
  BY DEF Restart, tasks, inbox, Before, OnceInv
<1>2. Agg \in Tasks
  BY DEF Tasks
<1>3. Saving' = Saving
  BY <1>1 DEF Saving
<1>4. orders[k] > interrupted[k] => StoredWith(k)
  BY <1>1, <1>2 DEF Before, Guarded, OnItsWay
<1>5. StoredWith(k) => StoredWith(k)'
  BY <1>1, <1>3 DEF StoredWith
<1>6. StoredWith(k) => k \in ledger'
  <2> SUFFICES ASSUME StoredWith(k) PROVE k \in ledger'
    OBVIOUS
  <2>1. PICK s \in redis : ledger' = Prune(s.orders)
    BY <1>1 DEF StoredWith
  <2>2. k \in s.orders /\ s.orders \in SUBSET Published'
    BY DEF StoredWith, Before, LedgersPublished
  <2> QED
    BY <2>1, <2>2, StillRecorded DEF Before
<1> QED
  BY <1>1, <1>2, <1>4, <1>5, <1>6 DEF Before, Guarded

\* A process without Redis is excluded, and a dead one holds nothing.
LEMMA RedisIsThere ==
  ASSUME ~MayStartWithoutRedis, IInv, OnceInv, [Next]_vars
  PROVE  persistent' /\ (~up' => \A t \in Tasks : pc'[t] = "idle")
<1>1. CASE \/ \E m \in Msgs : IgnoreAggregate(m) \/ OrderAggregate(m)
           \/ \E h \in Http, m \in Msgs : PostSignal(h, m)
           \/ \E h \in Http, m \in Pushes : PostPortfolio(h, m)
           \/ \E h \in Http : PostReset(h)
           \/ \E r \in Macro : HandleRegimeChanged(r)
  <2>1. up /\ UNCHANGED <<up, persistent>>
    BY <1>1, Zenon DEF IgnoreAggregate, OrderAggregate, PostSignal, PostPortfolio, PostReset,
                       HandleRegimeChanged, UpdatePortfolio, Deliver, Running, memory
  <2> QED
    BY <2>1 DEF OnceInv
<1>2. CASE \/ PublishOrder \/ \E h \in Http : PublishManualOrder(h)
           \/ \E t \in Tasks, stored \in BOOLEAN : PublishOrderFails(t, stored)
           \/ \E t \in Tasks : SaveLands(t) \/ SaveFails(t) \/ PublishAlert(t) \/ PublishAlertFails(t)
  <2>1. up /\ UNCHANGED <<up, persistent>>
    BY <1>2, Zenon DEF PublishOrder, PublishManualOrder, PublishOrderFails, SaveLands, SaveFails,
                       PublishAlert, PublishAlertFails, memory
  <2> QED
    BY <2>1 DEF OnceInv
<1>3. CASE \E stored \in BOOLEAN : Crash(stored)
  BY <1>3 DEF OnceInv, Crash, NoTasks
<1>4. CASE Restart \/ RestartWithoutRedis
  BY <1>4 DEF Restart, RestartWithoutRedis
<1>5. CASE NextDay \/ UNCHANGED vars
  BY <1>5 DEF OnceInv, NextDay, vars, memory, tasks
<1> QED
  BY <1>1, <1>2, <1>3, <1>4, <1>5 DEF Next

\* Every step, seen from a key the ledger still reaches back to.
LEMMA KeyStep ==
  ASSUME FifoSaves, ~MayStartWithoutRedis, [Next]_vars, NEW k, Before(k), Kept(k)'
  PROVE  Guarded(k)'
<1>1. pc \in [Tasks -> PCs] /\ persistent
  BY DEF Before, IInv, TypeOK, TasksTyped, OnceInv
<1>2. CASE UNCHANGED vars \/ NextDay \/ (\E m \in Msgs : IgnoreAggregate(m))
  <2>1. UNCHANGED <<up, ledger, redis, snap, behind, Counters, pc, current>>
    BY <1>2 DEF vars, NextDay, IgnoreAggregate, memory, tasks, inbox, history, Counters
  <2>2. Saving' = Saving
    BY <2>1 DEF Saving
  <2> QED
    BY <2>1, <2>2, QuietStep
<1>3. CASE \E m \in Msgs : OrderAggregate(m)
  BY <1>3, OrderAggregateGuards
<1>4. CASE PublishOrder
  <2>1. CurrentKeys \subseteq Published'
    BY <1>4, PublishedGrows DEF Before
  <2> QED
    BY <1>4, <2>1, PublishOrderGuards
<1>5. CASE \E h \in Http, m \in Msgs : PostSignal(h, m)
  <2> PICK h \in Http : \E m \in Msgs : PostSignal(h, m)
    BY <1>5
  <2>1. /\ h # Agg /\ h \in Tasks /\ pc[h] = "idle" /\ pc' = [pc EXCEPT ![h] = "ordering"]
        /\ UNCHANGED <<up, ledger, redis, snap, behind, Counters, current>>
    BY RiskAssumption DEF PostSignal, Running, memory, inbox, history, Counters, Tasks, Agg
  <2>2. Saving' = Saving /\ pc'[Agg] = pc[Agg]
    BY <1>1, <2>1 DEF Saving, Tasks
  <2> QED
    BY <2>1, <2>2, QuietStep
<1>6. CASE \/ \E h \in Http : PublishManualOrder(h)
           \/ \E t \in Tasks : PublishAlert(t) \/ PublishAlertFails(t)
  <2> PICK t \in Tasks :
        /\ pc[t] \notin {"saving", "idle"} /\ pc' = [pc EXCEPT ![t] = "idle"]
        /\ t = Agg => pc[t] = "alerting"
        /\ t # Agg => current' = current
        /\ UNCHANGED <<up, ledger, redis, snap, behind, Counters>>
    <3>1. ASSUME NEW h \in Http, PublishManualOrder(h)
          PROVE  h # Agg /\ h \in Tasks
      BY RiskAssumption DEF Tasks, Agg
    <3> QED
      BY <1>6, <3>1 DEF PublishManualOrder, PublishAlert, PublishAlertFails, EndTask, Ack, Nak,
                        memory, inbox, history, Counters
  <2>1. Saving' = Saving
    BY <1>1 DEF Saving
  <2>2. /\ pc'[Agg] = "ordering" => pc[Agg] = "ordering" /\ current' = current
        /\ pc[Agg] = "saving" => pc'[Agg] = "saving" /\ current' = current
    BY <1>1 DEF Tasks
  <2> QED
    BY <2>1, <2>2, QuietStep
<1>7. ASSUME NEW t \in Tasks \ {Agg}, NEW p, UpdatePortfolio(t, p), UNCHANGED Counters
      PROVE  Guarded(k)'
  <2>1. PICK b, level : IssueSave(t, p, ledger, b, level)
    BY <1>7 DEF UpdatePortfolio
  <2>2. up /\ pc[t] # "saving" /\ UNCHANGED <<up, ledger, redis, current, Counters>>
    BY <1>7 DEF UpdatePortfolio, Running, inbox
  <2> QED
    BY <2>1, <2>2, IssueGuards
<1>8. CASE \/ \E h \in Http, m \in Pushes : PostPortfolio(h, m)
           \/ \E r \in Macro : HandleRegimeChanged(r)
  <2>1. \A h \in Http \union {Reg} : h \in Tasks \ {Agg}
    BY RiskAssumption DEF Tasks, Agg, Reg
  <2>2. UNCHANGED Counters
    BY <1>8 DEF PostPortfolio, HandleRegimeChanged, UpdatePortfolio, Counters
  <2>3. \E t \in Http \union {Reg} : \E p : UpdatePortfolio(t, p)
    BY <1>8 DEF PostPortfolio, HandleRegimeChanged
  <2> QED
    BY <1>7, <2>1, <2>2, <2>3
<1>9. CASE \E h \in Http : PostReset(h)
  <2> PICK h \in Http : PostReset(h)
    BY <1>9
  <2>1. h \in Tasks \ {Agg}
    BY RiskAssumption DEF Tasks, Agg
  <2>2. PICK b : IssueSave(h, portfolio, ledger, b, "NONE")
    BY DEF PostReset
  <2>3. up /\ pc[h] # "saving" /\ UNCHANGED <<up, ledger, redis, current, Counters>>
    BY DEF PostReset, Running, inbox, Counters
  <2> QED
    BY <2>1, <2>2, <2>3, IssueGuards
<1>10. CASE \E t \in Tasks, stored \in BOOLEAN : PublishOrderFails(t, stored)
  BY <1>10, PublishFailsGuards
<1>11. CASE \E t \in Tasks : SaveLands(t) \/ SaveFails(t)
  BY <1>1, <1>11, LandGuards, SaveFailsGuards
<1>12. CASE \E stored \in BOOLEAN : Crash(stored)
  BY <1>12, CrashGuards
<1>13. CASE Restart \/ RestartWithoutRedis
  BY <1>13, RestartGuards DEF RestartWithoutRedis
<1> QED
  BY <1>2, <1>3, <1>4, <1>5, <1>6, <1>8, <1>9, <1>10, <1>11, <1>12, <1>13 DEF Next

LEMMA OnceNext ==
  ASSUME FifoSaves, ~MayStartWithoutRedis, IInv, LedgersPublished, LedgersPublished', OnceInv,
         [Next]_vars
  PROVE  OnceInv'
<1>1. Published \subseteq Published' /\ IsFiniteSet(Published')
  BY PublishedGrows, PublishedStaysFinite DEF OnceInv
<1>2. ASSUME NEW k \in Keys, Kept(k)'
      PROVE  Guarded(k)'
  <2>1. Kept(k)
    BY <1>2, KeptBefore DEF OnceInv
  <2>2. Before(k)
    BY <1>1, <2>1 DEF Before, OnceInv
  <2> QED
    BY <1>2, <2>2, KeyStep
<1> QED
  BY <1>1, <1>2, RedisIsThere DEF OnceInv

\* If saves reach Redis in order and the service never starts without it, a
\* second order for a (symbol, side, session) the ledger still reaches back to
\* needs an attempt cut between the publish and the stored ledger: no redelivery,
\* late component, concurrent save, failure or restart alone produces one.
THEOREM DuplicatesNeedInterruptions ==
  FifoSaves /\ ~MayStartWithoutRedis => (Spec => []DuplicateNeedsInterruption)
<1> SUFFICES ASSUME FifoSaves, ~MayStartWithoutRedis
             PROVE  Spec => []DuplicateNeedsInterruption
  OBVIOUS
<1>1. Init => LedgersPublished
  BY DEF Init, LedgersPublished, FreshSnapshot
<1>2. Init => OnceInv
  <2> SUFFICES ASSUME Init PROVE OnceInv
    OBVIOUS
  <2>1. Published = {} /\ Agg \in Tasks
    BY DEF Init, Published, Tasks
  <2>2. \A k \in Keys : Guarded(k)
    BY <2>1 DEF Init, Guarded
  <2> QED
    BY <2>1, <2>2, FS_EmptySet DEF Init, OnceInv
<1>3. OnceInv => DuplicateNeedsInterruption
  BY DEF OnceInv, Guarded, Kept, DuplicateNeedsInterruption
<1>4. IInv /\ LedgersPublished /\ LedgersPublished' /\ OnceInv /\ [Next]_vars => OnceInv'
  BY OnceNext
<1> QED
  BY <1>1, <1>2, <1>3, <1>4, LedgersNext, IInvHolds, PTL DEF Spec
=============================================================================
