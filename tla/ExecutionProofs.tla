--------------------------- MODULE ExecutionProofs ---------------------------
(***************************************************************************)
(* Execution, proved for any orders, prices, alerts and number of failures.*)
(* If the snapshots reach Redis in the order they were issued and the      *)
(* service never starts without Redis, a fill is announced at most once,   *)
(* and one whose handler ended is never forgotten; and whatever is lost,   *)
(* only a liquidation of a stale quantity can leave a short.               *)
(*                                                                         *)
(* The first argument is about one field of a snapshot, processed_orders.  *)
(* Those of the stored snapshot, of the saves in the order they will land, *)
(* and of the memory form a chain; an order is announced only when it is in*)
(* the stored one, and filled only when it is not in the memory.           *)
(*                                                                         *)
(* The second is about whole books: every one in memory, on its way or     *)
(* stored has a curve that ends with its own equity, and every open        *)
(* position has a price.  On it rest what risk-mgmt hears (a push that is  *)
(* the last in line carries the book as it is) and what flatten_all leaves *)
(* (what it has not sold is bought anew, or still in its list).            *)
(***************************************************************************)
EXTENDS Execution, FiniteSetTheorems, WellFoundedInduction, TLAPS

\* The tasks that fill an order, and the orders each may be given.
Fillers == {"orders", "http"}
Intake(t) == IF t = "orders" THEN NatsOrders ELSE HttpOrders

Calls == {"idle", "fetching", "publishing", "saving", "pushing"}
IsBroker(b) ==
  DOMAIN b = {"cash", "positions", "peak", "dayStart", "dayStartDate", "processed", "curve"}

\* Redis holds a snapshot, and whichever it holds knows o was filled.
Durable(o) == redis # {} /\ \A b \in redis : o \in b.processed

\* The shape of what the argument reads.
Shapes ==
  /\ up \in BOOLEAN /\ persistent = TRUE
  /\ IsBroker(broker)
  /\ pc \in [Tasks -> Calls]
  /\ DOMAIN cargo = Tasks /\ DOMAIN job = Tasks
  /\ behind \in [Tasks -> SUBSET Tasks]
  /\ \A t \in Tasks : ~up => pc[t] = "idle"
  /\ events \in [Orders -> Nat]
  /\ \A b, c \in redis : b = c

\* Two saves on their way are in line, and who is ahead in line is a save.
SaveLine ==
  \A t \in Tasks : pc[t] = "saving" =>
    /\ \A u \in behind[t] : pc[u] = "saving"
    /\ \A u \in Tasks \ {t} : pc[u] = "saving" => u \in behind[t] \/ t \in behind[u]

\* Stored, on the way, in memory: each knows what those before it know.
SavesGrow ==
  /\ \A b \in redis : IsBroker(b)
  /\ up => \A b \in redis : b.processed \subseteq broker.processed
  /\ \A t \in Tasks : pc[t] = "saving" =>
       /\ cargo[t].broker.processed \subseteq broker.processed
       /\ IsBroker(cargo[t].broker)
       /\ \A b \in redis : b.processed \subseteq cargo[t].broker.processed
       /\ \A u \in behind[t] : cargo[u].broker.processed \subseteq cargo[t].broker.processed

\* A fill under way is in memory, then in the save, then stored and announced.
FillsUnderWay ==
  \A t \in Fillers : pc[t] # "idle" =>
    /\ pc[t] # "fetching"
    /\ job[t].msg \in Intake(t)
    /\ pc[t] = "saving" => job[t].msg \in cargo[t].broker.processed
    /\ pc[t] \in {"publishing", "pushing"} => Durable(job[t].msg)
    /\ pc[t] \in {"saving", "publishing"} => events[job[t].msg] = 0

\* What was announced, and what was completed, is stored.
AnnouncedIsStored ==
  /\ \A o \in Orders : events[o] <= 1 /\ (events[o] = 1 => Durable(o))
  /\ \A o \in completed : Durable(o)

IInv == Shapes /\ SaveLine /\ SavesGrow /\ FillsUnderWay /\ AnnouncedIsStored

-----------------------------------------------------------------------------
(* The broker's operations only add to the processed orders                *)

LEMMA RecordEquityKeeps ==
  ASSUME NEW b, IsBroker(b), NEW d
  PROVE  IsBroker(RecordEquity(b, d)) /\ RecordEquity(b, d).processed = b.processed
  BY DEF IsBroker, RecordEquity

LEMMA RollDayKeeps ==
  ASSUME NEW b, IsBroker(b), NEW d
  PROVE  IsBroker(RollDay(b, d)) /\ RollDay(b, d).processed = b.processed
  BY DEF IsBroker, RollDay

LEMMA RemarkKeeps ==
  ASSUME NEW b, IsBroker(b), NEW d
  PROVE  IsBroker(Remark(b, d)) /\ Remark(b, d).processed = b.processed
<1> DEFINE c == [b EXCEPT !.peak = Higher(b.peak, Equity(b))]
<1>1. IsBroker(c) /\ c.processed = b.processed
  BY DEF IsBroker
<1> QED
  BY <1>1, RecordEquityKeeps DEF Remark

LEMMA NewBrokerKnowsNothing ==
  ASSUME NEW d
  PROVE  IsBroker(NewBroker(d)) /\ NewBroker(d).processed = {}
<1> DEFINE c == [cash |-> InitialCash, positions |-> [s \in Symbols |-> Flat],
                 peak |-> InitialCash, dayStart |-> InitialCash, dayStartDate |-> d,
                 processed |-> {}, curve |-> <<>>]
<1>1. IsBroker(c) /\ c.processed = {}
  BY DEF IsBroker
<1> QED
  BY <1>1, RecordEquityKeeps DEF NewBroker

\* A fill adds its order id and no other.
LEMMA FillAdds ==
  ASSUME NEW b, IsBroker(b), NEW ids, NEW symbol, NEW side, NEW qty, NEW price,
         NEW stop, NEW take, NEW d
  PROVE  /\ IsBroker(Fill(b, ids, symbol, side, qty, price, stop, take, d))
         /\ Fill(b, ids, symbol, side, qty, price, stop, take, d).processed
              = b.processed \union ids
<1> DEFINE r  == RollDay(b, d)
           at == SlippedPrice(side, price)
           p  == r.positions[symbol]
           q  == IF side = "BUY" THEN Bought(p, qty, at, stop, take) ELSE Sold(p, qty, at)
           cash == IF side = "BUY" THEN r.cash - qty * at ELSE r.cash + qty * at
           filled == [r EXCEPT !.cash = cash, !.positions[symbol] = q,
                               !.processed = @ \union ids]
<1>1. IsBroker(r) /\ r.processed = b.processed
  BY RollDayKeeps
<1>2. IsBroker(filled) /\ filled.processed = b.processed \union ids
  <2> HIDE DEF r, cash, q
  <2> QED
    BY <1>1 DEF IsBroker
<1>3. Fill(b, ids, symbol, side, qty, price, stop, take, d) = Remark(filled, d)
  BY DEF Fill
<1> HIDE DEF filled
<1> QED
  BY <1>2, <1>3, RemarkKeeps

\* A liquidation or an exit adds none.
LEMMA ExitKeeps ==
  ASSUME NEW b, IsBroker(b), NEW symbol, NEW qty, NEW price, NEW d
  PROVE  LET f == Fill(b, {}, symbol, "SELL", qty, price, NoLevel, NoLevel, d)
         IN  IsBroker(f) /\ f.processed = b.processed
<1> DEFINE f == Fill(b, {}, symbol, "SELL", qty, price, NoLevel, NoLevel, d)
<1>1. \A ids, side, stop, take :
        LET g == Fill(b, ids, symbol, side, qty, price, stop, take, d)
        IN  IsBroker(g) /\ g.processed = b.processed \union ids
  BY FillAdds
<1>2. IsBroker(f) /\ f.processed = b.processed \union {}
  BY <1>1, Zenon
<1> QED
  BY <1>2

LEMMA MarkKeeps ==
  ASSUME NEW b, IsBroker(b), NEW symbol, NEW price, NEW d
  PROVE  IsBroker(Mark(b, symbol, price, d)) /\ Mark(b, symbol, price, d).processed = b.processed
<1> DEFINE r == RollDay(b, d)
           m == [r EXCEPT !.positions[symbol].last = price]
<1>1. IsBroker(r) /\ r.processed = b.processed
  BY RollDayKeeps
<1>2. IsBroker(m) /\ m.processed = b.processed
  <2> HIDE DEF r
  <2> QED
    BY <1>1 DEF IsBroker
<1>3. Mark(b, symbol, price, d) \in {b, Remark(m, d)}
  BY DEF Mark
<1> HIDE DEF m
<1> QED
  BY <1>2, <1>3, RemarkKeeps

-----------------------------------------------------------------------------
(* What a step may do to the memory, the saves and the tasks               *)

\* Everything IInv reads but the broker.
line == <<up, persistent, redis, pc, cargo, behind, job, events, completed>>

\* The processed orders of the memory are what they were.
SameOrders == IsBroker(broker') /\ broker'.processed = broker.processed

\* Task t alone has another job.
JobOf(t) == DOMAIN job' = Tasks /\ \A u \in Tasks \ {t} : job'[u] = job[u]

\* Task t issues a save of the memory as the step leaves it; what a filler
\* saves is a fill that was never announced.
Issued(t) ==
  /\ up /\ t \in Tasks /\ pc[t] # "saving"
  /\ IssueSave(t, broker')
  /\ IsBroker(broker') /\ broker.processed \subseteq broker'.processed
  /\ JobOf(t)
  /\ t \in Fillers => /\ job'[t].msg \in Intake(t) \intersect broker'.processed
                      /\ events[job'[t].msg] = 0
  /\ UNCHANGED <<up, persistent, redis, events, completed>>

\* A mark or a liquidation goes on to its next call.
Walked(t) ==
  /\ up /\ t \in {"marks", "breaker"} /\ pc[t] # "saving"
  /\ \E c \in {"fetching", "publishing"} : pc' = [pc EXCEPT ![t] = c]
  /\ SameOrders /\ JobOf(t)
  /\ UNCHANGED <<up, persistent, redis, cargo, behind, events, completed>>

\* Task t is through; a fill it was publishing may be announced, and one it was
\* pushing is completed.
Ended(t) ==
  /\ up /\ t \in Tasks
  /\ \E done \in BOOLEAN : EndTask(t, done)
  /\ \/ events' = events
     \/ /\ t \in Fillers /\ pc[t] = "publishing"
        /\ events' = [events EXCEPT ![job[t].msg] = @ + 1]
  /\ \/ completed' = completed
     \/ t \in Fillers /\ pc[t] = "pushing" /\ completed' = completed \union {job[t].msg}
  /\ UNCHANGED <<up, persistent, redis, broker>>

LEMMA StepKinds ==
  ASSUME IInv, ~MayStartWithoutRedis, [Next]_vars
  PROVE  \/ SameOrders /\ UNCHANGED line
         \/ \E t \in Tasks : Issued(t) \/ Walked(t) \/ Ended(t)
         \/ \E t \in Fillers : PublishFill(t)
         \/ \E t \in Tasks : SaveLands(t)
         \/ \E stored \in BOOLEAN : Crash(stored)
         \/ Restart
<1> USE DEF IInv, Shapes
<1>1. CASE UNCHANGED vars
  BY <1>1 DEF vars, memory, tasks, history, line, SameOrders
<1>2. CASE \/ \E o \in NatsOrders : SkipOrder(o)
           \/ \E m \in Messages : AckLost(m)
           \/ NextDay
  BY <1>2 DEF SkipOrder, AckLost, NextDay, memory, tasks, history, line, SameOrders
<1>3. ASSUME NEW t \in Fillers, NEW o \in Orders, ExecuteOrder(t, o)
      PROVE  Issued(t)
  <2>1. o \in Intake(t) /\ up /\ pc[t] = "idle" /\ t \in Tasks
    BY <1>3 DEF ExecuteOrder, TakeOrder, Running, Intake, Fillers, Tasks
  <2>2. o \notin broker.processed
    BY <1>3 DEF ExecuteOrder, Executable, IsProcessed
  <2>3. events[o] = 0
    BY <2>1, <2>2 DEF AnnouncedIsStored, SavesGrow, Durable
  <2>4. IsBroker(broker') /\ broker'.processed = broker.processed \union {o}
    BY <1>3, FillAdds DEF ExecuteOrder
  <2>5. JobOf(t) /\ job'[t].msg = o
    BY <1>3, <2>1 DEF ExecuteOrder, JobOf
  <2>6. IssueSave(t, broker') /\ UNCHANGED <<up, persistent, redis, events, completed>>
    BY <1>3 DEF ExecuteOrder
  <2> QED
    BY <2>1, <2>3, <2>4, <2>5, <2>6 DEF Issued
<1>4. CASE \E s \in Symbols : MarkBegin(s)
  <2>1. "marks" \in Tasks
    BY DEF Tasks
  <2>2. Walked("marks")
    BY <1>4, <2>1 DEF MarkBegin, Running, Await, memory, inbox, Walked, SameOrders, JobOf
  <2> QED
    BY <2>1, <2>2
<1>5. ASSUME NEW c \in Prices, MarkPosition(c)
      PROVE  Issued("marks") \/ Walked("marks")
  <2> DEFINE s == job["marks"].symbol
             b == Mark(broker, s, c, today)
             p == b.positions[s]
             sold == Fill(b, {}, s, "SELL", p.qty, c, NoLevel, NoLevel, today)
  <2>1. IsBroker(b) /\ b.processed = broker.processed
    BY MarkKeeps
  <2>2. IsBroker(sold) /\ sold.processed = broker.processed
    <3> HIDE DEF b, p, s
    <3> QED
      BY <2>1, ExitKeeps
  <2>3. /\ up /\ pc["marks"] = "fetching" /\ "marks" \in Tasks /\ "marks" \notin Fillers
        /\ UNCHANGED <<up, persistent, redis, job, events, completed>>
    BY <1>5 DEF MarkPosition, history, Tasks, Fillers
  <2>4. \/ broker' = sold /\ Await("marks", "publishing") /\ UNCHANGED <<cargo, behind>>
        \/ broker' = b /\ IssueSave("marks", b)
    BY <1>5 DEF MarkPosition
  <2> HIDE DEF b, sold
  <2> QED
    BY <2>1, <2>2, <2>3, <2>4 DEF Issued, Walked, SameOrders, JobOf, Await
<1>6. CASE NoClose
  BY <1>6 DEF NoClose, memory, history, Ended, Tasks
<1>7. ASSUME NEW left, Liquidate(left), up, pc["breaker"] # "saving", JobOf("breaker"),
             UNCHANGED <<up, persistent, redis, events, completed>>
      PROVE  Walked("breaker")
  <2> PICK s \in DOMAIN left :
         broker' = Fill(broker, {}, s, "SELL", left[s].qty, left[s].last, NoLevel, NoLevel, today)
    BY <1>7 DEF Liquidate
  <2>1. SameOrders
    BY ExitKeeps DEF SameOrders
  <2> QED
    BY <1>7, <2>1 DEF Liquidate, Walked, Await, SameOrders
<1>8. CASE \E a \in Alerts : FlattenBegin(a)
  <2> PICK a \in Alerts : FlattenBegin(a)
    BY <1>8
  <2>1. /\ up /\ pc["breaker"] = "idle" /\ "breaker" \in Tasks /\ "breaker" \notin Fillers
        /\ UNCHANGED <<up, persistent, redis, events, completed>>
    BY DEF FlattenBegin, Running, Tasks, Fillers
  <2>2. CASE Open(broker) = {}
    BY <2>1, <2>2 DEF FlattenBegin, NothingToFlatten, SameOrders, line, tasks
  <2>3. CASE Open(broker) # {}
    <3>1. JobOf("breaker")
      BY <2>3 DEF FlattenBegin, JobOf
    <3>2. \/ IssueSave("breaker", broker) /\ UNCHANGED broker
          \/ Liquidate([s \in Sellable |-> broker.positions[s]])
      BY <2>3 DEF FlattenBegin
    <3> QED
      BY <1>7, <2>1, <3>1, <3>2 DEF Issued
  <2> QED
    BY <2>2, <2>3
<1>9. CASE FlattenNext
  <2>1. /\ up /\ pc["breaker"] = "publishing" /\ "breaker" \in Tasks /\ "breaker" \notin Fillers
        /\ UNCHANGED <<up, persistent, redis, events, completed>> /\ JobOf("breaker")
    BY <1>9 DEF FlattenNext, Tasks, Fillers, JobOf
  <2>2. \/ IssueSave("breaker", broker) /\ UNCHANGED broker
        \/ Liquidate(todo)
    BY <1>9 DEF FlattenNext
  <2> QED
    BY <1>7, <2>1, <2>2 DEF Issued
<1>10. CASE \E t \in Tasks : PublishFill(t)
  <2>1. CASE PublishFill("marks")
    <3>1. "marks" \in Tasks /\ "marks" \notin Fillers
      BY DEF Tasks, Fillers
    <3>2. /\ up /\ pc["marks"] = "publishing" /\ IssueSave("marks", broker)
          /\ UNCHANGED <<up, persistent, redis, broker, events, completed, job>>
      BY <2>1 DEF PublishFill, memory
    <3> QED
      BY <3>1, <3>2 DEF Issued, JobOf
  <2> QED
    BY <1>10, <2>1 DEF PublishFill, Fillers, Tasks
<1>11. ASSUME NEW t \in Tasks, NEW stored \in BOOLEAN, PublishFails(t, stored)
       PROVE  Ended(t)
  BY <1>11 DEF PublishFails, memory, Ended, Fillers
<1>12. ASSUME NEW t \in Tasks, SaveFails(t)
       PROVE  Ended(t)
  BY <1>12 DEF SaveFails, memory, Ended
<1>13. ASSUME NEW t \in Tasks, PushArrives(t) \/ PushFails(t)
       PROVE  Ended(t)
  BY <1>13 DEF PushArrives, PushFails, EndPush, Arrives, memory, Ended, Fillers
<1>14. "marks" \in Tasks
  BY DEF Tasks
<1>15. ~RestartWithoutRedis
  BY DEF RestartWithoutRedis
<1>16. Fillers \subseteq Tasks
  BY DEF Fillers, Tasks
<1>17. CASE Next
  BY <1>2, <1>3, <1>4, <1>5, <1>6, <1>8, <1>9, <1>10, <1>11, <1>12, <1>13,
     <1>14, <1>15, <1>16, <1>17 DEF Next, Fillers
<1> QED
  BY <1>1, <1>17

-----------------------------------------------------------------------------
(* Each kind of step keeps the invariant                                   *)

LEMMA QuietKeeps ==
  ASSUME IInv, SameOrders, UNCHANGED line
  PROVE  IInv'
<1> USE DEF line, SameOrders
<1>1. Shapes'
  BY DEF IInv, Shapes
<1>2. SaveLine'
  BY DEF IInv, SaveLine
<1>3. SavesGrow'
  BY DEF IInv, SavesGrow
<1>4. FillsUnderWay' /\ AnnouncedIsStored'
  BY DEF IInv, FillsUnderWay, AnnouncedIsStored, Durable
<1> QED
  BY <1>1, <1>2, <1>3, <1>4 DEF IInv

LEMMA IssueKeeps ==
  ASSUME IInv, NEW t \in Tasks, Issued(t)
  PROVE  IInv'
<1> USE DEF Issued
<1>1. /\ pc \in [Tasks -> Calls] /\ DOMAIN cargo = Tasks /\ behind \in [Tasks -> SUBSET Tasks]
      /\ pc' = [pc EXCEPT ![t] = "saving"]
      /\ cargo' = [cargo EXCEPT ![t] = [kind |-> "snapshot", broker |-> broker']]
      /\ behind' = [behind EXCEPT ![t] = {u \in Tasks \ {t} : pc[u] = "saving"}]
  BY DEF IInv, Shapes, IssueSave, Send, Await
<1>2. /\ pc'[t] = "saving" /\ cargo'[t].broker = broker'
      /\ behind'[t] = {u \in Tasks \ {t} : pc[u] = "saving"}
      /\ \A u \in Tasks \ {t} : pc'[u] = pc[u] /\ cargo'[u] = cargo[u] /\ behind'[u] = behind[u]
  BY <1>1
<1>3. Shapes'
  BY <1>1, <1>2 DEF IInv, Shapes, JobOf, Calls
<1>4. SaveLine'
  BY <1>1, <1>2 DEF IInv, SaveLine
<1>5. SavesGrow'
  <2>1. \A b \in redis : b.processed \subseteq broker'.processed
    BY DEF IInv, SavesGrow
  <2>2. ASSUME NEW u \in Tasks \ {t}, pc[u] = "saving"
        PROVE  /\ cargo[u].broker.processed \subseteq broker'.processed
               /\ IsBroker(cargo[u].broker)
               /\ \A b \in redis : b.processed \subseteq cargo[u].broker.processed
               /\ \A v \in behind[u] : v # t /\ v \in Tasks
                    /\ cargo[v].broker.processed \subseteq cargo[u].broker.processed
    BY <1>1, <2>2 DEF IInv, SavesGrow, SaveLine
  <2> QED
    BY <1>1, <1>2, <2>1, <2>2 DEF IInv, SavesGrow
<1>6. FillsUnderWay'
  <2> SUFFICES ASSUME NEW u \in Fillers, pc'[u] # "idle"
               PROVE  /\ pc'[u] # "fetching"
                      /\ job'[u].msg \in Intake(u)
                      /\ pc'[u] = "saving" => job'[u].msg \in cargo'[u].broker.processed
                      /\ pc'[u] \in {"publishing", "pushing"} => Durable(job[u].msg)'
                      /\ pc'[u] \in {"saving", "publishing"} => events'[job'[u].msg] = 0
    BY DEF FillsUnderWay, Durable
  <2>1. u \in Tasks
    BY DEF Fillers, Tasks
  <2>2. CASE u = t
    BY <1>2, <2>2
  <2>3. CASE u # t
    BY <1>2, <2>1, <2>3 DEF IInv, FillsUnderWay, JobOf, Durable
  <2> QED
    BY <2>2, <2>3
<1>7. AnnouncedIsStored'
  BY DEF IInv, AnnouncedIsStored, Durable
<1> QED
  BY <1>3, <1>4, <1>5, <1>6, <1>7 DEF IInv

LEMMA WalkKeeps ==
  ASSUME IInv, NEW t \in Tasks, Walked(t)
  PROVE  IInv'
<1> USE DEF Walked, SameOrders
<1>1. t \notin Fillers /\ Fillers \subseteq Tasks
  BY DEF Fillers, Tasks
<1>2. PICK c \in {"fetching", "publishing"} : pc' = [pc EXCEPT ![t] = c]
  OBVIOUS
<1>3. /\ pc \in [Tasks -> Calls]
      /\ pc'[t] = c /\ pc[t] # "saving"
      /\ \A u \in Tasks \ {t} : pc'[u] = pc[u] /\ job'[u] = job[u]
  BY <1>2 DEF IInv, Shapes, JobOf
<1>4. Shapes'
  BY <1>2, <1>3 DEF IInv, Shapes, JobOf, Calls
<1>5. SaveLine'
  BY <1>3, <1>4 DEF IInv, SaveLine, Shapes
<1>6. SavesGrow'
  BY <1>3 DEF IInv, SavesGrow
<1>7. FillsUnderWay'
  BY <1>1, <1>3 DEF IInv, FillsUnderWay, Durable
<1>8. AnnouncedIsStored'
  BY DEF IInv, AnnouncedIsStored, Durable
<1> QED
  BY <1>4, <1>5, <1>6, <1>7, <1>8 DEF IInv

\* The orders two fillers have under way are different ones.
LEMMA FillersApart ==
  ASSUME IInv, NEW t \in Fillers, NEW u \in Fillers, t # u,
         pc[t] # "idle", pc[u] # "idle"
  PROVE  job[t].msg # job[u].msg
  BY ExecutionAssumption DEF IInv, FillsUnderWay, Intake, Fillers

LEMMA EndKeeps ==
  ASSUME IInv, NEW t \in Tasks, Ended(t)
  PROVE  IInv'
<1> USE DEF Ended
<1>1. /\ pc \in [Tasks -> Calls] /\ DOMAIN cargo = Tasks /\ behind \in [Tasks -> SUBSET Tasks]
      /\ DOMAIN job = Tasks /\ events \in [Orders -> Nat]
      /\ pc' = [pc EXCEPT ![t] = "idle"]
      /\ cargo' = [cargo EXCEPT ![t] = Nothing]
      /\ behind' = Passed(t)
      /\ job' = [job EXCEPT ![t] = Nothing]
  BY DEF IInv, Shapes, EndTask, Await
<1>2. /\ pc'[t] = "idle" /\ Fillers \subseteq Tasks
      /\ \A u \in Tasks \ {t} : /\ pc'[u] = pc[u] /\ cargo'[u] = cargo[u] /\ job'[u] = job[u]
                                /\ behind'[u] = behind[u] \ {t}
      /\ behind' \in [Tasks -> SUBSET Tasks]
  BY <1>1 DEF Passed, Fillers, Tasks
<1>3. Fillers \subseteq Tasks /\ \A u \in Fillers : Intake(u) \subseteq Orders
  BY DEF Intake, Orders, Fillers, Tasks
<1>4. Shapes'
  <2>1. events' \in [Orders -> Nat]
    BY <1>1, <1>3 DEF IInv, FillsUnderWay
  <2> QED
    BY <1>1, <1>2, <2>1 DEF IInv, Shapes, Calls
<1>5. SaveLine'
  BY <1>1, <1>2 DEF IInv, SaveLine
<1>6. SavesGrow'
  <2>1. ASSUME NEW u \in Tasks \ {t}, pc[u] = "saving"
        PROVE  \A v \in behind[u] \ {t} : v \in Tasks
                 /\ cargo'[v].broker.processed \subseteq cargo'[u].broker.processed
    BY <1>1, <1>2, <2>1 DEF IInv, SavesGrow
  <2> QED
    BY <1>1, <1>2, <2>1 DEF IInv, SavesGrow
<1>7. FillsUnderWay'
  <2> SUFFICES ASSUME NEW u \in Fillers, pc'[u] # "idle"
               PROVE  /\ pc'[u] # "fetching"
                      /\ job'[u].msg \in Intake(u)
                      /\ pc'[u] = "saving" => job'[u].msg \in cargo'[u].broker.processed
                      /\ pc'[u] \in {"publishing", "pushing"} => Durable(job[u].msg)'
                      /\ pc'[u] \in {"saving", "publishing"} => events'[job'[u].msg] = 0
    BY DEF FillsUnderWay, Durable
  <2>1. u # t /\ u \in Tasks /\ pc[u] # "idle" /\ job[u].msg \in Orders
    BY <1>2, <1>3 DEF IInv, FillsUnderWay
  <2>2. events'[job[u].msg] = events[job[u].msg]
    BY <1>1, <2>1, FillersApart
  <2> QED
    BY <1>2, <2>1, <2>2 DEF IInv, FillsUnderWay, Durable
<1>8. AnnouncedIsStored'
  <2>1. t \in Fillers /\ pc[t] \in {"publishing", "pushing"}
          => Durable(job[t].msg) /\ job[t].msg \in Orders
             /\ (pc[t] = "publishing" => events[job[t].msg] = 0)
    BY <1>3 DEF IInv, FillsUnderWay
  <2>2. ASSUME NEW o \in Orders
        PROVE  events'[o] <= 1 /\ (events'[o] = 1 => Durable(o))
    <3>1. CASE events'[o] = events[o]
      BY <3>1 DEF IInv, AnnouncedIsStored
    <3>2. CASE events'[o] # events[o]
      BY <1>1, <2>1, <3>2
    <3> QED
      BY <3>1, <3>2
  <2>3. \A o \in completed' : Durable(o)
    BY <2>1 DEF IInv, AnnouncedIsStored
  <2> QED
    BY <2>2, <2>3 DEF AnnouncedIsStored, Durable
<1> QED
  BY <1>4, <1>5, <1>6, <1>7, <1>8 DEF IInv

LEMMA PublishKeeps ==
  ASSUME IInv, NEW t \in Fillers, PublishFill(t)
  PROVE  IInv'
<1> DEFINE o == job[t].msg
<1>1. /\ t \in Tasks /\ t # "marks" /\ Fillers \subseteq Tasks
      /\ \A u \in Fillers : Intake(u) \subseteq Orders
  BY DEF Fillers, Tasks, Intake, Orders
<1>2. /\ up /\ pc[t] = "publishing"
      /\ pc' = [pc EXCEPT ![t] = "pushing"]
      /\ cargo' = [cargo EXCEPT ![t] = [kind |-> "metrics", metrics |-> BookMetrics(broker)]]
      /\ behind' = [behind EXCEPT ![t] = {u \in Tasks \ {t} : pc[u] = "pushing"}]
      /\ events' = [events EXCEPT ![o] = @ + 1]
      /\ UNCHANGED <<up, broker, persistent, redis, job, completed>>
  BY <1>1 DEF PublishFill, Send, Await, memory
<1>3. /\ pc \in [Tasks -> Calls] /\ DOMAIN cargo = Tasks /\ behind \in [Tasks -> SUBSET Tasks]
      /\ DOMAIN job = Tasks /\ events \in [Orders -> Nat]
  BY DEF IInv, Shapes
<1>4. o \in Intake(t) /\ o \in Orders /\ Durable(o) /\ events[o] = 0
  BY <1>1, <1>2 DEF IInv, FillsUnderWay
<1>5. /\ pc'[t] = "pushing"
      /\ \A u \in Tasks \ {t} : pc'[u] = pc[u] /\ cargo'[u] = cargo[u] /\ behind'[u] = behind[u]
  BY <1>1, <1>2, <1>3
<1> HIDE DEF o
<1>6. Shapes'
  BY <1>1, <1>2, <1>3, <1>4 DEF IInv, Shapes, Calls
<1>7. SaveLine'
  BY <1>1, <1>2, <1>3, <1>5 DEF IInv, SaveLine
<1>8. SavesGrow'
  <2>1. ASSUME NEW u \in Tasks \ {t}, pc[u] = "saving"
        PROVE  \A v \in behind[u] : v \in Tasks \ {t}
                 /\ cargo'[v].broker.processed \subseteq cargo'[u].broker.processed
    BY <1>2, <1>3, <1>5, <2>1 DEF IInv, SavesGrow, SaveLine
  <2> QED
    BY <1>2, <1>5, <2>1 DEF IInv, SavesGrow
<1>9. FillsUnderWay'
  <2> SUFFICES ASSUME NEW u \in Fillers, pc'[u] # "idle"
               PROVE  /\ pc'[u] # "fetching"
                      /\ job'[u].msg \in Intake(u)
                      /\ pc'[u] = "saving" => job'[u].msg \in cargo'[u].broker.processed
                      /\ pc'[u] \in {"publishing", "pushing"} => Durable(job[u].msg)'
                      /\ pc'[u] \in {"saving", "publishing"} => events'[job'[u].msg] = 0
    BY DEF FillsUnderWay, Durable
  <2>1. CASE u = t
    BY <1>2, <1>4, <1>5, <2>1 DEF Durable, o
  <2>2. CASE u # t
    <3>1. u \in Tasks /\ pc[u] # "idle" /\ job[u].msg \in Orders
      BY <1>1, <1>5, <2>2 DEF IInv, FillsUnderWay
    <3>2. job[u].msg # o
      BY <1>2, <2>2, <3>1, FillersApart DEF o
    <3>3. events'[job[u].msg] = events[job[u].msg]
      BY <1>2, <1>3, <3>1, <3>2
    <3> QED
      BY <1>2, <1>5, <2>2, <3>1, <3>3 DEF IInv, FillsUnderWay, Durable
  <2> QED
    BY <2>1, <2>2
<1>10. AnnouncedIsStored'
  BY <1>2, <1>3, <1>4 DEF IInv, AnnouncedIsStored, Durable
<1> QED
  BY <1>6, <1>7, <1>8, <1>9, <1>10 DEF IInv

\* The save that lands is first in line: every other save knows what it knows.
LEMMA SaveLandsKeeps ==
  ASSUME IInv, FifoCalls, NEW t \in Tasks, SaveLands(t)
  PROVE  IInv'
<1> DEFINE b == cargo[t].broker
<1>1. /\ pc \in [Tasks -> Calls] /\ DOMAIN cargo = Tasks /\ behind \in [Tasks -> SUBSET Tasks]
      /\ Fillers \subseteq Tasks
  BY DEF IInv, Shapes, Fillers, Tasks
<1>2. /\ up /\ pc[t] = "saving" /\ behind[t] = {}
      /\ redis' = {b}
      /\ UNCHANGED <<up, broker, persistent, job, events, completed>>
  BY DEF SaveLands, Arrives, memory, history, IInv, Shapes, Stored, AfterSave,
         PublishAfterSave, PushAfterSave
<1>3. /\ pc'[t] = IF t \in Fillers THEN "publishing" ELSE "pushing"
      /\ pc' \in [Tasks -> Calls] /\ DOMAIN cargo' = Tasks
      /\ \A u \in Tasks \ {t} : pc'[u] = pc[u] /\ cargo'[u] = cargo[u]
  BY <1>1 DEF SaveLands, AfterSave, PublishAfterSave, PushAfterSave, Await, Fillers, Calls
<1>4. /\ behind' \in [Tasks -> SUBSET Tasks]
      /\ \A u \in Tasks \ {t} : behind'[u] = behind[u] \ {t}
  <2> DEFINE rest == Passed(t)
             pushes == {u \in Tasks \ {t} : pc[u] = "pushing"}
  <2>1. behind' = rest \/ behind' = [rest EXCEPT ![t] = pushes]
    BY DEF SaveLands, AfterSave, PublishAfterSave, PushAfterSave
  <2>2. rest \in [Tasks -> SUBSET Tasks] /\ \A u \in Tasks \ {t} : rest[u] = behind[u] \ {t}
    BY <1>1 DEF Passed
  <2>3. pushes \in SUBSET Tasks
    OBVIOUS
  <2> HIDE DEF rest, pushes
  <2> QED
    BY <2>1, <2>2, <2>3
<1>5. IsBroker(b) /\ b.processed \subseteq broker.processed
  BY <1>2 DEF IInv, SavesGrow
<1>6. ASSUME NEW u \in Tasks \ {t}, pc[u] = "saving"
      PROVE  b.processed \subseteq cargo[u].broker.processed
  <2>1. t \in behind[u]
    BY <1>2, <1>6 DEF IInv, SaveLine
  <2> QED
    BY <1>6, <2>1 DEF IInv, SavesGrow
<1>7. \A c \in redis : c.processed \subseteq b.processed
  BY <1>2 DEF IInv, SavesGrow
<1>8. \A o : Durable(o) => Durable(o)'
  BY <1>2, <1>7 DEF Durable
<1> HIDE DEF b
<1>9. Shapes'
  BY <1>1, <1>2, <1>3, <1>4 DEF IInv, Shapes
<1>10. SaveLine'
  BY <1>1, <1>2, <1>3, <1>4 DEF IInv, SaveLine
<1>11. SavesGrow'
  <2>1. ASSUME NEW u \in Tasks, pc'[u] = "saving"
        PROVE  u # t /\ pc[u] = "saving"
    BY <1>3, <2>1
  <2>2. ASSUME NEW u \in Tasks \ {t}, pc[u] = "saving"
        PROVE  \A v \in behind'[u] : v \in Tasks \ {t}
                 /\ cargo'[v].broker.processed \subseteq cargo'[u].broker.processed
    BY <1>1, <1>3, <1>4, <2>2 DEF IInv, SavesGrow
  <2> QED
    BY <1>2, <1>3, <1>5, <1>6, <2>1, <2>2 DEF IInv, SavesGrow
<1>12. FillsUnderWay'
  <2> SUFFICES ASSUME NEW u \in Fillers, pc'[u] # "idle"
               PROVE  /\ pc'[u] # "fetching"
                      /\ job'[u].msg \in Intake(u)
                      /\ pc'[u] = "saving" => job'[u].msg \in cargo'[u].broker.processed
                      /\ pc'[u] \in {"publishing", "pushing"} => Durable(job[u].msg)'
                      /\ pc'[u] \in {"saving", "publishing"} => events'[job'[u].msg] = 0
    BY DEF FillsUnderWay, Durable
  <2>1. CASE u = t
    BY <1>2, <1>3, <2>1 DEF IInv, FillsUnderWay, Durable, b
  <2>2. CASE u # t
    BY <1>1, <1>2, <1>3, <1>8, <2>2 DEF IInv, FillsUnderWay
  <2> QED
    BY <2>1, <2>2
<1>13. AnnouncedIsStored'
  BY <1>2, <1>8 DEF IInv, AnnouncedIsStored
<1> QED
  BY <1>9, <1>10, <1>11, <1>12, <1>13 DEF IInv

\* A fill is on its way to its announcement only once it is stored: whether the
\* event left before the process died or not, a restart knows the order.
LEMMA CrashKeeps ==
  ASSUME IInv, NEW stored \in BOOLEAN, Crash(stored)
  PROVE  IInv'
<1>1. /\ up' = FALSE /\ pc' = [t \in Tasks |-> "idle"]
      /\ UNCHANGED <<persistent, redis, completed>>
  BY DEF Crash
<1>2. IsBroker(broker')
  BY NewBrokerKnowsNothing DEF Crash
<1>3. \A t \in Tasks : pc'[t] = "idle"
  BY <1>1
<1>4. Shapes'
  <2>1. /\ pc' \in [Tasks -> Calls] /\ DOMAIN cargo' = Tasks /\ DOMAIN job' = Tasks
        /\ behind' \in [Tasks -> SUBSET Tasks]
    BY DEF Crash, Calls
  <2>2. events' \in [Orders -> Nat]
    BY DEF Crash, IInv, Shapes
  <2> QED
    BY <1>1, <1>2, <1>3, <2>1, <2>2 DEF IInv, Shapes
<1>5. SaveLine' /\ FillsUnderWay'
  <2>1. Fillers \subseteq Tasks
    BY DEF Fillers, Tasks
  <2> QED
    BY <1>3, <2>1 DEF SaveLine, FillsUnderWay
<1>6. SavesGrow'
  BY <1>1, <1>3 DEF IInv, SavesGrow
<1>7. AnnouncedIsStored'
  <2>1. ASSUME NEW o \in Orders
        PROVE  events'[o] <= 1 /\ (events'[o] = 1 => Durable(o))
    <3>1. CASE \E t \in Fillers : pc[t] = "publishing" /\ job[t].msg = o
      <4>1. events[o] = 0 /\ Durable(o)
        BY <3>1 DEF IInv, FillsUnderWay
      <4>2. events'[o] \in {events[o], events[o] + 1}
        BY DEF Crash
      <4> QED
        BY <4>1, <4>2
    <3>2. CASE ~\E t \in Fillers : pc[t] = "publishing" /\ job[t].msg = o
      BY <3>2 DEF Crash, Fillers, IInv, AnnouncedIsStored
    <3> QED
      BY <3>1, <3>2
  <2> QED
    BY <1>1, <2>1 DEF IInv, AnnouncedIsStored, Durable
<1> QED
  BY <1>4, <1>5, <1>6, <1>7 DEF IInv

LEMMA RestartKeeps ==
  ASSUME IInv, Restart
  PROVE  IInv'
<1>1. /\ ~up /\ up' = TRUE /\ persistent' = TRUE
      /\ UNCHANGED <<redis, pc, cargo, behind, job, events, completed>>
  BY DEF Restart, tasks, history
<1>2. Fillers \subseteq Tasks /\ \A t \in Tasks : pc[t] = "idle"
  BY <1>1 DEF IInv, Shapes, Fillers, Tasks
<1>3. IsBroker(broker')
  <2>1. CASE redis = {} /\ broker' = NewBroker(today)
    BY <2>1, NewBrokerKnowsNothing
  <2>2. CASE \E b \in redis : broker' = Restored(b)
    BY <2>2 DEF Restored, IInv, SavesGrow
  <2> QED
    BY <2>1, <2>2 DEF Restart
<1>4. \A b \in redis : b.processed \subseteq broker'.processed
  <2>1. \A b, c \in redis : b = c
    BY DEF IInv, Shapes
  <2> QED
    BY <2>1 DEF Restart, Restored
<1>5. Shapes'
  BY <1>1, <1>2, <1>3 DEF IInv, Shapes
<1>6. SaveLine' /\ FillsUnderWay'
  BY <1>1, <1>2 DEF SaveLine, FillsUnderWay
<1>7. SavesGrow'
  BY <1>1, <1>2, <1>4 DEF IInv, SavesGrow
<1>8. AnnouncedIsStored'
  BY <1>1 DEF IInv, AnnouncedIsStored, Durable
<1> QED
  BY <1>5, <1>6, <1>7, <1>8 DEF IInv

-----------------------------------------------------------------------------
(* The invariant, and what follows from it                                 *)

LEMMA IInvInit == Init => IInv
<1> SUFFICES ASSUME Init PROVE IInv
  OBVIOUS
<1> USE DEF Init
<1>1. Shapes
  BY NewBrokerKnowsNothing DEF Shapes, Calls
<1>2. Fillers \subseteq Tasks /\ \A t \in Tasks : pc[t] = "idle"
  BY DEF Fillers, Tasks
<1>3. SaveLine /\ SavesGrow /\ FillsUnderWay
  BY <1>2 DEF SaveLine, SavesGrow, FillsUnderWay
<1>4. AnnouncedIsStored
  BY DEF AnnouncedIsStored
<1> QED
  BY <1>1, <1>3, <1>4 DEF IInv

LEMMA IInvNext ==
  FifoCalls /\ ~MayStartWithoutRedis /\ IInv /\ [Next]_vars => IInv'
<1> SUFFICES ASSUME FifoCalls, ~MayStartWithoutRedis, IInv, [Next]_vars PROVE IInv'
  OBVIOUS
<1>1. CASE SameOrders /\ UNCHANGED line
  BY <1>1, QuietKeeps
<1>2. CASE \E t \in Tasks : Issued(t) \/ Walked(t) \/ Ended(t)
  BY <1>2, IssueKeeps, WalkKeeps, EndKeeps
<1>3. CASE \E t \in Fillers : PublishFill(t)
  BY <1>3, PublishKeeps
<1>4. CASE \E t \in Tasks : SaveLands(t)
  BY <1>4, SaveLandsKeeps
<1>5. CASE \E stored \in BOOLEAN : Crash(stored)
  BY <1>5, CrashKeeps
<1>6. CASE Restart
  BY <1>6, RestartKeeps
<1> QED
  BY <1>1, <1>2, <1>3, <1>4, <1>5, <1>6, StepKinds

\* IInv is an invariant where saves land in order and Redis is always there.
LEMMA IInvHolds == FifoCalls /\ ~MayStartWithoutRedis => (Spec => []IInv)
<1> SUFFICES ASSUME FifoCalls, ~MayStartWithoutRedis PROVE Spec => []IInv
  OBVIOUS
<1>1. IInv /\ [Next]_vars => IInv'
  BY IInvNext
<1> QED
  BY <1>1, IInvInit, PTL DEF Spec

\* A fill is announced at most once, whatever is redelivered, fails or dies:
\* execute() saves before it publishes, and consults processed before it fills.
THEOREM FillsAreAnnouncedOnce ==
  FifoCalls /\ ~MayStartWithoutRedis => (Spec => []FillsAnnouncedOnce)
<1> SUFFICES ASSUME FifoCalls, ~MayStartWithoutRedis PROVE Spec => []FillsAnnouncedOnce
  OBVIOUS
<1>1. IInv => FillsAnnouncedOnce
  BY DEF IInv, AnnouncedIsStored, FillsAnnouncedOnce
<1> QED
  BY <1>1, IInvHolds, PTL

\* A fill whose handler ran to its end is known to the process and to Redis for
\* ever, so no redelivery, retry or restart fills it a second time.
THEOREM CompletedFillsAreDurable ==
  FifoCalls /\ ~MayStartWithoutRedis => (Spec => []CompletedFillIsDurable)
<1> SUFFICES ASSUME FifoCalls, ~MayStartWithoutRedis PROVE Spec => []CompletedFillIsDurable
  OBVIOUS
<1>1. IInv => CompletedFillIsDurable
  BY DEF IInv, AnnouncedIsStored, SavesGrow, Durable, CompletedFillIsDurable
<1> QED
  BY <1>1, IInvHolds, PTL

-----------------------------------------------------------------------------
(* Shorts.  This argument needs neither the order of the saves nor Redis   *)

Fields == {"qty", "last", "stop", "take"}

\* Every position of b is long or flat.
IsLong(b) ==
  /\ IsBroker(b)
  /\ DOMAIN b.positions = Symbols
  /\ \A s \in Symbols : DOMAIN b.positions[s] = Fields /\ b.positions[s].qty \in Nat

\* Until a liquidation sells a quantity that changed after it was read, the
\* memory, the stored snapshot and those on their way hold no short.
LongInv ==
  /\ pc \in [Tasks -> Calls] /\ DOMAIN cargo = Tasks /\ DOMAIN job = Tasks
  /\ DOMAIN todo \subseteq Symbols
  /\ pc["marks"] = "fetching" => job["marks"].symbol \in Symbols
  /\ staleSale \in BOOLEAN
  /\ ~staleSale => /\ IsLong(broker)
                   /\ \A b \in redis : IsLong(b)
                   /\ \A t \in Tasks : pc[t] = "saving" => IsLong(cargo[t].broker)

LEMMA RollDayStaysLong ==
  ASSUME NEW b, IsLong(b), NEW d
  PROVE  IsLong(RollDay(b, d)) /\ RollDay(b, d).positions = b.positions
  BY DEF IsLong, IsBroker, RollDay

LEMMA RemarkStaysLong ==
  ASSUME NEW b, IsLong(b), NEW d
  PROVE  IsLong(Remark(b, d)) /\ Remark(b, d).positions = b.positions
<1> DEFINE c == [b EXCEPT !.peak = Higher(b.peak, Equity(b))]
<1>1. IsLong(c) /\ c.positions = b.positions
  BY DEF IsLong, IsBroker
<1> HIDE DEF c
<1>2. IsLong(RecordEquity(c, d)) /\ RecordEquity(c, d).positions = c.positions
  BY <1>1 DEF IsLong, IsBroker, RecordEquity
<1> QED
  BY <1>1, <1>2 DEF Remark, c

LEMMA NewBrokerIsLong ==
  ASSUME NEW d
  PROVE  IsLong(NewBroker(d))
<1> DEFINE c == [cash |-> InitialCash, positions |-> [s \in Symbols |-> Flat],
                 peak |-> InitialCash, dayStart |-> InitialCash, dayStartDate |-> d,
                 processed |-> {}, curve |-> <<>>]
<1>1. IsLong(c)
  BY DEF IsLong, IsBroker, Flat, Fields
<1> HIDE DEF c
<1>2. IsLong(RecordEquity(c, d))
  BY <1>1 DEF IsLong, IsBroker, RecordEquity
<1> QED
  BY <1>2 DEF NewBroker, c

\* A fill of no more than is held leaves no short.
LEMMA FillStaysLong ==
  ASSUME NEW b, IsLong(b), NEW ids, NEW symbol, NEW side \in {"BUY", "SELL"}, NEW qty \in Nat,
         NEW price, NEW stop, NEW take, NEW d,
         symbol \in Symbols /\ side = "SELL" => qty <= b.positions[symbol].qty
  PROVE  IsLong(Fill(b, ids, symbol, side, qty, price, stop, take, d))
<1> DEFINE r  == RollDay(b, d)
           at == SlippedPrice(side, price)
           p  == r.positions[symbol]
           q  == IF side = "BUY" THEN Bought(p, qty, at, stop, take) ELSE Sold(p, qty, at)
           cash == IF side = "BUY" THEN r.cash - qty * at ELSE r.cash + qty * at
           filled == [r EXCEPT !.cash = cash, !.positions[symbol] = q,
                               !.processed = @ \union ids]
<1>1. IsLong(r) /\ r.positions = b.positions
  BY RollDayStaysLong
<1> HIDE DEF r, at
<1>2. symbol \in Symbols => DOMAIN q = Fields /\ q.qty \in Nat
  <2> SUFFICES ASSUME symbol \in Symbols PROVE DOMAIN q = Fields /\ q.qty \in Nat
    OBVIOUS
  <2>1. DOMAIN p = Fields /\ p.qty \in Nat /\ (side = "SELL" => qty <= p.qty)
    BY <1>1 DEF IsLong
  <2> HIDE DEF p
  <2>2. DOMAIN Bought(p, qty, at, stop, take) = Fields
        /\ Bought(p, qty, at, stop, take).qty = p.qty + qty
    BY DEF Bought, Fields
  <2>3. side = "SELL" => DOMAIN Sold(p, qty, at) = Fields /\ Sold(p, qty, at).qty = p.qty - qty
    BY <2>1 DEF Sold, Fields
  <2> QED
    BY <2>1, <2>2, <2>3
<1> HIDE DEF p, q, cash
<1>3. IsBroker(filled) /\ filled.positions = [r.positions EXCEPT ![symbol] = q]
  BY <1>1 DEF IsLong, IsBroker
<1> HIDE DEF filled
<1>4. IsLong(filled)
  BY <1>1, <1>2, <1>3 DEF IsLong
<1>5. Fill(b, ids, symbol, side, qty, price, stop, take, d) = Remark(filled, d)
  BY DEF Fill, filled, cash, q, p, at, r
<1> QED
  BY <1>4, <1>5, RemarkStaysLong

LEMMA MarkStaysLong ==
  ASSUME NEW b, IsLong(b), NEW symbol, NEW price, NEW d
  PROVE  IsLong(Mark(b, symbol, price, d))
<1> DEFINE r == RollDay(b, d)
           m == [r EXCEPT !.positions[symbol].last = price]
<1>1. IsLong(r)
  BY RollDayStaysLong
<1> HIDE DEF r
<1>2. IsBroker(m) /\ m.positions = [r.positions EXCEPT ![symbol].last = price]
  BY <1>1 DEF IsLong, IsBroker
<1> HIDE DEF m
<1>3. IsLong(m)
  BY <1>1, <1>2 DEF IsLong, Fields
<1>4. Mark(b, symbol, price, d) \in {b, Remark(m, d)}
  BY DEF Mark, m, r
<1> QED
  BY <1>3, <1>4, RemarkStaysLong

\* A liquidation either sells all that is held now, or is a stale sale.
LEMMA LiquidationSells ==
  ASSUME LongInv, NEW left, DOMAIN left \subseteq Symbols, Liquidate(left), ~staleSale'
  PROVE  ~staleSale /\ IsLong(broker')
<1> PICK s \in DOMAIN left :
       /\ broker' = Fill(broker, {}, s, "SELL", left[s].qty, left[s].last, NoLevel, NoLevel, today)
       /\ staleSale' = (staleSale \/ left[s].qty # broker.positions[s].qty)
  BY DEF Liquidate
<1>1. ~staleSale /\ IsLong(broker) /\ left[s].qty = broker.positions[s].qty
  BY DEF LongInv
<1>2. left[s].qty \in Nat /\ left[s].qty <= broker.positions[s].qty
  BY <1>1 DEF IsLong
<1> QED
  BY <1>1, <1>2, FillStaysLong

\* The memory is as long as it was, and the saves on their way are those of
\* before or of the memory: the shape most steps have.
LEMMA SavesStayLong ==
  ASSUME LongInv,
         pc' \in [Tasks -> Calls], DOMAIN cargo' = Tasks, DOMAIN job' = Tasks,
         DOMAIN todo' \subseteq Symbols,
         pc'["marks"] = "fetching" => job'["marks"].symbol \in Symbols,
         staleSale' \in BOOLEAN, staleSale => staleSale',
         ~staleSale' => IsLong(broker'),
         redis' = redis,
         \A t \in Tasks : pc'[t] = "saving" =>
           \/ cargo'[t] = [kind |-> "snapshot", broker |-> broker']
           \/ pc[t] = "saving" /\ cargo'[t] = cargo[t]
  PROVE  LongInv'
  BY DEF LongInv

LEMMA LongNext == LongInv /\ [Next]_vars => LongInv'
<1> SUFFICES ASSUME LongInv, [Next]_vars PROVE LongInv'
  OBVIOUS
<1>0. /\ pc \in [Tasks -> Calls] /\ DOMAIN cargo = Tasks /\ DOMAIN job = Tasks
      /\ DOMAIN todo \subseteq Symbols
      /\ pc["marks"] = "fetching" => job["marks"].symbol \in Symbols
      /\ staleSale \in BOOLEAN
      /\ ~staleSale => IsLong(broker)
      /\ Tasks = {"orders", "marks", "breaker", "http"}
  BY DEF LongInv, Tasks
<1>1. CASE UNCHANGED vars
  BY <1>1 DEF vars, memory, tasks, inbox, history, LongInv
<1>2. CASE \/ \E o \in NatsOrders : SkipOrder(o)
           \/ \E m \in Messages : AckLost(m)
           \/ NextDay
  BY <1>2 DEF SkipOrder, AckLost, NextDay, memory, tasks, inbox, history, LongInv
<1>3. ASSUME NEW t \in {"orders", "http"}, NEW o \in Orders, ExecuteOrder(t, o)
      PROVE  LongInv'
  <2>1. o.side \in {"BUY", "SELL"} /\ o.qty \in Nat /\ o.symbol \in Symbols
    BY ExecutionAssumption
  <2>2. ~staleSale => /\ FillQty(o) \in Nat
                      /\ o.side = "SELL" => FillQty(o) <= broker.positions[o.symbol].qty
    BY <1>0, <2>1 DEF FillQty, IsLong
  <2>3. ~staleSale => IsLong(broker')
    BY <1>0, <1>3, <2>1, <2>2, FillStaysLong DEF ExecuteOrder
  <2>4. /\ pc' = [pc EXCEPT ![t] = "saving"] /\ UNCHANGED <<redis, todo, staleSale>>
        /\ cargo' = [cargo EXCEPT ![t] = [kind |-> "snapshot", broker |-> broker']]
        /\ DOMAIN job' = Tasks /\ (t # "marks" => job'["marks"] = job["marks"])
    BY <1>0, <1>3 DEF ExecuteOrder, IssueSave, Send, Await
  <2> QED
    BY <1>0, <2>3, <2>4, SavesStayLong DEF Calls
<1>4. CASE \E s \in Symbols : MarkBegin(s)
  <2> PICK s \in Symbols : MarkBegin(s)
    BY <1>4
  <2>1. /\ pc' = [pc EXCEPT !["marks"] = "fetching"]
        /\ job' = [job EXCEPT !["marks"] = [kind |-> "mark", symbol |-> s]]
        /\ UNCHANGED <<broker, redis, cargo, todo, staleSale>>
    BY DEF MarkBegin, Await, memory
  <2>2. job'["marks"].symbol = s
    BY <1>0, <2>1
  <2> QED
    BY <1>0, <2>1, <2>2, SavesStayLong DEF Calls
<1>5. ASSUME NEW c \in Prices, MarkPosition(c)
      PROVE  LongInv'
  <2> DEFINE s == job["marks"].symbol
             b == Mark(broker, s, c, today)
             p == b.positions[s]
             sold == Fill(b, {}, s, "SELL", p.qty, c, NoLevel, NoLevel, today)
  <2>1. ~staleSale => IsLong(b)
    BY <1>0, MarkStaysLong
  <2>2. s \in Symbols
    BY <1>0, <1>5 DEF MarkPosition
  <2>3. ~staleSale => IsLong(sold)
    <3> HIDE DEF b, s
    <3>1. ~staleSale => p.qty \in Nat
      BY <2>1, <2>2 DEF IsLong
    <3> QED
      BY <2>1, <3>1, FillStaysLong
  <2>4. /\ UNCHANGED <<redis, job, todo, staleSale>>
        /\ \/ broker' = sold /\ Await("marks", "publishing") /\ UNCHANGED <<cargo, behind>>
           \/ broker' = b /\ IssueSave("marks", b)
    BY <1>5 DEF MarkPosition, history
  <2> HIDE DEF b, s, sold
  <2>5. CASE broker' = sold /\ Await("marks", "publishing") /\ UNCHANGED <<cargo, behind>>
    BY <1>0, <2>3, <2>4, <2>5, SavesStayLong DEF Await, Calls
  <2>6. CASE broker' = b /\ IssueSave("marks", b)
    BY <1>0, <2>1, <2>4, <2>6, SavesStayLong DEF IssueSave, Send, Await, Calls
  <2> QED
    BY <2>4, <2>5, <2>6
<1>6. ASSUME NEW left, DOMAIN left \subseteq Symbols, Liquidate(left), DOMAIN job' = Tasks,
             job'["marks"] = job["marks"], redis' = redis
      PROVE  LongInv'
  <2>1. ~staleSale' => IsLong(broker')
    BY <1>6, LiquidationSells
  <2>2. /\ pc' = [pc EXCEPT !["breaker"] = "publishing"] /\ UNCHANGED cargo
        /\ DOMAIN todo' \subseteq DOMAIN left
        /\ staleSale' \in BOOLEAN /\ (staleSale => staleSale')
    BY <1>0, <1>6 DEF Liquidate, Await
  <2> QED
    BY <1>0, <1>6, <2>1, <2>2, SavesStayLong DEF Calls
<1>7. ASSUME NEW t \in Tasks, IssueSave(t, broker), DOMAIN job' = Tasks,
             job'["marks"] = job["marks"], UNCHANGED <<broker, redis, todo, staleSale>>
      PROVE  LongInv'
  BY <1>0, <1>7, SavesStayLong DEF IssueSave, Send, Await, Calls
<1>8. CASE \E a \in Alerts : FlattenBegin(a)
  <2> PICK a \in Alerts : FlattenBegin(a)
    BY <1>8
  <2>1. CASE Open(broker) = {}
    BY <2>1 DEF FlattenBegin, NothingToFlatten, tasks, LongInv
  <2>2. CASE Open(broker) # {}
    <3>1. /\ DOMAIN job' = Tasks /\ job'["marks"] = job["marks"] /\ UNCHANGED redis
          /\ \/ IssueSave("breaker", broker) /\ UNCHANGED <<broker, todo, staleSale>>
             \/ Liquidate([s \in Sellable |-> broker.positions[s]])
      BY <1>0, <2>2 DEF FlattenBegin
    <3>2. DOMAIN [s \in Sellable |-> broker.positions[s]] \subseteq Symbols
      BY DEF Sellable
    <3> QED
      BY <1>0, <1>6, <1>7, <3>1, <3>2
  <2> QED
    BY <2>1, <2>2
<1>9. CASE FlattenNext
  <2>1. /\ UNCHANGED <<redis, job>>
        /\ \/ IssueSave("breaker", broker) /\ UNCHANGED <<broker, todo, staleSale>>
           \/ Liquidate(todo)
    BY <1>9 DEF FlattenNext
  <2> QED
    BY <1>0, <1>6, <1>7, <2>1
<1>10. ASSUME NEW t \in Tasks, PublishFill(t)
       PROVE  LongInv'
  <2>1. CASE t = "marks"
    BY <1>0, <1>7, <1>10, <2>1 DEF PublishFill, memory
  <2>2. CASE t # "marks"
    BY <1>0, <1>10, <2>2, SavesStayLong DEF PublishFill, memory, Send, Await, Calls
  <2> QED
    BY <2>1, <2>2
<1>11. ASSUME NEW t \in Tasks, NEW done \in BOOLEAN, EndTask(t, done),
              UNCHANGED <<broker, redis, staleSale>>
       PROVE  LongInv'
  <2>1. DOMAIN todo' \subseteq Symbols
    BY <1>0, <1>11 DEF EndTask
  <2> QED
    BY <1>0, <1>11, <2>1, SavesStayLong DEF EndTask, Await, Calls
<1>12. CASE \/ NoClose
            \/ \E t \in Tasks : SaveFails(t) \/ PushFails(t) \/ PushArrives(t)
            \/ \E t \in Tasks, stored \in BOOLEAN : PublishFails(t, stored)
  <2>1. "marks" \in Tasks
    BY DEF Tasks
  <2> QED
    BY <1>11, <1>12, <2>1 DEF NoClose, SaveFails, PushFails, PushArrives, EndPush, PublishFails,
                              memory, history
<1>13. ASSUME NEW t \in Tasks, SaveLands(t)
       PROVE  LongInv'
  <2>1. /\ pc[t] = "saving" /\ redis' \subseteq redis \union {cargo[t].broker}
        /\ UNCHANGED <<broker, job, todo, staleSale>>
    BY <1>13 DEF SaveLands, Arrives, Stored, AfterSave, PublishAfterSave, PushAfterSave,
                 memory, history
  <2>2. /\ pc' \in [Tasks -> Calls] /\ pc'[t] \in {"publishing", "pushing"}
        /\ DOMAIN cargo' = Tasks
        /\ \A u \in Tasks \ {t} : pc'[u] = pc[u] /\ cargo'[u] = cargo[u]
    BY <1>0, <1>13 DEF SaveLands, AfterSave, PublishAfterSave, PushAfterSave, Await, Calls
  <2> QED
    BY <1>0, <2>1, <2>2 DEF LongInv
<1>14. CASE \E stored \in BOOLEAN : Crash(stored)
  <2>1. /\ IsLong(broker') /\ pc' = [t \in Tasks |-> "idle"]
        /\ DOMAIN cargo' = Tasks /\ DOMAIN job' = Tasks /\ DOMAIN todo' = {}
        /\ UNCHANGED <<redis, staleSale>>
    BY <1>14, NewBrokerIsLong DEF Crash
  <2> QED
    BY <1>0, <2>1, SavesStayLong DEF Calls
<1>15. CASE Restart \/ RestartWithoutRedis
  <2>1. UNCHANGED <<redis, pc, cargo, job, todo, staleSale>>
    BY <1>15 DEF Restart, RestartWithoutRedis, tasks, history
  <2>2. ~staleSale => IsLong(broker')
    BY <1>15, NewBrokerIsLong DEF Restart, RestartWithoutRedis, Restored, LongInv
  <2> QED
    BY <1>0, <2>1, <2>2, SavesStayLong
<1>16. CASE Next
  BY <1>2, <1>3, <1>4, <1>5, <1>8, <1>9, <1>10, <1>12, <1>13, <1>14, <1>15, <1>16 DEF Next
<1> QED
  BY <1>1, <1>16

\* "Long-only: a SELL is an exit": orders, protective exits, crashes and restarts
\* never leave a short; a liquidation that sold a quantity it read before an
\* await is the only step that can.
THEOREM ShortsComeOfStaleSales == Spec => []ShortNeedsStaleSale
<1>1. Init => LongInv
  <2> SUFFICES ASSUME Init PROVE LongInv
    OBVIOUS
  <2>1. IsLong(broker) /\ redis = {} /\ staleSale = FALSE /\ DOMAIN todo = {}
    BY NewBrokerIsLong DEF Init
  <2>2. /\ pc \in [Tasks -> Calls] /\ DOMAIN cargo = Tasks /\ DOMAIN job = Tasks
        /\ \A t \in Tasks : pc[t] = "idle"
    BY DEF Init, Calls
  <2>3. "marks" \in Tasks
    BY DEF Tasks
  <2> QED
    BY <2>1, <2>2, <2>3 DEF LongInv
<1>2. LongInv /\ [Next]_vars => LongInv'
  BY LongNext
<1>3. LongInv => ShortNeedsStaleSale
  BY DEF LongInv, ShortNeedsStaleSale, LongOnly, IsLong
<1> QED
  BY <1>1, <1>2, <1>3, PTL DEF Spec

-----------------------------------------------------------------------------
(* Sums over the symbols, and the curve                                    *)

\* Some number of any set of naturals is its least: what an induction rests on.
LEMMA LeastNumber ==
  ASSUME NEW T \in SUBSET Nat, T # {}
  PROVE  \E n \in T : \A m \in T : n <= m
<1> DEFINE R == OpToRel(<, Nat)
<1>1. IsWellFoundedOn(R, Nat)
  BY NatLessThanWellFounded
<1>2. PICK n \in T : \A m \in T : ~ (<<m, n>> \in R)
  <2> HIDE DEF R
  <2> QED
    BY <1>1, WFMin
<1>3. \A m \in T : ~(m < n)
  BY <1>2 DEF OpToRel
<1> QED
  BY <1>3

\* The sum of the values of f on s, taken out one by one.
Some(s) == CHOOSE x \in s : TRUE
SumUpTo(f, s, g) == IF s = {} THEN 0 ELSE f[Some(s)] + g[s \ {Some(s)}]
AddsUp(f, S, g) == g = [s \in SUBSET S |-> SumUpTo(f, s, g)]

LEMMA SomeLess ==
  ASSUME NEW s, IsFiniteSet(s), s # {}
  PROVE  /\ Some(s) \in s
         /\ IsFiniteSet(s \ {Some(s)})
         /\ Cardinality(s) \in Nat /\ Cardinality(s) > 0
         /\ Cardinality(s \ {Some(s)}) = Cardinality(s) - 1
<1>1. Some(s) \in s
  BY DEF Some
<1>2. Cardinality(s) \in Nat /\ Cardinality(s) # 0
  BY FS_CardinalityType, FS_EmptySet
<1> QED
  BY <1>1, <1>2, FS_RemoveElement

LEMMA SumIsDefined ==
  ASSUME NEW S, IsFiniteSet(S), NEW f
  PROVE  \E g : AddsUp(f, S, g)
<1> DEFINE Adds(n, g) == \A s \in SUBSET S : Cardinality(s) <= n => g[s] = SumUpTo(f, s, g)
           Fails == {n \in Nat : ~ \E g : Adds(n, g)}
<1>1. \A s \in SUBSET S : IsFiniteSet(s) /\ Cardinality(s) \in Nat
  BY FS_Subset, FS_CardinalityType
<1>2. Fails = {}
  <2> SUFFICES ASSUME Fails # {} PROVE FALSE
    OBVIOUS
  <2>1. PICK n \in Fails : \A m \in Fails : n <= m
    BY LeastNumber
  <2>2. CASE n = 0
    <3> DEFINE g == [s \in SUBSET S |-> 0]
    <3>1. \A s \in SUBSET S : Cardinality(s) <= 0 => s = {}
      BY <1>1, FS_EmptySet
    <3>2. Adds(0, g)
      BY <3>1 DEF SumUpTo
    <3> QED
      BY <2>1, <2>2, <3>2
  <2>3. CASE n > 0
    <3>1. n - 1 \in Nat /\ n - 1 \notin Fails
      BY <2>1, <2>3
    <3>2. PICK g : Adds(n - 1, g)
      BY <3>1
    <3> DEFINE h == [s \in SUBSET S |-> IF Cardinality(s) <= n - 1 THEN g[s] ELSE SumUpTo(f, s, g)]
    <3>3. ASSUME NEW s \in SUBSET S, Cardinality(s) <= n
          PROVE  h[s] = SumUpTo(f, s, h)
      <4>1. CASE s = {}
        <5>1. Cardinality(s) = 0
          BY <4>1, FS_EmptySet
        <5> QED
          BY <4>1, <5>1, <3>1, <3>2 DEF SumUpTo
      <4>2. CASE s # {}
        <5> DEFINE r == s \ {Some(s)}
        <5>1. /\ r \in SUBSET S /\ Cardinality(s) \in Nat /\ Cardinality(r) = Cardinality(s) - 1
          BY <4>2, <1>1, SomeLess
        <5>2. Cardinality(r) <= n - 1 /\ h[r] = g[r]
          BY <5>1, <3>1, <3>3
        <5>3. h[s] = SumUpTo(f, s, g)
          BY <3>2
        <5> QED
          BY <5>2, <5>3 DEF SumUpTo
      <4> QED
        BY <4>1, <4>2
    <3> HIDE DEF h
    <3> QED
      BY <2>1, <3>3
  <2> QED
    BY <2>1, <2>2, <2>3
<1>3. Cardinality(S) \in Nat /\ \A s \in SUBSET S : Cardinality(s) <= Cardinality(S)
  BY FS_CardinalityType, FS_Subset
<1>4. PICK g : Adds(Cardinality(S), g)
  BY <1>2, <1>3
<1> DEFINE h == [s \in SUBSET S |-> g[s]]
<1>5. \A s \in SUBSET S : g[s] = SumUpTo(f, s, h)
  <2> TAKE s \in SUBSET S
  <2>1. g[s] = SumUpTo(f, s, g)
    BY <1>3, <1>4
  <2>2. s # {} => h[s \ {Some(s)}] = g[s \ {Some(s)}]
    OBVIOUS
  <2> QED
    BY <2>1, <2>2 DEF SumUpTo
<1>6. AddsUp(f, S, h)
  BY <1>5 DEF AddsUp
<1> QED
  BY <1>6

\* A set closed under addition holds every sum of its members.
LEMMA SumStays ==
  ASSUME NEW S, IsFiniteSet(S), NEW V \in SUBSET Int, 0 \in V,
         \A v, w \in V : v + w \in V,
         NEW f \in [S -> V]
  PROVE  SumFunction(f) \in V
<1> DEFINE g == CHOOSE g : AddsUp(f, S, g)
<1>1. SumFunction(f) = g[S]
  <2>1. DOMAIN f = S
    OBVIOUS
  <2>2. SumFunction(f) = (CHOOSE iter : iter =
           [s \in SUBSET S |->
              IF s = {} THEN 0 ELSE f[CHOOSE x \in s : TRUE] + iter[s \ {CHOOSE x \in s : TRUE}]])[S]
    BY <2>1, Zenon DEF SumFunction, SumFunctionOnSet, FoldFunctionOnSet, MapThenFoldSet
  <2> QED
    BY <2>2, Zenon DEF AddsUp, SumUpTo, Some
<1>2. g = [s \in SUBSET S |-> SumUpTo(f, s, g)]
  <2>1. \E h : AddsUp(f, S, h)
    BY SumIsDefined
  <2>2. AddsUp(f, S, g)
    BY <2>1, Zenon
  <2> QED
    BY <2>2 DEF AddsUp
<1> HIDE DEF g
<1> DEFINE Bad == {n \in Nat : \E s \in SUBSET S : Cardinality(s) = n /\ g[s] \notin V}
<1>3. Bad = {}
  <2> SUFFICES ASSUME Bad # {} PROVE FALSE
    OBVIOUS
  <2>1. PICK n \in Bad : \A m \in Bad : n <= m
    BY LeastNumber
  <2>2. PICK s \in SUBSET S : Cardinality(s) = n /\ g[s] \notin V
    BY <2>1
  <2>3. IsFiniteSet(s)
    BY FS_Subset
  <2>4. g[s] = SumUpTo(f, s, g)
    BY <1>2
  <2>5. s # {}
    BY <2>2, <2>4 DEF SumUpTo
  <2> DEFINE r == s \ {Some(s)}
  <2>6. /\ Some(s) \in S /\ r \in SUBSET S /\ n > 0 /\ n \in Nat /\ Cardinality(r) = n - 1
    BY <2>2, <2>3, <2>5, SomeLess
  <2>7. g[r] \in V
    BY <2>1, <2>6
  <2>8. g[s] = f[Some(s)] + g[r] /\ f[Some(s)] \in V
    BY <2>4, <2>5, <2>6 DEF SumUpTo
  <2> QED
    BY <2>2, <2>7, <2>8
<1>4. g[S] \in V
  <2>1. Cardinality(S) \in Nat /\ S \in SUBSET S
    BY FS_CardinalityType
  <2> QED
    BY <1>3, <2>1
<1> QED
  BY <1>1, <1>4

-----------------------------------------------------------------------------
(* The book: value, curve, baseline and peak                               *)

\* Every value a snapshot of the broker has is of its type, and equity is one.
LEMMA EquityIsInt ==
  ASSUME NEW b, b.cash \in Int, b.positions \in [Symbols -> Positions]
  PROVE  Equity(b) \in Int /\ GrossExposure(b) \in Int
<1>1. \A p \in Positions : p.qty \in Int /\ p.last \in Int /\ Magnitude(p.qty) \in Int
  BY DEF Positions, Magnitude
<1>2. \A v, w \in Int : v + w \in Int
  OBVIOUS
<1>3. ASSUME NEW f \in [Symbols -> Int]
      PROVE  SumFunction(f) \in Int
  <2>1. IsFiniteSet(Symbols) /\ Int \in SUBSET Int /\ 0 \in Int
    BY BrokerAssumption
  <2> QED
    BY <1>2, <2>1, SumStays
<1>4. [s \in Symbols |-> b.positions[s].qty * b.positions[s].last] \in [Symbols -> Int]
  BY <1>1
<1>5. [s \in Symbols |-> Magnitude(b.positions[s].qty) * b.positions[s].last] \in [Symbols -> Int]
  BY <1>1
<1> QED
  BY <1>3, <1>4, <1>5 DEF Equity, PositionsValue, GrossExposure

LEMMA EmptyBookIsCash ==
  ASSUME NEW b, b.cash \in Int, b.positions = [s \in Symbols |-> Flat]
  PROVE  Equity(b) = b.cash
<1> DEFINE f == [s \in Symbols |-> b.positions[s].qty * b.positions[s].last]
<1>1. f \in [Symbols -> {0}]
  BY DEF Flat
<1>2. IsFiniteSet(Symbols) /\ {0} \in SUBSET Int /\ \A v, w \in {0} : v + w \in {0}
  BY BrokerAssumption
<1> HIDE DEF f
<1>3. SumFunction(f) \in {0}
  BY <1>1, <1>2, SumStays
<1> QED
  BY <1>3 DEF Equity, PositionsValue, f

\* The points of curve c, with the newest one of day d replaced or added.
Rolled(c, d, e) ==
  IF Len(c) > 0 /\ c[Len(c)].day = d THEN [c EXCEPT ![Len(c)] = [day |-> d, equity |-> e]]
                                     ELSE Append(c, [day |-> d, equity |-> e])
Suffix(c, k) == SubSeq(c, k, Len(c))

\* A curve as the book of (d, e) has it, and under a peak.
IsCurve(c, d, e, base) ==
  /\ c \in Seq(Points) /\ Len(c) > 0
  /\ c[Len(c)] = [day |-> d, equity |-> e]
  /\ \A i \in 2..Len(c) : c[i - 1].day < c[i].day
  /\ Len(c) > 1 => base = c[Len(c) - 1].equity
Under(c, peak) == \A i \in 1..Len(c) : peak >= c[i].equity

LEMMA SuffixIsCurve ==
  ASSUME NEW c, NEW d, NEW e, NEW base, NEW peak \in Int, IsCurve(c, d, e, base), Under(c, peak),
         NEW k \in 1..Len(c)
  PROVE  IsCurve(Suffix(c, k), d, e, base) /\ Under(Suffix(c, k), peak)
<1> DEFINE n == Len(c)
           x == Suffix(c, k)
<1>1. c \in Seq(Points) /\ n \in Nat /\ n > 0 /\ k \in Nat
  BY DEF IsCurve
<1>2. x \in Seq(Points) /\ Len(x) = n - k + 1
  BY <1>1 DEF Suffix
<1>3. \A i \in 1..Len(x) : x[i] = c[i + k - 1]
  BY <1>1 DEF Suffix
<1> HIDE DEF x
<1>4. x[Len(x)] = c[n] /\ Len(x) > 0
  BY <1>1, <1>2, <1>3
<1>5. \A i \in 2..Len(x) : x[i - 1].day < x[i].day
  <2> TAKE i \in 2..Len(x)
  <2>1. i \in 1..Len(x) /\ i - 1 \in 1..Len(x) /\ i + k - 1 \in 2..n
    BY <1>1, <1>2
  <2>2. x[i] = c[i + k - 1] /\ x[i - 1] = c[(i - 1) + k - 1]
    BY <1>3, <2>1
  <2>3. (i - 1) + k - 1 = (i + k - 1) - 1
    BY <1>1
  <2> QED
    BY <2>1, <2>2, <2>3 DEF IsCurve
<1>6. Len(x) > 1 => x[Len(x) - 1] = c[n - 1] /\ n > 1
  BY <1>1, <1>2, <1>3
<1>7. Under(x, peak)
  <2> SUFFICES ASSUME NEW i \in 1..Len(x) PROVE peak >= x[i].equity
    BY DEF Under
  <2>1. i + k - 1 \in 1..n /\ x[i] = c[i + k - 1]
    BY <1>1, <1>2, <1>3
  <2> QED
    BY <2>1 DEF Under
<1> QED
  BY <1>2, <1>4, <1>5, <1>6, <1>7 DEF IsCurve, x

\* The next value of the book, on the same day or a later one.
LEMMA RolledIsCurve ==
  ASSUME NEW c, NEW d0 \in Nat, NEW e0 \in Int, NEW base0 \in Int, NEW peak0 \in Int,
         IsCurve(c, d0, e0, base0), Under(c, peak0),
         NEW d \in Nat, d0 <= d, NEW e \in Int, NEW peak \in Int, peak >= e, peak >= peak0
  PROVE  LET r == Rolled(c, d, e)
         IN  IsCurve(r, d, e, IF d = d0 THEN base0 ELSE e0) /\ Under(r, peak)
<1> DEFINE n == Len(c)
           r == Rolled(c, d, e)
           point == [day |-> d, equity |-> e]
<1>1. /\ c \in Seq(Points) /\ n \in Nat /\ n > 0 /\ point \in Points
      /\ \A i \in 1..n : c[i] \in Points /\ c[i].day \in Nat /\ c[i].equity \in Int
      /\ c[n].day = d0 /\ c[n].equity = e0
  <2>1. c \in Seq(Points) /\ n > 0 /\ c[n] = [day |-> d0, equity |-> e0]
    BY DEF IsCurve
  <2>2. n \in Nat /\ \A i \in 1..n : c[i] \in Points
    BY <2>1
  <2> QED
    BY <2>1, <2>2 DEF Points
<1>0. \A i \in 2..n : c[i - 1].day < c[i].day
  BY DEF IsCurve
<1> HIDE DEF point
<1>2. CASE d = d0
  <2>1. r = [c EXCEPT ![n] = point]
    BY <1>1, <1>2 DEF Rolled, point
  <2>2. r \in Seq(Points) /\ Len(r) = n /\ r[n] = point /\ \A i \in 1..n - 1 : r[i] = c[i]
    BY <1>1, <2>1
  <2> HIDE DEF r
  <2>3. \A i \in 2..n : r[i - 1].day < r[i].day
    <3> TAKE i \in 2..n
    <3>1. i - 1 \in 1..n - 1 /\ i \in 1..n /\ c[i - 1].day < c[i].day
      BY <1>0, <1>1
    <3>2. r[i - 1] = c[i - 1]
      BY <2>2, <3>1
    <3>3. r[i].day = c[i].day
      <4>1. CASE i = n
        BY <1>1, <1>2, <2>2, <4>1 DEF point
      <4>2. CASE i # n
        <5>1. i \in 1..n - 1
          BY <1>1, <3>1, <4>2
        <5> QED
          BY <2>2, <5>1
      <4> QED
        BY <4>1, <4>2
    <3> QED
      BY <3>1, <3>2, <3>3
  <2>4. Under(r, peak)
    <3>1. \A i \in 1..n : peak >= c[i].equity
      BY <1>1 DEF Under
    <3>2. peak >= r[n].equity
      BY <2>2 DEF point
    <3>3. ASSUME NEW i \in 1..n, i # n
          PROVE  i \in 1..n /\ r[i] = c[i]
      <4>1. n \in Nat
        BY <1>1
      <4> HIDE DEF n
      <4>2. i \in 1..n - 1
        BY <3>3, <4>1
      <4> QED
        BY <2>2, <4>1, <4>2
    <3> QED
      BY <2>2, <3>1, <3>2, <3>3 DEF Under
  <2>5. n > 1 => base0 = r[n - 1].equity
    BY <1>1, <2>2 DEF IsCurve
  <2> QED
    BY <1>1, <1>2, <2>2, <2>3, <2>4, <2>5 DEF IsCurve, point, r
<1>3. CASE d # d0
  <2>1. r = Append(c, point)
    BY <1>1, <1>3 DEF Rolled, point
  <2>2. r \in Seq(Points) /\ Len(r) = n + 1 /\ r[n + 1] = point /\ \A i \in 1..n : r[i] = c[i]
    BY <1>1, <2>1
  <2> HIDE DEF r
  <2>3. \A i \in 2..n + 1 : r[i - 1].day < r[i].day
    <3> TAKE i \in 2..n + 1
    <3>1. CASE i = n + 1
      BY <1>1, <1>3, <2>2, <3>1 DEF point
    <3>2. CASE i # n + 1
      <4>0. n \in Nat
        BY <1>1
      <4>1. i \in 2..n /\ i - 1 \in 1..n /\ i \in 1..n
        <5> HIDE DEF n
        <5> QED
          BY <3>2, <4>0
      <4>2. r[i] = c[i] /\ r[i - 1] = c[i - 1]
        BY <2>2, <4>1
      <4> QED
        BY <1>0, <4>1, <4>2
    <3> QED
      BY <3>1, <3>2
  <2>4. Under(r, peak)
    <3>1. \A i \in 1..n : peak >= c[i].equity
      BY <1>1 DEF Under
    <3>2. peak >= r[n + 1].equity
      BY <2>2 DEF point
    <3>3. ASSUME NEW i \in 1..n + 1, i # n + 1
          PROVE  i \in 1..n /\ r[i] = c[i]
      <4>1. n \in Nat
        BY <1>1
      <4> HIDE DEF n
      <4>2. i \in 1..n
        BY <3>3, <4>1
      <4> QED
        BY <2>2, <4>1, <4>2
    <3> QED
      BY <2>2, <3>1, <3>2, <3>3 DEF Under
  <2>5. e0 = r[n + 1 - 1].equity
    BY <1>1, <2>2
  <2> QED
    BY <1>1, <1>3, <2>2, <2>3, <2>4, <2>5 DEF IsCurve, point, r
<1> QED
  BY <1>2, <1>3

\* A position that is open has a price.
Priced(b) == \A s \in Symbols : b.positions[s].qty # 0 => b.positions[s].last > 0

\* A snapshot of the broker on day d: the memory's, or one that was taken.
IsBook(b, d) ==
  /\ b \in Brokers /\ Priced(b)
  /\ b.dayStartDate <= d
  /\ IsCurve(b.curve, b.dayStartDate, Equity(b), b.dayStart)
  /\ Under(b.curve, b.peak)

\* Equity is of the cash and the positions alone.
LEMMA SameEquity ==
  ASSUME NEW b, NEW c, b.cash = c.cash, b.positions = c.positions
  PROVE  Equity(b) = Equity(c)
  BY DEF Equity, PositionsValue

LEMMA BrokerFields ==
  ASSUME NEW b \in Brokers
  PROVE  /\ b.cash \in Int /\ b.positions \in [Symbols -> Positions] /\ b.peak \in Int
         /\ b.dayStart \in Int /\ b.dayStartDate \in Nat /\ b.processed \in SUBSET Orders
         /\ b.curve \in Seq(Points) /\ Equity(b) \in Int
<1>1. b.cash \in Int /\ b.positions \in [Symbols -> Positions]
  BY DEF Brokers
<1> QED
  BY <1>1, EquityIsInt DEF Brokers

\* recordEquity after a change: the curve goes on from the one before.
LEMMA RemarkMoves ==
  ASSUME NEW b, NEW d \in Nat, IsBook(b, d), NEW c \in Brokers, Priced(c),
         c.curve = b.curve, c.peak = b.peak, c.dayStartDate = d,
         c.dayStart = IF d = b.dayStartDate THEN b.dayStart ELSE Equity(b)
  PROVE  /\ IsBook(Remark(c, d), d)
         /\ Remark(c, d).positions = c.positions /\ Remark(c, d).processed = c.processed
<1> DEFINE e == Equity(c)
           peak == Higher(c.peak, e)
           c1 == [c EXCEPT !.peak = peak]
           x == Rolled(b.curve, d, e)
           excess == Len(x) - EquityHistoryLimit
           k == 1 + (IF excess > 0 THEN excess ELSE 0)
           r == Remark(c, d)
<1>1. /\ b.dayStartDate \in Nat /\ Equity(b) \in Int /\ b.dayStart \in Int /\ b.peak \in Int
      /\ e \in Int /\ c.peak = b.peak /\ b.dayStartDate <= d
  BY BrokerFields DEF IsBook
<1>2. peak \in Int /\ peak >= e /\ peak >= b.peak
  BY <1>1 DEF Higher
<1>3. Equity(c1) = e
  <2>1. c1.cash = c.cash /\ c1.positions = c.positions
    BY DEF Brokers
  <2> QED
    BY <2>1, SameEquity
<1>4. IsCurve(x, d, e, IF d = b.dayStartDate THEN b.dayStart ELSE Equity(b)) /\ Under(x, peak)
  <2> HIDE DEF e, peak
  <2> QED
    BY <1>1, <1>2, RolledIsCurve DEF IsBook
<1>5. k \in 1..Len(x)
  <2>1. Len(x) \in Nat /\ Len(x) > 0
    BY <1>4 DEF IsCurve
  <2>2. EquityHistoryLimit \in Nat \ {0}
    BY BrokerAssumption
  <2> HIDE DEF x
  <2> QED
    BY <2>1, <2>2
<1>6. r = [c1 EXCEPT !.curve = Suffix(x, k)]
  <2>1. r = RecordEquity(c1, d) /\ c1.curve = b.curve
    BY DEF Remark, Brokers
  <2>2. RecordEquity(c1, d) = [c1 EXCEPT !.curve = Suffix(x, k)]
    <3> HIDE DEF c1, e
    <3> QED
      BY <1>3, <2>1 DEF RecordEquity, Rolled, Suffix
  <2> QED
    BY <2>1, <2>2
<1>7. /\ IsCurve(Suffix(x, k), d, e, IF d = b.dayStartDate THEN b.dayStart ELSE Equity(b))
      /\ Under(Suffix(x, k), peak)
  <2> HIDE DEF x, k, e, peak
  <2> QED
    BY <1>2, <1>4, <1>5, SuffixIsCurve
<1> HIDE DEF x, k, peak, e
<1>8. Suffix(x, k) \in Seq(Points)
  BY <1>7 DEF IsCurve
<1>9. /\ r \in Brokers /\ r.cash = c.cash /\ r.positions = c.positions
      /\ r.processed = c.processed /\ r.peak = peak /\ r.curve = Suffix(x, k)
      /\ r.dayStart = c.dayStart /\ r.dayStartDate = d
  <2> HIDE DEF r
  <2> QED
    BY <1>2, <1>6, <1>8 DEF Brokers
<1> HIDE DEF r
<1>10. Equity(r) = e
  BY <1>9, SameEquity DEF e
<1>11. Priced(r)
  BY <1>9 DEF Priced
<1>12. IsBook(r, d)
  BY <1>7, <1>9, <1>10, <1>11 DEF IsBook
<1> QED
  BY <1>9, <1>12 DEF r

LEMMA NewBrokerIsBook ==
  ASSUME NEW d \in Nat
  PROVE  IsBook(NewBroker(d), d)
<1> DEFINE c == [cash |-> InitialCash, positions |-> [s \in Symbols |-> Flat],
                 peak |-> InitialCash, dayStart |-> InitialCash, dayStartDate |-> d,
                 processed |-> {}, curve |-> <<>>]
           point == [day |-> d, equity |-> InitialCash]
           r == NewBroker(d)
<1>1. InitialCash \in Int /\ EquityHistoryLimit \in Nat \ {0}
  BY BrokerAssumption
<1>2. Equity(c) = InitialCash
  <2>1. c.cash = InitialCash /\ c.positions = [s \in Symbols |-> Flat]
    OBVIOUS
  <2> HIDE DEF c
  <2> QED
    BY <1>1, <2>1, EmptyBookIsCash
<1> DEFINE x == Append(<<>>, point)
           k == 1 + (IF 1 - EquityHistoryLimit > 0 THEN 1 - EquityHistoryLimit ELSE 0)
<1>3. x \in Seq(Points) /\ Len(x) = 1 /\ x[1] = point /\ point \in Points
  <2>1. point \in Points
    BY <1>1 DEF Points
  <2>2. <<>> \in Seq(Points) /\ Len(<<>>) = 0
    OBVIOUS
  <2> HIDE DEF point
  <2> QED
    BY <2>1, <2>2
<1>4. IsCurve(x, d, InitialCash, InitialCash) /\ Under(x, InitialCash)
  <2> HIDE DEF x
  <2>1. Len(x) > 0 /\ ~(Len(x) > 1) /\ x[Len(x)] = point
    BY <1>3
  <2>2. \A i \in 2..Len(x) : x[i - 1].day < x[i].day
    BY <1>3
  <2>3. \A i \in 1..Len(x) : InitialCash >= x[i].equity
    BY <1>1, <1>3
  <2> QED
    BY <1>3, <2>1, <2>2, <2>3 DEF IsCurve, Under
<1>5. k = 1 /\ k \in 1..Len(x)
  BY <1>1, <1>3
<1>6. IsCurve(Suffix(x, k), d, InitialCash, InitialCash) /\ Under(Suffix(x, k), InitialCash)
  <2> HIDE DEF x, k
  <2> QED
    BY <1>1, <1>4, <1>5, SuffixIsCurve
<1>7. r = [c EXCEPT !.curve = Suffix(x, k)]
  <2>1. r = RecordEquity(c, d)
    BY DEF NewBroker
  <2>2. c.curve = <<>> /\ ~(Len(c.curve) > 0)
    OBVIOUS
  <2> HIDE DEF c
  <2>3. RecordEquity(c, d) =
          LET excess == Len(x) - EquityHistoryLimit
          IN  [c EXCEPT !.curve = SubSeq(x, 1 + (IF excess > 0 THEN excess ELSE 0), Len(x))]
    BY <1>2, <2>2 DEF RecordEquity
  <2>4. RecordEquity(c, d) = [c EXCEPT !.curve = SubSeq(x, k, Len(x))]
    <3> HIDE DEF x
    <3> QED
      BY <1>3, <2>3
  <2> QED
    BY <2>1, <2>4 DEF Suffix
<1> HIDE DEF x, k
<1>8. Suffix(x, k) \in Seq(Points)
  BY <1>6 DEF IsCurve
<1>9. Flat \in Positions /\ Flat.qty = 0
  BY DEF Flat, Positions, NoLevel
<1>10. c \in [cash : Int, positions : [Symbols -> Positions], peak : Int, dayStart : Int,
              dayStartDate : Nat, processed : SUBSET Orders, curve : {<<>>}]
  BY <1>1, <1>9
<1>11. /\ r \in Brokers /\ r.cash = InitialCash /\ r.positions = [s \in Symbols |-> Flat]
      /\ r.peak = InitialCash /\ r.curve = Suffix(x, k) /\ r.dayStartDate = d
      /\ r.dayStart = InitialCash
  <2>1. /\ c.cash = InitialCash /\ c.positions = [s \in Symbols |-> Flat]
        /\ c.peak = InitialCash /\ c.dayStartDate = d /\ c.dayStart = InitialCash
    OBVIOUS
  <2> HIDE DEF c, r
  <2> QED
    BY <1>7, <1>8, <1>10, <2>1 DEF Brokers
<1> HIDE DEF r
<1>12. Equity(r) = InitialCash
  BY <1>1, <1>11, EmptyBookIsCash
<1>13. Priced(r)
  BY <1>9, <1>11 DEF Priced
<1>14. IsBook(r, d)
  BY <1>6, <1>11, <1>12, <1>13 DEF IsBook
<1> QED
  BY <1>14 DEF r

LEMMA RolledDay ==
  ASSUME NEW b, NEW d \in Nat, IsBook(b, d)
  PROVE  LET r == RollDay(b, d)
         IN  /\ r \in Brokers /\ r.positions = b.positions /\ r.cash = b.cash
             /\ r.curve = b.curve /\ r.peak = b.peak /\ r.dayStartDate = d
             /\ r.processed = b.processed
             /\ r.dayStart = IF d = b.dayStartDate THEN b.dayStart ELSE Equity(b)
<1>1. b \in Brokers /\ Equity(b) \in Int
  BY BrokerFields DEF IsBook
<1> QED
  BY <1>1 DEF RollDay, Brokers

\* No price becomes nothing by slippage.
LEMMA SlippedIsPrice ==
  ASSUME NEW side, NEW price \in Nat \ {0}
  PROVE  SlippedPrice(side, price) \in Nat \ {0}
<1> DEFINE f == IF side = "BUY" THEN 10000 + SlippageBps ELSE 10000 - SlippageBps
<1>1. f \in Nat \ {0}
  BY BrokerAssumption
<1> HIDE DEF f
<1>2. price * f \in Nat \ {0}
  BY <1>1
<1>3. \A n \in Nat \ {0} : (n + 9999) \div 10000 \in Nat \ {0}
  OBVIOUS
<1> QED
  BY <1>2, <1>3 DEF SlippedPrice, f

\* f is the book b of day d with another quantity of s, and f alone.
Moves(f, b, s, qty, d) ==
  /\ IsBook(f, d)
  /\ \A u \in Symbols \ {s} : f.positions[u] = b.positions[u]
  /\ f.positions[s].qty = qty

\* fill() takes a book to a book and moves one quantity.
LEMMA FillMoves ==
  ASSUME NEW b, NEW d \in Nat, IsBook(b, d), NEW ids \in SUBSET Orders, NEW s \in Symbols,
         NEW side, NEW qty \in Int, NEW price \in Nat \ {0}, NEW stop \in Nat, NEW take \in Nat
  PROVE  Moves(Fill(b, ids, s, side, qty, price, stop, take, d), b, s,
               IF side = "BUY" THEN b.positions[s].qty + qty ELSE b.positions[s].qty - qty, d)
<1> DEFINE r  == RollDay(b, d)
           at == SlippedPrice(side, price)
           p  == r.positions[s]
           q  == IF side = "BUY" THEN Bought(p, qty, at, stop, take) ELSE Sold(p, qty, at)
           cash == IF side = "BUY" THEN r.cash - qty * at ELSE r.cash + qty * at
           filled == [r EXCEPT !.cash = cash, !.positions[s] = q, !.processed = @ \union ids]
           f == Fill(b, ids, s, side, qty, price, stop, take, d)
<1>1. /\ r \in Brokers /\ r.positions = b.positions /\ r.cash = b.cash
      /\ r.curve = b.curve /\ r.peak = b.peak /\ r.dayStartDate = d
      /\ r.dayStart = IF d = b.dayStartDate THEN b.dayStart ELSE Equity(b)
  BY RolledDay
<1>2. at \in Nat \ {0}
  BY SlippedIsPrice
<1>3. p = b.positions[s] /\ p \in Positions /\ r.cash \in Int
  BY <1>1 DEF Brokers
<1> HIDE DEF r, at
<1>4. /\ q \in Positions /\ q.last = at
      /\ q.qty = IF side = "BUY" THEN p.qty + qty ELSE p.qty - qty
  <2> HIDE DEF p
  <2>1. p.qty \in Int /\ p.stop \in Int /\ p.take \in Int /\ stop \in Int /\ take \in Int
        /\ at \in Int /\ NoLevel \in Int
    BY <1>2, <1>3 DEF Positions, NoLevel
  <2>2. LET x == Bought(p, qty, at, stop, take)
        IN  x \in Positions /\ x.last = at /\ x.qty = p.qty + qty
    BY <2>1 DEF Bought, Positions
  <2>3. p.qty - qty \in Int
    BY <2>1
  <2>4. LET x == Sold(p, qty, at)
        IN  x \in Positions /\ x.last = at /\ x.qty = p.qty - qty
    BY <1>3, <2>1, <2>3 DEF Sold, Positions
  <2> QED
    BY <2>2, <2>4
<1>5. cash \in Int
  BY <1>2, <1>3
<1> HIDE DEF p, q, cash
<1>6. /\ filled \in Brokers /\ filled.positions = [b.positions EXCEPT ![s] = q]
      /\ filled.curve = b.curve /\ filled.peak = b.peak /\ filled.dayStartDate = d
      /\ filled.dayStart = IF d = b.dayStartDate THEN b.dayStart ELSE Equity(b)
  BY <1>1, <1>4, <1>5 DEF Brokers
<1> HIDE DEF filled
<1>7. b.positions \in [Symbols -> Positions]
  BY DEF IsBook, Brokers
<1>8. Priced(filled)
  BY <1>2, <1>4, <1>6, <1>7 DEF Priced, IsBook
<1>9. f = Remark(filled, d)
  BY DEF Fill, filled, cash, q, p, at, r
<1>10. IsBook(f, d) /\ f.positions = filled.positions
  BY <1>6, <1>8, <1>9, RemarkMoves
<1> HIDE DEF f
<1> QED
  BY <1>3, <1>4, <1>6, <1>7, <1>10 DEF Moves, f

\* A sale of a liquidation or of an exit.
LEMMA SaleMoves ==
  ASSUME NEW b, NEW d \in Nat, IsBook(b, d), NEW s \in Symbols,
         NEW qty \in Int, NEW price \in Nat \ {0}
  PROVE  Moves(Fill(b, {}, s, "SELL", qty, price, NoLevel, NoLevel, d), b, s,
               b.positions[s].qty - qty, d)
<1>1. {} \in SUBSET Orders /\ NoLevel \in Nat
  BY DEF NoLevel
<1>2. Moves(Fill(b, {}, s, "SELL", qty, price, NoLevel, NoLevel, d), b, s,
            IF "SELL" = "BUY" THEN b.positions[s].qty + qty ELSE b.positions[s].qty - qty, d)
  BY <1>1, FillMoves
<1>3. (IF "SELL" = "BUY" THEN b.positions[s].qty + qty ELSE b.positions[s].qty - qty)
        = b.positions[s].qty - qty
  OBVIOUS
<1> QED
  BY <1>2, <1>3

\* mark() takes a book to a book and moves no quantity.
LEMMA MarkMoves ==
  ASSUME NEW b, NEW d \in Nat, IsBook(b, d), NEW s \in Symbols, NEW price \in Nat \ {0}
  PROVE  LET m == Mark(b, s, price, d)
         IN  /\ IsBook(m, d)
             /\ \A u \in Symbols : m.positions[u].qty = b.positions[u].qty
             /\ \A u \in Symbols \ {s} : m.positions[u] = b.positions[u]
<1> DEFINE r == RollDay(b, d)
           marked == [r EXCEPT !.positions[s].last = price]
           m == Mark(b, s, price, d)
<1>1. /\ r \in Brokers /\ r.positions = b.positions
      /\ r.curve = b.curve /\ r.peak = b.peak /\ r.dayStartDate = d
      /\ r.dayStart = IF d = b.dayStartDate THEN b.dayStart ELSE Equity(b)
  BY RolledDay
<1> HIDE DEF r
<1>2. b.positions \in [Symbols -> Positions]
  BY DEF IsBook, Brokers
<1>3. [b.positions[s] EXCEPT !.last = price] \in Positions
  BY <1>2 DEF Positions
<1>4. /\ marked \in Brokers
      /\ marked.positions = [b.positions EXCEPT ![s] = [b.positions[s] EXCEPT !.last = price]]
      /\ marked.curve = b.curve /\ marked.peak = b.peak /\ marked.dayStartDate = d
      /\ marked.dayStart = IF d = b.dayStartDate THEN b.dayStart ELSE Equity(b)
  BY <1>1, <1>3 DEF Brokers
<1> HIDE DEF marked
<1>5. \A u \in Symbols : marked.positions[u].qty = b.positions[u].qty
  BY <1>2, <1>4 DEF Positions
<1>6. Priced(marked)
  BY <1>2, <1>4 DEF Priced, IsBook, Positions
<1>7. IsBook(Remark(marked, d), d) /\ Remark(marked, d).positions = marked.positions
  BY <1>4, <1>6, RemarkMoves
<1>8. m = b \/ m = Remark(marked, d)
  BY DEF Mark, marked, r
<1> HIDE DEF m
<1>9. IsBook(m, d) /\ (m.positions = b.positions \/ m.positions = marked.positions)
  BY <1>7, <1>8
<1> QED
  BY <1>2, <1>4, <1>5, <1>9 DEF m

\* metrics() of a broker are a view.
LEMMA MetricsAreView ==
  ASSUME NEW b \in Brokers
  PROVE  BookMetrics(b) \in Views
<1>1. Equity(b) \in Int /\ GrossExposure(b) \in Int /\ b.peak \in Int /\ b.dayStart \in Int
  BY BrokerFields, EquityIsInt
<1>2. \A x, y \in Int : Share(x, y) \in Int
  <2> SUFFICES ASSUME NEW x \in Int, NEW y \in Int, y > 0 PROVE (x * 100) \div y \in Int
    BY DEF Share
  <2>1. x * 100 \in Int
    OBVIOUS
  <2>2. \A z \in Int : z \div y \in Int
    OBVIOUS
  <2> QED
    BY <2>1, <2>2
<1>3. \A x \in Int : Higher(0, x) \in Nat
  BY DEF Higher
<1>4. b.peak - Equity(b) \in Int /\ b.dayStart - Equity(b) \in Int
  BY <1>1
<1> QED
  BY <1>1, <1>2, <1>3, <1>4 DEF BookMetrics, Views

-----------------------------------------------------------------------------
(* Types, and the books in memory, on their way and stored                 *)

\* Task t awaits call p, carries c and handles j, on day d.
TaskOK(t, p, c, j, d) ==
  /\ p \in Calls /\ c \in Cargos /\ j \in Jobs
  /\ p = "idle" <=> j = Nothing
  /\ p = "saving" <=> c.kind = "snapshot"
  /\ p = "pushing" <=> c.kind = "metrics"
  /\ p = "saving" => IsBook(c.broker, d)
  /\ p # "idle" => /\ t \in Fillers => p # "fetching" /\ j.msg \in Intake(t)
                   /\ t = "marks" => j.symbol \in Symbols
                   /\ t = "breaker" => p # "fetching" /\ j.msg \in Alerts

Booked ==
  /\ up \in BOOLEAN /\ today \in Nat /\ persistent \in BOOLEAN
  /\ IsBook(broker, today)
  /\ \A b \in redis : IsBook(b, today)
  /\ \A b, c \in redis : b = c
  /\ riskView \subseteq Views /\ \A v, w \in riskView : v = w

Tasked ==
  /\ DOMAIN pc = Tasks /\ DOMAIN cargo = Tasks /\ DOMAIN job = Tasks
  /\ pc \in [Tasks -> Calls] /\ cargo \in [Tasks -> Cargos] /\ job \in [Tasks -> Jobs]
  /\ behind \in [Tasks -> SUBSET Tasks]
  /\ \A t \in Tasks : TaskOK(t, pc[t], cargo[t], job[t], today)

\* What flatten_all has read and not sold was long and had a price.
IsToDo(left) ==
  /\ DOMAIN left \subseteq Symbols
  /\ \A s \in DOMAIN left : left[s] \in Positions /\ left[s].qty > 0 /\ left[s].last > 0

Counted ==
  /\ delivered \in [Messages -> Nat] /\ settled \subseteq Messages
  /\ events \in [Orders -> Nat] /\ everFilled \subseteq Orders
  /\ completed \subseteq Orders /\ staleSale \in BOOLEAN
  /\ boughtSince \subseteq Symbols /\ marks \in Nat /\ faults \in Nat

BookInv == Booked /\ Tasked /\ IsToDo(todo) /\ Counted

LEMMA BookInvIsSound == BookInv => BookIsSound
<1> SUFFICES ASSUME BookInv PROVE BookIsSound
  OBVIOUS
<1>1. TypeOK
  <2>1. broker \in Brokers /\ redis \subseteq Brokers
    BY DEF BookInv, Booked, IsBook
  <2>2. \A t \in Tasks :
          /\ pc[t] = "idle" <=> job[t] = Nothing
          /\ pc[t] = "saving" <=> cargo[t].kind = "snapshot"
          /\ pc[t] = "pushing" <=> cargo[t].kind = "metrics"
    BY DEF BookInv, Tasked, TaskOK
  <2> QED
    BY <2>1, <2>2 DEF BookInv, Booked, Tasked, IsToDo, Counted, TypeOK, Calls
<1>2. ASSUME NEW b, IsBook(b, today)
      PROVE  /\ LET n == Len(b.curve)
                IN  /\ b.curve[n] = [day |-> b.dayStartDate, equity |-> Equity(b)]
                    /\ \A i \in 2..n : b.curve[i - 1].day < b.curve[i].day
                    /\ n > 1 => b.dayStart = b.curve[n - 1].equity
             /\ b.peak >= Equity(b)
             /\ \A i \in DOMAIN b.curve : b.peak >= b.curve[i].equity
  <2>1. b.curve \in Seq(Points) /\ Len(b.curve) \in Nat /\ Len(b.curve) > 0
    BY <1>2 DEF IsBook, IsCurve
  <2>2. \A i \in DOMAIN b.curve : b.peak >= b.curve[i].equity
    BY <1>2, <2>1 DEF IsBook, Under
  <2>3. b.peak >= b.curve[Len(b.curve)].equity
    BY <2>1, <2>2
  <2>4. b.curve[Len(b.curve)] = [day |-> b.dayStartDate, equity |-> Equity(b)]
    BY <1>2 DEF IsBook, IsCurve
  <2>5. b.peak >= Equity(b)
    BY <2>3, <2>4
  <2> QED
    BY <1>2, <2>2, <2>4, <2>5 DEF IsBook, IsCurve
<1>3. \A b \in {broker} \union redis : IsBook(b, today)
  BY DEF BookInv, Booked
<1> QED
  BY <1>1, <1>2, <1>3 DEF BookIsSound, CurveFollowsBook, PeakIsHigh

\* Task t alone goes on, to call p with cargo c and job j.
LEMMA OneTask ==
  ASSUME BookInv, NEW t \in Tasks, NEW p, NEW c, NEW j, TaskOK(t, p, c, j, today),
         pc' = [pc EXCEPT ![t] = p], cargo' = [cargo EXCEPT ![t] = c],
         job' = [job EXCEPT ![t] = j], behind' \in [Tasks -> SUBSET Tasks], today' = today
  PROVE  Tasked'
<1>1. p \in Calls /\ c \in Cargos /\ j \in Jobs
  BY DEF TaskOK
<1>2. \A u \in Tasks : TaskOK(u, pc'[u], cargo'[u], job'[u], today')
  BY DEF BookInv, Tasked
<1> QED
  BY <1>1, <1>2 DEF BookInv, Tasked

LEMMA BookedAgain ==
  ASSUME BookInv, UNCHANGED <<up, today, persistent, redis, riskView>>, IsBook(broker', today)
  PROVE  Booked'
  BY DEF BookInv, Booked

LEMMA IssueKeepsTasks ==
  ASSUME BookInv, NEW t \in Tasks, NEW b, IsBook(b, today), IssueSave(t, b),
         NEW j \in Jobs, j # Nothing, job' = [job EXCEPT ![t] = j], today' = today,
         t \in Fillers => j.msg \in Intake(t),
         t = "marks" => j.symbol \in Symbols,
         t = "breaker" => j.msg \in Alerts
  PROVE  Tasked'
<1> DEFINE c == [kind |-> "snapshot", broker |-> b]
<1>1. /\ pc' = [pc EXCEPT ![t] = "saving"] /\ cargo' = [cargo EXCEPT ![t] = c]
      /\ behind' = [behind EXCEPT ![t] = {u \in Tasks \ {t} : pc[u] = "saving"}]
  BY DEF IssueSave, Send, Await
<1>2. behind' \in [Tasks -> SUBSET Tasks]
  BY <1>1 DEF BookInv, Tasked
<1>3. c \in Cargos /\ c.kind = "snapshot" /\ c.broker = b
  BY DEF Cargos, IsBook
<1> HIDE DEF c
<1>4. TaskOK(t, "saving", c, j, today)
  BY <1>3 DEF TaskOK, Calls
<1> QED
  BY <1>1, <1>2, <1>4, OneTask

\* A task that goes on with the same job.
LEMMA SameJob ==
  ASSUME BookInv, NEW t \in Tasks, pc[t] # "idle"
  PROVE  /\ job[t] \in Jobs /\ job[t] # Nothing
         /\ job = [job EXCEPT ![t] = job[t]]
         /\ t \in Fillers => job[t].msg \in Intake(t)
         /\ t = "marks" => job[t].symbol \in Symbols
         /\ t = "breaker" => job[t].msg \in Alerts
<1>1. TaskOK(t, pc[t], cargo[t], job[t], today)
  BY DEF BookInv, Tasked
<1> QED
  BY <1>1 DEF TaskOK, BookInv, Tasked

LEMMA PublishingKeepsTasks ==
  ASSUME BookInv, NEW t \in Tasks, Await(t, "publishing"), today' = today,
         NEW j \in Jobs, j # Nothing, job' = [job EXCEPT ![t] = j],
         t \in Fillers => j.msg \in Intake(t),
         t = "marks" => j.symbol \in Symbols,
         t = "breaker" => j.msg \in Alerts,
         behind' \in [Tasks -> SUBSET Tasks],
         \/ cargo' = [cargo EXCEPT ![t] = Nothing]
         \/ cargo' = cargo /\ pc[t] \notin {"saving", "pushing"}
  PROVE  Tasked'
<1>1. CASE cargo' = [cargo EXCEPT ![t] = Nothing]
  <2>1. TaskOK(t, "publishing", Nothing, j, today)
    BY DEF TaskOK, Calls, Cargos, Nothing
  <2> QED
    BY <1>1, <2>1, OneTask DEF Await
<1>2. CASE cargo' = cargo /\ pc[t] \notin {"saving", "pushing"}
  <2>1. cargo' = [cargo EXCEPT ![t] = cargo[t]]
    BY <1>2 DEF BookInv, Tasked
  <2>2. TaskOK(t, pc[t], cargo[t], job[t], today)
    BY DEF BookInv, Tasked
  <2>3. TaskOK(t, "publishing", cargo[t], j, today)
    BY <1>2, <2>2 DEF TaskOK, Calls
  <2> QED
    BY <2>1, <2>3, OneTask DEF Await
<1> QED
  BY <1>1, <1>2

LEMMA PushKeepsTasks ==
  ASSUME BookInv, NEW t \in Tasks, Await(t, "pushing"), UNCHANGED <<today, job>>, pc[t] # "idle",
         cargo' = [cargo EXCEPT ![t] = [kind |-> "metrics", metrics |-> BookMetrics(broker)]],
         behind' \in [Tasks -> SUBSET Tasks]
  PROVE  Tasked'
<1> DEFINE c == [kind |-> "metrics", metrics |-> BookMetrics(broker)]
<1>1. BookMetrics(broker) \in Views
  BY MetricsAreView DEF BookInv, Booked, IsBook
<1>2. c \in Cargos /\ c.kind = "metrics"
  BY <1>1 DEF Cargos
<1> HIDE DEF c
<1>3. TaskOK(t, "pushing", c, job[t], today)
  BY <1>2, SameJob DEF TaskOK, Calls
<1>4. job' = [job EXCEPT ![t] = job[t]]
  BY SameJob
<1> QED
  BY <1>3, <1>4, OneTask DEF Await, c

LEMMA EndKeepsTasks ==
  ASSUME BookInv, NEW t \in Tasks, pc[t] # "idle", NEW done \in BOOLEAN, EndTask(t, done),
         today' = today
  PROVE  /\ Tasked' /\ IsToDo(todo') /\ settled' \subseteq Messages
<1>1. TaskOK(t, "idle", Nothing, Nothing, today)
  BY DEF TaskOK, Calls, Cargos, Jobs, Nothing
<1>2. behind' \in [Tasks -> SUBSET Tasks]
  BY DEF EndTask, Passed, BookInv, Tasked
<1>3. Tasked'
  BY <1>1, <1>2, OneTask DEF EndTask, Await
<1>4. IsToDo(todo')
  <2>1. IsToDo(<<>>)
    BY DEF IsToDo
  <2> QED
    BY <2>1 DEF EndTask, BookInv
<1>5. settled' \subseteq Messages
  BY SameJob DEF EndTask, BookInv, Counted, Messages, Fillers, Intake
<1> QED
  BY <1>3, <1>4, <1>5

LEMMA CountedAgain ==
  ASSUME BookInv, UNCHANGED <<delivered, settled, events, everFilled, completed, staleSale,
                              boughtSince, marks, faults>>
  PROVE  Counted'
  BY DEF BookInv, Counted

LEMMA ExecuteOrderKeepsBook ==
  ASSUME BookInv, NEW t \in Fillers, NEW o \in Orders, ExecuteOrder(t, o)
  PROVE  BookInv'
<1> DEFINE buy == o.side = "BUY"
           stop == IF buy THEN o.stop ELSE NoLevel
           take == IF buy THEN o.take ELSE NoLevel
           b == Fill(broker, {o}, o.symbol, o.side, FillQty(o), o.price, stop, take, today)
<1>1. /\ o.symbol \in Symbols /\ o.qty \in Int /\ o.price \in Nat \ {0}
      /\ stop \in Nat /\ take \in Nat
  BY ExecutionAssumption DEF NoLevel
<1>2. IsBook(broker, today) /\ today \in Nat /\ broker.positions \in [Symbols -> Positions]
  BY DEF BookInv, Booked, IsBook, Brokers
<1>3. FillQty(o) \in Int
  BY <1>1, <1>2 DEF FillQty, Positions
<1> HIDE DEF stop, take
<1>4. IsBook(b, today)
  <2>1. {o} \in SUBSET Orders
    OBVIOUS
  <2> QED
    BY <1>1, <1>2, <1>3, <2>1, FillMoves DEF Moves
<1>5. /\ broker' = b /\ IssueSave(t, b)
      /\ job' = [job EXCEPT ![t] = [kind |-> "order", msg |-> o]]
      /\ UNCHANGED <<up, today, persistent, redis, riskView, todo, settled,
                     events, completed, staleSale, marks, faults>>
      /\ everFilled' = everFilled \union {o}
      /\ boughtSince' \subseteq boughtSince \union {o.symbol}
      /\ TakeOrder(t, o)
  BY DEF ExecuteOrder, stop, take
<1> HIDE DEF b
<1>6. Booked'
  BY <1>4, <1>5, BookedAgain
<1>7. Tasked'
  <2> DEFINE j == [kind |-> "order", msg |-> o]
  <2>1. j \in Jobs /\ j # Nothing /\ j.msg = o
    BY DEF Jobs, Nothing
  <2>2. t \in Tasks /\ o \in Intake(t) /\ t \notin {"marks", "breaker"}
    BY <1>5 DEF TakeOrder, Intake, Fillers, Tasks
  <2> HIDE DEF j
  <2> QED
    BY <1>4, <1>5, <2>1, <2>2, IssueKeepsTasks DEF j
<1>8. IsToDo(todo')
  BY <1>5 DEF BookInv
<1>9. Counted'
  <2>1. delivered' \in [Messages -> Nat]
    BY <1>5 DEF TakeOrder, BookInv, Counted
  <2> QED
    BY <1>1, <1>5, <2>1 DEF BookInv, Counted
<1> QED
  BY <1>6, <1>7, <1>8, <1>9 DEF BookInv

LEMMA MarkBeginKeepsBook ==
  ASSUME BookInv, NEW s \in Symbols, MarkBegin(s)
  PROVE  BookInv'
<1> DEFINE j == [kind |-> "mark", symbol |-> s]
<1>1. /\ pc["marks"] = "idle" /\ pc' = [pc EXCEPT !["marks"] = "fetching"]
      /\ job' = [job EXCEPT !["marks"] = j] /\ marks' = marks + 1
      /\ UNCHANGED <<up, today, broker, persistent, redis, riskView, cargo, behind, todo,
                     delivered, settled, events, everFilled, completed, staleSale, boughtSince, faults>>
  BY DEF MarkBegin, Running, Await, memory, inbox
<1>2. "marks" \in Tasks /\ "marks" \notin Fillers
  BY DEF Tasks, Fillers
<1>3. TaskOK("marks", "fetching", cargo["marks"], j, today)
  <2>1. TaskOK("marks", pc["marks"], cargo["marks"], job["marks"], today)
    BY <1>2 DEF BookInv, Tasked
  <2>2. j \in Jobs /\ j # Nothing /\ j.symbol \in Symbols
    BY DEF Jobs, Nothing
  <2> QED
    BY <1>1, <1>2, <2>1, <2>2 DEF TaskOK, Calls
<1>4. cargo' = [cargo EXCEPT !["marks"] = cargo["marks"]] /\ behind' \in [Tasks -> SUBSET Tasks]
  BY <1>1 DEF BookInv, Tasked
<1> HIDE DEF j
<1>5. Tasked'
  BY <1>1, <1>2, <1>3, <1>4, OneTask
<1>6. Booked' /\ IsToDo(todo')
  BY <1>1, BookedAgain DEF BookInv, Booked
<1>7. Counted'
  BY <1>1 DEF BookInv, Counted
<1> QED
  BY <1>5, <1>6, <1>7 DEF BookInv

\* What the close does to the book, and to the position it is of.
LEMMA MarkPositionMoves ==
  ASSUME BookInv, NEW c \in Prices, MarkPosition(c)
  PROVE  /\ pc["marks"] = "fetching" /\ IsBook(broker', today)
         /\ \A s \in Symbols : broker'.positions[s].qty \in {0, broker.positions[s].qty}
         /\ UNCHANGED <<up, today, persistent, redis, riskView, job, todo, inbox, history>>
         /\ \/ Await("marks", "publishing") /\ UNCHANGED <<cargo, behind>>
            \/ IssueSave("marks", broker')
<1> DEFINE s == job["marks"].symbol
           b == Mark(broker, s, c, today)
           p == b.positions[s]
           sold == Fill(b, {}, s, "SELL", p.qty, c, NoLevel, NoLevel, today)
<1>1. /\ pc["marks"] = "fetching"
      /\ IF Breached(p)
           THEN broker' = sold /\ Await("marks", "publishing") /\ UNCHANGED <<cargo, behind>>
           ELSE broker' = b /\ IssueSave("marks", b)
      /\ UNCHANGED <<up, today, persistent, redis, riskView, job, todo, inbox, history>>
  BY DEF MarkPosition
<1>2. s \in Symbols
  <2>1. "marks" \in Tasks
    BY DEF Tasks
  <2> QED
    BY <1>1, <2>1, SameJob
<1>3. c \in Nat \ {0} /\ today \in Nat /\ IsBook(broker, today)
  BY ExecutionAssumption DEF BookInv, Booked
<1> HIDE DEF s
<1>4. /\ IsBook(b, today)
      /\ \A u \in Symbols : b.positions[u].qty = broker.positions[u].qty
  BY <1>2, <1>3, MarkMoves
<1> HIDE DEF b
<1>5. p.qty \in Int
  BY <1>2, <1>4 DEF IsBook, Brokers, Positions
<1>6. /\ IsBook(sold, today)
      /\ \A u \in Symbols \ {s} : sold.positions[u] = b.positions[u]
      /\ sold.positions[s].qty = p.qty - p.qty
  <2> HIDE DEF p
  <2>1. Moves(sold, b, s, p.qty - p.qty, today)
    BY <1>2, <1>3, <1>4, <1>5, SaleMoves DEF p
  <2> QED
    BY <2>1 DEF Moves
<1>7. p.qty - p.qty = 0
  BY <1>5
<1> HIDE DEF sold, p
<1>8. broker' \in {sold, b}
  BY <1>1
<1> QED
  BY <1>1, <1>4, <1>6, <1>7, <1>8

LEMMA MarkPositionKeepsBook ==
  ASSUME BookInv, NEW c \in Prices, MarkPosition(c)
  PROVE  BookInv'
<1>1. /\ pc["marks"] = "fetching" /\ IsBook(broker', today)
      /\ UNCHANGED <<up, today, persistent, redis, riskView, job, todo, inbox, history>>
      /\ \/ Await("marks", "publishing") /\ UNCHANGED <<cargo, behind>>
         \/ IssueSave("marks", broker')
  BY MarkPositionMoves
<1>2. "marks" \in Tasks /\ "marks" \notin Fillers
  BY DEF Tasks, Fillers
<1>3. /\ job["marks"] \in Jobs /\ job["marks"] # Nothing
      /\ job' = [job EXCEPT !["marks"] = job["marks"]]
      /\ job["marks"].symbol \in Symbols
  BY <1>1, <1>2, SameJob
<1>4. Tasked'
  <2>1. CASE Await("marks", "publishing") /\ UNCHANGED <<cargo, behind>>
    <3>1. behind' \in [Tasks -> SUBSET Tasks]
      BY <2>1 DEF BookInv, Tasked
    <3> QED
      BY <1>1, <1>2, <1>3, <2>1, <3>1, PublishingKeepsTasks
  <2>2. CASE IssueSave("marks", broker')
    BY <1>1, <1>2, <1>3, <2>2, IssueKeepsTasks
  <2> QED
    BY <1>1, <2>1, <2>2
<1>5. Booked' /\ IsToDo(todo') /\ Counted'
  BY <1>1, BookedAgain, CountedAgain DEF BookInv, inbox, history
<1> QED
  BY <1>4, <1>5 DEF BookInv

\* A liquidation sells what was read of one symbol and touches no other.
LEMMA LiquidateMoves ==
  ASSUME BookInv, NEW left, IsToDo(left), Liquidate(left)
  PROVE  \E s \in DOMAIN left :
           /\ IsBook(broker', today) /\ s \in Symbols
           /\ \A u \in Symbols \ {s} : broker'.positions[u] = broker.positions[u]
           /\ broker'.positions[s].qty = broker.positions[s].qty - left[s].qty
           /\ todo' = [r \in DOMAIN left \ {s} |-> left[r]]
           /\ staleSale' \in BOOLEAN
           /\ Await("breaker", "publishing") /\ UNCHANGED <<cargo, behind>>
<1> PICK s \in DOMAIN left :
      /\ broker' = Fill(broker, {}, s, "SELL", left[s].qty, left[s].last, NoLevel, NoLevel, today)
      /\ todo' = [r \in DOMAIN left \ {s} |-> left[r]]
      /\ staleSale' = (staleSale \/ left[s].qty # broker.positions[s].qty)
      /\ Await("breaker", "publishing") /\ UNCHANGED <<cargo, behind>>
  BY DEF Liquidate
<1>1. s \in Symbols /\ left[s].qty \in Int /\ left[s].last \in Nat \ {0}
  BY DEF IsToDo, Positions
<1>2. today \in Nat /\ IsBook(broker, today)
  BY DEF BookInv, Booked
<1>3. /\ IsBook(broker', today)
      /\ \A u \in Symbols \ {s} : broker'.positions[u] = broker.positions[u]
      /\ broker'.positions[s].qty = broker.positions[s].qty - left[s].qty
  BY <1>1, <1>2, SaleMoves DEF Moves
<1>4. staleSale' \in BOOLEAN
  BY DEF BookInv, Counted
<1> QED
  BY <1>1, <1>3, <1>4

LEMMA LiquidateKeepsBook ==
  ASSUME BookInv, NEW left, IsToDo(left), Liquidate(left), pc["breaker"] \in {"idle", "publishing"},
         NEW j \in Jobs, j # Nothing, j.msg \in Alerts, job' = [job EXCEPT !["breaker"] = j],
         UNCHANGED <<up, today, persistent, redis, riskView, settled, events, everFilled,
                     completed, marks, faults>>,
         delivered' \in [Messages -> Nat], boughtSince' \subseteq Symbols
  PROVE  BookInv'
<1> PICK s \in DOMAIN left :
           /\ IsBook(broker', today)
           /\ todo' = [r \in DOMAIN left \ {s} |-> left[r]]
           /\ staleSale' \in BOOLEAN
           /\ Await("breaker", "publishing") /\ UNCHANGED <<cargo, behind>>
  BY LiquidateMoves
<1>1. Booked'
  BY BookedAgain
<1>2. Tasked'
  <2>1. "breaker" \in Tasks /\ "breaker" \notin Fillers /\ pc["breaker"] \notin {"saving", "pushing"}
    BY DEF Tasks, Fillers
  <2>2. behind' \in [Tasks -> SUBSET Tasks]
    BY DEF BookInv, Tasked
  <2> QED
    BY <2>1, <2>2, PublishingKeepsTasks
<1>3. IsToDo(todo')
  BY DEF IsToDo
<1>4. Counted'
  BY DEF BookInv, Counted
<1> QED
  BY <1>1, <1>2, <1>3, <1>4 DEF BookInv

LEMMA IssueKeepsBook ==
  ASSUME BookInv, NEW t \in {"marks", "breaker"}, IssueSave(t, broker), UNCHANGED <<broker, todo>>,
         NEW j \in Jobs, j # Nothing, job' = [job EXCEPT ![t] = j],
         t = "marks" => j.symbol \in Symbols,
         t = "breaker" => j.msg \in Alerts,
         UNCHANGED <<up, today, persistent, redis, riskView>>, Counted'
  PROVE  BookInv'
<1>1. t \in Tasks /\ t \notin Fillers /\ IsBook(broker, today)
  BY DEF Tasks, Fillers, BookInv, Booked
<1>2. Tasked'
  BY <1>1, IssueKeepsTasks
<1>3. Booked' /\ IsToDo(todo')
  BY <1>1, BookedAgain DEF BookInv
<1> QED
  BY <1>2, <1>3 DEF BookInv

LEMMA FlattenKeepsBook ==
  ASSUME BookInv, FlattenNext \/ \E a \in Alerts : FlattenBegin(a)
  PROVE  BookInv'
<1>1. CASE FlattenNext
  <2>1. pc["breaker"] = "publishing" /\ "breaker" \in Tasks
    BY <1>1 DEF FlattenNext, Tasks
  <2>2. /\ job["breaker"] \in Jobs /\ job["breaker"] # Nothing /\ job["breaker"].msg \in Alerts
        /\ job = [job EXCEPT !["breaker"] = job["breaker"]]
    BY <2>1, SameJob
  <2>3. /\ UNCHANGED <<up, today, persistent, redis, riskView, job, delivered, settled,
                       events, everFilled, completed, boughtSince, marks, faults>>
        /\ \/ IssueSave("breaker", broker) /\ UNCHANGED <<broker, todo, staleSale>>
           \/ Liquidate(todo)
    BY <1>1 DEF FlattenNext, inbox
  <2>4. delivered' \in [Messages -> Nat] /\ boughtSince' \subseteq Symbols /\ IsToDo(todo)
    BY <2>3 DEF BookInv, Counted
  <2>5. CASE Liquidate(todo)
    BY <2>1, <2>2, <2>3, <2>4, <2>5, LiquidateKeepsBook
  <2>6. CASE IssueSave("breaker", broker) /\ UNCHANGED <<broker, todo, staleSale>>
    BY <2>1, <2>2, <2>3, <2>6, IssueKeepsBook, CountedAgain
  <2> QED
    BY <2>3, <2>5, <2>6
<1>2. ASSUME NEW a \in Alerts, FlattenBegin(a)
      PROVE  BookInv'
  <2>1. /\ pc["breaker"] = "idle" /\ a \in Messages
        /\ delivered' = [delivered EXCEPT ![a] = @ + 1]
        /\ UNCHANGED <<up, today, persistent, redis, riskView,
                       events, everFilled, completed, marks, faults>>
    BY <1>2 DEF FlattenBegin, Running, Messages
  <2>2. delivered' \in [Messages -> Nat]
    BY <2>1 DEF BookInv, Counted
  <2>3. CASE Open(broker) = {}
    <3>1. settled' = settled \union {a} /\ UNCHANGED <<broker, pc, cargo, behind, job, todo, staleSale, boughtSince>>
      BY <1>2, <2>3 DEF FlattenBegin, NothingToFlatten, tasks
    <3>2. Booked' /\ IsToDo(todo')
      BY <2>1, <3>1, BookedAgain DEF BookInv, Booked
    <3>3. Tasked'
      BY <2>1, <3>1 DEF BookInv, Tasked
    <3>4. Counted'
      BY <2>1, <2>2, <3>1 DEF BookInv, Counted
    <3> QED
      BY <3>2, <3>3, <3>4 DEF BookInv
  <2>4. CASE Open(broker) # {}
    <3> DEFINE j == [kind |-> "alert", msg |-> a]
               left == [s \in Sellable |-> broker.positions[s]]
    <3>1. /\ boughtSince' = {} /\ job' = [job EXCEPT !["breaker"] = j] /\ UNCHANGED settled
          /\ \/ IssueSave("breaker", broker) /\ UNCHANGED <<broker, todo, staleSale>>
             \/ Liquidate(left)
      BY <1>2, <2>4 DEF FlattenBegin
    <3>2. j \in Jobs /\ j # Nothing /\ j.msg \in Alerts
      BY DEF Jobs, Nothing
    <3>3. IsToDo(left)
      BY DEF IsToDo, Sellable, BookInv, Booked, IsBook, Brokers
    <3> HIDE DEF j, left
    <3>4. CASE Liquidate(left)
      BY <2>1, <2>2, <3>1, <3>2, <3>3, <3>4, LiquidateKeepsBook
    <3>5. CASE IssueSave("breaker", broker) /\ UNCHANGED <<broker, todo, staleSale>>
      <4>1. Counted'
        BY <2>1, <2>2, <3>1, <3>5 DEF BookInv, Counted
      <4> QED
        BY <2>1, <3>1, <3>2, <3>5, <4>1, IssueKeepsBook
    <3> QED
      BY <3>1, <3>4, <3>5
  <2> QED
    BY <2>3, <2>4
<1> QED
  BY <1>1, <1>2

LEMMA OneMore ==
  ASSUME NEW f \in [Orders -> Nat], NEW x
  PROVE  [f EXCEPT ![x] = @ + 1] \in [Orders -> Nat]
<1> DEFINE g == [f EXCEPT ![x] = @ + 1]
<1>1. g = [o \in Orders |-> IF o = x THEN f[o] + 1 ELSE f[o]]
  OBVIOUS
<1>2. \A o \in Orders : f[o] \in Nat /\ f[o] + 1 \in Nat
  OBVIOUS
<1> QED
  BY <1>1, <1>2

LEMMA PublishFillKeepsBook ==
  ASSUME BookInv, NEW t \in Tasks, PublishFill(t)
  PROVE  BookInv'
<1>1. /\ t # "breaker" /\ pc[t] = "publishing"
      /\ UNCHANGED <<up, today, broker, persistent, redis, riskView, job, todo, delivered, settled,
                     everFilled, completed, staleSale, boughtSince, marks, faults>>
  BY DEF PublishFill, memory, inbox
<1>2. /\ job[t] \in Jobs /\ job[t] # Nothing /\ job' = [job EXCEPT ![t] = job[t]]
      /\ t \in Fillers => job[t].msg \in Intake(t)
      /\ t = "marks" => job[t].symbol \in Symbols
  BY <1>1, SameJob
<1>3. CASE t = "marks"
  <2>1. IssueSave(t, broker) /\ UNCHANGED events
    BY <1>3 DEF PublishFill
  <2> QED
    BY <1>1, <1>2, <1>3, <2>1, IssueKeepsBook, CountedAgain
<1>4. CASE t # "marks"
  <2>1. /\ Await(t, "pushing")
        /\ cargo' = [cargo EXCEPT ![t] = [kind |-> "metrics", metrics |-> BookMetrics(broker)]]
        /\ behind' = [behind EXCEPT ![t] = {u \in Tasks \ {t} : pc[u] = "pushing"}]
        /\ events' = [events EXCEPT ![job[t].msg] = @ + 1]
    BY <1>4 DEF PublishFill, Send
  <2>2. behind' \in [Tasks -> SUBSET Tasks]
    BY <2>1 DEF BookInv, Tasked
  <2>3. Tasked'
    BY <1>1, <2>1, <2>2, PushKeepsTasks
  <2>4. Booked' /\ IsToDo(todo')
    BY <1>1, BookedAgain DEF BookInv, Booked
  <2>5. events' \in [Orders -> Nat]
    BY <2>1, OneMore DEF BookInv, Counted
  <2>6. Counted'
    BY <1>1, <2>5 DEF BookInv, Counted
  <2> QED
    BY <2>3, <2>4, <2>6 DEF BookInv
<1> QED
  BY <1>3, <1>4

LEMMA SaveLandsKeepsBook ==
  ASSUME BookInv, NEW t \in Tasks, SaveLands(t)
  PROVE  BookInv'
<1>1. /\ pc[t] = "saving" /\ redis' = Stored(cargo[t].broker)
      /\ AfterSave(t)
      /\ UNCHANGED <<up, today, broker, persistent, riskView, delivered, events, everFilled,
                     completed, staleSale, boughtSince, marks, faults>>
  BY DEF SaveLands, Arrives, memory, history
<1>2. /\ job[t] \in Jobs /\ job[t] # Nothing /\ job = [job EXCEPT ![t] = job[t]]
      /\ t \in Fillers => job[t].msg \in Intake(t)
      /\ t = "marks" => job[t].symbol \in Symbols
      /\ t = "breaker" => job[t].msg \in Alerts
  BY <1>1, SameJob
<1>3. IsBook(cargo[t].broker, today)
  BY <1>1 DEF BookInv, Tasked, TaskOK
<1>4. Booked'
  BY <1>1, <1>3 DEF BookInv, Booked, Stored
<1>5. /\ UNCHANGED <<job, todo, settled>>
      /\ behind' \in [Tasks -> SUBSET Tasks]
      /\ \/ Await(t, "publishing") /\ cargo' = [cargo EXCEPT ![t] = Nothing]
         \/ /\ Await(t, "pushing")
            /\ cargo' = [cargo EXCEPT ![t] = [kind |-> "metrics", metrics |-> BookMetrics(broker)]]
  <2>1. Passed(t) \in [Tasks -> SUBSET Tasks]
    BY DEF Passed, BookInv, Tasked
  <2>2. CASE PublishAfterSave(t)
    BY <2>1, <2>2 DEF PublishAfterSave
  <2>3. CASE PushAfterSave(t)
    BY <2>1, <2>3 DEF PushAfterSave
  <2> QED
    BY <1>1, <2>2, <2>3 DEF AfterSave
<1>6. Tasked'
  <2>1. CASE Await(t, "publishing") /\ cargo' = [cargo EXCEPT ![t] = Nothing]
    BY <1>1, <1>2, <1>5, <2>1, PublishingKeepsTasks
  <2>2. CASE /\ Await(t, "pushing")
             /\ cargo' = [cargo EXCEPT ![t] = [kind |-> "metrics", metrics |-> BookMetrics(broker)]]
    BY <1>1, <1>5, <2>2, PushKeepsTasks
  <2> QED
    BY <1>5, <2>1, <2>2
<1>7. IsToDo(todo') /\ Counted'
  BY <1>1, <1>5 DEF BookInv, Counted
<1> QED
  BY <1>4, <1>6, <1>7 DEF BookInv

\* The handler of task t ends; what it published or completed may be counted.
LEMMA EndKeepsBook ==
  ASSUME BookInv, NEW t \in Tasks, pc[t] # "idle", NEW done \in BOOLEAN, EndTask(t, done),
         UNCHANGED <<up, today, broker, persistent, redis, delivered,
                     everFilled, staleSale, boughtSince, marks>>,
         riskView' = riskView \/ \E v \in Views : riskView' = {v},
         events' \in [Orders -> Nat], completed' \subseteq Orders, faults' \in Nat
  PROVE  BookInv'
<1>1. Tasked' /\ IsToDo(todo') /\ settled' \subseteq Messages
  BY EndKeepsTasks
<1>2. Booked'
  BY DEF BookInv, Booked
<1>3. Counted'
  BY <1>1 DEF BookInv, Counted
<1> QED
  BY <1>1, <1>2, <1>3 DEF BookInv

LEMMA EndsKeepBook ==
  ASSUME BookInv,
         \/ NoClose
         \/ \E t \in Tasks : SaveFails(t) \/ PushArrives(t) \/ PushFails(t)
         \/ \E t \in Tasks, stored \in BOOLEAN : PublishFails(t, stored)
  PROVE  BookInv'
<1>0. /\ events \in [Orders -> Nat] /\ completed \subseteq Orders /\ faults \in Nat
      /\ faults + 1 \in Nat
  BY DEF BookInv, Counted
<1>1. CASE NoClose
  <2>1. /\ "marks" \in Tasks /\ pc["marks"] # "idle" /\ EndTask("marks", TRUE)
        /\ UNCHANGED <<up, today, broker, persistent, redis, riskView, delivered, events,
                       everFilled, completed, staleSale, boughtSince, marks, faults>>
    BY <1>1 DEF NoClose, Tasks, memory, history
  <2> QED
    BY <1>0, <2>1, EndKeepsBook
<1>2. ASSUME NEW t \in Tasks, SaveFails(t)
      PROVE  BookInv'
  <2>1. /\ pc[t] # "idle" /\ EndTask(t, FALSE) /\ faults' = faults + 1
        /\ UNCHANGED <<up, today, broker, persistent, redis, riskView, delivered, events,
                       everFilled, completed, staleSale, boughtSince, marks>>
    BY <1>2 DEF SaveFails, Fault, memory
  <2> QED
    BY <1>0, <2>1, EndKeepsBook
<1>3. ASSUME NEW t \in Tasks, PushArrives(t) \/ PushFails(t)
      PROVE  BookInv'
  <2>1. /\ pc[t] = "pushing" /\ EndTask(t, TRUE) /\ faults' \in {faults, faults + 1}
        /\ UNCHANGED <<up, today, broker, persistent, redis, delivered, events,
                       everFilled, staleSale, boughtSince, marks>>
        /\ completed' \subseteq completed \union
                           (IF t \in Fillers THEN {job[t].msg} ELSE {})
        /\ riskView' = riskView \/ riskView' = {cargo[t].metrics}
    BY <1>3 DEF PushArrives, PushFails, EndPush, Arrives, Fault, memory, Fillers
  <2>2. completed' \subseteq Orders
    BY <1>0, <2>1, SameJob DEF Intake, Orders
  <2>3. cargo[t].metrics \in Views
    <3>1. cargo[t] \in Cargos /\ cargo[t].kind = "metrics"
      BY <2>1 DEF BookInv, Tasked, TaskOK
    <3> QED
      BY <3>1 DEF Cargos, Nothing
  <2>4. faults' \in Nat
    BY <1>0, <2>1
  <2> QED
    BY <1>0, <2>1, <2>2, <2>3, <2>4, EndKeepsBook
<1>4. ASSUME NEW t \in Tasks, NEW stored \in BOOLEAN, PublishFails(t, stored)
      PROVE  BookInv'
  <2>1. /\ pc[t] # "idle" /\ EndTask(t, FALSE) /\ faults' = faults + 1
        /\ UNCHANGED <<up, today, broker, persistent, redis, riskView, delivered,
                       everFilled, completed, staleSale, boughtSince, marks>>
        /\ events' = events \/ events' = [events EXCEPT ![job[t].msg] = @ + 1]
    BY <1>4 DEF PublishFails, Fault, memory
  <2>2. events' \in [Orders -> Nat]
    BY <1>0, <2>1
  <2> QED
    BY <1>0, <2>1, <2>2, EndKeepsBook
<1> QED
  BY <1>1, <1>2, <1>3, <1>4

LEMMA CrashKeepsBook ==
  ASSUME BookInv, NEW stored \in BOOLEAN, Crash(stored)
  PROVE  BookInv'
<1>1. IsBook(NewBroker(today), today)
  BY NewBrokerIsBook DEF BookInv, Booked
<1>2. /\ up' = FALSE /\ broker' = NewBroker(today)
      /\ pc' = [t \in Tasks |-> "idle"] /\ cargo' = [t \in Tasks |-> Nothing]
      /\ behind' = [t \in Tasks |-> {}] /\ job' = [t \in Tasks |-> Nothing]
      /\ todo' = <<>> /\ faults' = faults + 1
      /\ events' = [o \in Orders |->
           IF /\ stored
              /\ \E t \in {"orders", "http"} : pc[t] = "publishing" /\ job[t].msg = o
             THEN events[o] + 1 ELSE events[o]]
      /\ UNCHANGED <<today, persistent, redis, riskView, delivered, settled,
                     everFilled, completed, staleSale, boughtSince, marks>>
  BY DEF Crash, Fault, inbox
<1>3. Booked'
  BY <1>1, <1>2 DEF BookInv, Booked
<1>4. Tasked'
  <2>1. \A t \in Tasks : TaskOK(t, "idle", Nothing, Nothing, today)
    BY DEF TaskOK, Calls, Cargos, Jobs, Nothing
  <2>2. Nothing \in Cargos /\ Nothing \in Jobs /\ "idle" \in Calls
    BY DEF Cargos, Jobs, Calls
  <2> QED
    BY <1>2, <2>1, <2>2 DEF Tasked
<1>5. IsToDo(todo')
  BY <1>2 DEF IsToDo
<1>6. Counted'
  <2>1. events \in [Orders -> Nat]
    BY DEF BookInv, Counted
  <2>2. events' \in [Orders -> Nat]
    BY <1>2, <2>1
  <2> QED
    BY <1>2, <2>2 DEF BookInv, Counted
<1> QED
  BY <1>3, <1>4, <1>5, <1>6 DEF BookInv

LEMMA RestartKeepsBook ==
  ASSUME BookInv, Restart \/ RestartWithoutRedis
  PROVE  BookInv'
<1>1. IsBook(NewBroker(today), today)
  BY NewBrokerIsBook DEF BookInv, Booked
<1>2. /\ up' = TRUE /\ persistent' \in BOOLEAN
      /\ broker' = NewBroker(today) \/ broker' \in redis
      /\ UNCHANGED <<today, redis, riskView, pc, cargo, behind, job, todo, delivered, settled,
                     events, everFilled, completed, staleSale, boughtSince, marks, faults>>
  BY DEF Restart, RestartWithoutRedis, Restored, tasks, inbox, history
<1>3. Booked'
  BY <1>1, <1>2 DEF BookInv, Booked
<1>4. Tasked' /\ IsToDo(todo')
  BY <1>2 DEF BookInv, Tasked
<1> QED
  BY <1>2, <1>3, <1>4, CountedAgain DEF BookInv

LEMMA NextDayKeepsBook ==
  ASSUME BookInv, NextDay
  PROVE  BookInv'
<1>1. /\ today \in Nat /\ today' = today + 1
      /\ UNCHANGED <<up, broker, persistent, redis, riskView, pc, cargo, behind, job, todo,
                     delivered, settled, events, everFilled, completed, staleSale, boughtSince,
                     marks, faults>>
  BY DEF NextDay, memory, tasks, inbox, history, BookInv, Booked
<1>2. ASSUME NEW b, IsBook(b, today)
      PROVE  IsBook(b, today')
  <2>1. b.dayStartDate \in Nat /\ b.dayStartDate <= today
    BY <1>2 DEF IsBook, Brokers
  <2>2. b.dayStartDate <= today'
    BY <1>1, <2>1
  <2> QED
    BY <1>2, <2>2 DEF IsBook
<1>3. Booked'
  BY <1>1, <1>2 DEF BookInv, Booked
<1>4. ASSUME NEW t \in Tasks
      PROVE  TaskOK(t, pc[t], cargo[t], job[t], today')
  <2>1. TaskOK(t, pc[t], cargo[t], job[t], today)
    BY DEF BookInv, Tasked
  <2> QED
    BY <1>2, <2>1 DEF TaskOK
<1>5. Tasked'
  BY <1>1, <1>4 DEF BookInv, Tasked
<1> QED
  BY <1>1, <1>3, <1>5, CountedAgain DEF BookInv

LEMMA BookInvHolds == Spec => []BookInv
<1>1. Init => BookInv
  <2> SUFFICES ASSUME Init PROVE BookInv
    OBVIOUS
  <2>1. IsBook(NewBroker(1), 1)
    BY NewBrokerIsBook
  <2>2. Booked
    BY <2>1 DEF Init, Booked
  <2>3. Tasked
    <3>1. \A t \in Tasks : TaskOK(t, "idle", Nothing, Nothing, today)
      BY DEF TaskOK, Calls, Cargos, Jobs, Nothing
    <3>2. Nothing \in Cargos /\ Nothing \in Jobs /\ "idle" \in Calls
      BY DEF Cargos, Jobs, Calls
    <3> QED
      BY <3>1, <3>2 DEF Init, Tasked
  <2>4. IsToDo(todo)
    BY DEF Init, IsToDo
  <2>5. Counted
    BY DEF Init, Counted
  <2> QED
    BY <2>2, <2>3, <2>4, <2>5 DEF BookInv
<1>2. BookInv /\ [Next]_vars => BookInv'
  <2> SUFFICES ASSUME BookInv, [Next]_vars PROVE BookInv'
    OBVIOUS
  <2>1. CASE UNCHANGED vars
    <3>1. UNCHANGED <<up, today, broker, persistent, redis, riskView, pc, cargo, behind, job, todo,
                      delivered, settled, events, everFilled, completed, staleSale, boughtSince,
                      marks, faults>>
      BY <2>1 DEF vars, memory, tasks, inbox, history
    <3>2. Booked' /\ Tasked' /\ IsToDo(todo')
      BY <3>1 DEF BookInv, Booked, Tasked
    <3> QED
      BY <3>1, <3>2, CountedAgain DEF BookInv
  <2>2. CASE \/ \E o \in NatsOrders : SkipOrder(o)
             \/ \E m \in Messages : AckLost(m)
    <3>1. /\ UNCHANGED <<up, today, broker, persistent, redis, riskView, pc, cargo, behind, job,
                         todo, events, everFilled, completed, staleSale, boughtSince, marks>>
          /\ delivered' = delivered \/ \E o \in NatsOrders : delivered' = [delivered EXCEPT ![o] = @ + 1]
          /\ settled' \subseteq settled \union NatsOrders /\ faults' \in {faults, faults + 1}
      BY <2>2 DEF SkipOrder, TakeOrder, AckLost, Fault, memory, tasks, history
    <3>2. Booked' /\ Tasked' /\ IsToDo(todo')
      BY <3>1 DEF BookInv, Booked, Tasked
    <3>3. Counted'
      BY <3>1 DEF BookInv, Counted, Messages
    <3> QED
      BY <3>2, <3>3 DEF BookInv
  <2>3. CASE Next
    BY <2>2, <2>3, ExecuteOrderKeepsBook, MarkBeginKeepsBook, MarkPositionKeepsBook,
       FlattenKeepsBook, PublishFillKeepsBook, SaveLandsKeepsBook, EndsKeepBook, CrashKeepsBook,
       RestartKeepsBook, NextDayKeepsBook DEF Next, Fillers
  <2> QED
    BY <2>1, <2>3
<1> QED
  BY <1>1, <1>2, PTL DEF Spec

\* What a halt is judged by is right at every moment, in memory and in Redis:
\* the curve is the book's own history, the baseline of the day the close before,
\* and the peak at least everything the curve shows (paper_broker.py:84-127).
THEOREM BookSound == Spec => []BookIsSound
<1>1. BookInv => BookIsSound
  BY BookInvIsSound
<1> QED
  BY <1>1, BookInvHolds, PTL

-----------------------------------------------------------------------------
(* What risk-mgmt hears of the book                                        *)

Pushing == {t \in Tasks : pc[t] = "pushing"}

\* The book as it stands is still to be pushed, or the last push on its way
\* carries it, or it has arrived.
Heard ==
  \/ \E t \in Tasks : pc[t] \in {"saving", "publishing"}
  \/ \E t \in Pushing : /\ cargo[t].metrics = BookMetrics(broker)
                        /\ Pushing \ {t} \subseteq behind[t]
  \/ Pushing = {} /\ riskView = {BookMetrics(broker)}

PushInv ==
  /\ ~up => faults > 0
  /\ faults = 0 /\ everFilled # {} => Heard

LEMMA BusyIsHeard ==
  ASSUME BookInv, NEW t \in Tasks, NEW p \in {"saving", "publishing"}, Await(t, p)
  PROVE  Heard'
  BY DEF Await, Heard, BookInv, Tasked

LEMMA SendIsHeard ==
  ASSUME BookInv, NEW t \in Tasks, Await(t, "pushing"), broker' = broker,
         cargo' = [cargo EXCEPT ![t] = [kind |-> "metrics", metrics |-> BookMetrics(broker)]],
         behind'[t] = {u \in Tasks \ {t} : pc[u] = "pushing"}
  PROVE  Heard'
<1>1. t \in Pushing' /\ Pushing' \ {t} \subseteq behind'[t]
  BY DEF Await, Pushing, BookInv, Tasked
<1>2. cargo'[t].metrics = BookMetrics(broker')
  BY DEF BookInv, Tasked
<1> QED
  BY <1>1, <1>2 DEF Heard

\* A task that was not pushing, or whose push was not the last, stops.
LEMMA OthersAreHeard ==
  ASSUME BookInv, NEW t \in Tasks, NEW p \in {"idle", "fetching"}, Await(t, p), broker' = broker,
         \A u \in Tasks \ {t} : cargo'[u] = cargo[u] /\ behind[u] \ {t} \subseteq behind'[u],
         \/ pc[t] \in {"idle", "fetching"} /\ riskView' = riskView
         \/ pc[t] = "pushing" /\ behind[t] = {} /\ riskView' = {cargo[t].metrics},
         Heard
  PROVE  Heard'
<1>1. /\ pc \in [Tasks -> Calls] /\ pc' = [pc EXCEPT ![t] = p]
  BY DEF Await, BookInv, Tasked
<1>2. Pushing' = Pushing \ {t}
  BY <1>1 DEF Pushing
<1>3. CASE \E u \in Tasks : pc[u] \in {"saving", "publishing"}
  BY <1>1, <1>3 DEF Heard
<1>4. ASSUME NEW u \in Pushing, cargo[u].metrics = BookMetrics(broker),
             Pushing \ {u} \subseteq behind[u]
      PROVE  Heard'
  <2>1. CASE u # t
    <3>1. u \in Pushing' /\ u \in Tasks
      BY <1>2, <2>1 DEF Pushing
    <3>2. cargo'[u].metrics = BookMetrics(broker') /\ Pushing' \ {u} \subseteq behind'[u]
      BY <1>2, <1>4, <2>1, <3>1
    <3> QED
      BY <3>1, <3>2 DEF Heard
  <2>2. CASE u = t
    <3>1. Pushing' = {} /\ riskView' = {BookMetrics(broker')}
      BY <1>2, <1>4, <2>2 DEF Pushing
    <3> QED
      BY <3>1 DEF Heard
  <2> QED
    BY <2>1, <2>2
<1>5. CASE Pushing = {} /\ riskView = {BookMetrics(broker)}
  <2>1. pc[t] # "pushing"
    BY <1>5 DEF Pushing
  <2>2. Pushing' = {} /\ riskView' = {BookMetrics(broker')}
    BY <1>2, <1>5, <2>1
  <2> QED
    BY <2>2 DEF Heard
<1> QED
  BY <1>3, <1>4, <1>5 DEF Heard

LEMMA UnchangedIsHeard ==
  ASSUME UNCHANGED <<pc, cargo, behind, broker, riskView>>, Heard
  PROVE  Heard'
<1>1. Pushing' = Pushing
  BY DEF Pushing
<1> QED
  BY <1>1 DEF Heard

\* After a failure there is nothing to show.
LEMMA FaultKeepsPush ==
  ASSUME BookInv, Fault
  PROVE  PushInv'
<1>1. faults \in Nat /\ faults' = faults + 1
  BY DEF BookInv, Counted, Fault
<1>2. faults' > 0
  BY <1>1
<1> QED
  BY <1>2 DEF PushInv

LEMMA PushInvHolds ==
  ASSUME FifoCalls
  PROVE  BookInv /\ PushInv /\ [Next]_vars => PushInv'
<1> SUFFICES ASSUME BookInv, PushInv, [Next]_vars
             PROVE  PushInv'
  OBVIOUS
<1>1. ASSUME NEW o \in NatsOrders, SkipOrder(o)
      PROVE  PushInv'
  BY <1>1, UnchangedIsHeard DEF SkipOrder, PushInv, memory, tasks, history
<1>2. ASSUME NEW t \in Fillers, NEW o \in Orders, ExecuteOrder(t, o)
      PROVE  PushInv'
  <2>1. t \in Tasks /\ Await(t, "saving") /\ UNCHANGED <<up, faults>>
    BY <1>2 DEF Fillers, Tasks, ExecuteOrder, IssueSave, Send
  <2> QED
    BY <2>1, BusyIsHeard DEF PushInv
<1>3. ASSUME NEW s \in Symbols, MarkBegin(s)
      PROVE  PushInv'
  <2>1. /\ "marks" \in Tasks /\ pc["marks"] = "idle" /\ Await("marks", "fetching")
        /\ UNCHANGED <<up, broker, cargo, behind, riskView, everFilled, faults>>
    BY <1>3 DEF MarkBegin, Running, memory, Tasks
  <2>2. Heard => Heard'
    BY <2>1, OthersAreHeard
  <2> QED
    BY <2>1, <2>2 DEF PushInv
<1>4. ASSUME NEW c \in Prices, MarkPosition(c)
      PROVE  PushInv'
  <2>1. /\ "marks" \in Tasks /\ UNCHANGED <<up, faults>>
        /\ Await("marks", "publishing") \/ Await("marks", "saving")
    BY <1>4 DEF MarkPosition, Tasks, IssueSave, Send, history
  <2> QED
    BY <2>1, BusyIsHeard DEF PushInv
<1>5. CASE NoClose
  <2>1. /\ "marks" \in Tasks /\ pc["marks"] = "fetching" /\ Await("marks", "idle")
        /\ cargo' = [cargo EXCEPT !["marks"] = Nothing] /\ behind' = Passed("marks")
        /\ UNCHANGED <<up, broker, riskView, everFilled, faults>>
    BY <1>5 DEF NoClose, EndTask, memory, history, Tasks
  <2>2. \A u \in Tasks \ {"marks"} : /\ cargo'[u] = cargo[u]
                                     /\ behind[u] \ {"marks"} \subseteq behind'[u]
    BY <2>1 DEF Passed
  <2>3. Heard => Heard'
    BY <2>1, <2>2, OthersAreHeard
  <2> QED
    BY <2>1, <2>3 DEF PushInv
<1>6. ASSUME NEW a \in Alerts, FlattenBegin(a)
      PROVE  PushInv'
  <2>1. UNCHANGED <<up, riskView, everFilled, faults>> /\ "breaker" \in Tasks
    BY <1>6 DEF FlattenBegin, Tasks
  <2>2. \/ UNCHANGED <<pc, cargo, behind, broker>>
        \/ Await("breaker", "saving") \/ Await("breaker", "publishing")
    BY <1>6 DEF FlattenBegin, NothingToFlatten, Liquidate, IssueSave, Send, tasks
  <2>3. Heard => Heard'
    BY <2>1, <2>2, BusyIsHeard, UnchangedIsHeard
  <2> QED
    BY <2>1, <2>3 DEF PushInv
<1>7. CASE FlattenNext
  <2>1. UNCHANGED <<up, faults>> /\ "breaker" \in Tasks
    BY <1>7 DEF FlattenNext, Tasks
  <2>2. Await("breaker", "saving") \/ Await("breaker", "publishing")
    BY <1>7 DEF FlattenNext, Liquidate, IssueSave, Send
  <2> QED
    BY <2>1, <2>2, BusyIsHeard DEF PushInv
<1>8. ASSUME NEW t \in Tasks, PublishFill(t)
      PROVE  PushInv'
  <2>1. UNCHANGED <<up, faults, broker>>
    BY <1>8 DEF PublishFill, memory
  <2>2. CASE t = "marks"
    BY <1>8, <2>1, <2>2, BusyIsHeard DEF PublishFill, IssueSave, Send, PushInv
  <2>3. CASE t # "marks"
    <3>1. /\ Await(t, "pushing")
          /\ cargo' = [cargo EXCEPT ![t] = [kind |-> "metrics", metrics |-> BookMetrics(broker)]]
          /\ behind' = [behind EXCEPT ![t] = {u \in Tasks \ {t} : pc[u] = "pushing"}]
      BY <1>8, <2>3 DEF PublishFill, Send
    <3>2. behind'[t] = {u \in Tasks \ {t} : pc[u] = "pushing"}
      BY <3>1 DEF BookInv, Tasked
    <3> QED
      BY <2>1, <3>1, <3>2, SendIsHeard DEF PushInv
  <2> QED
    BY <2>2, <2>3
<1>9. ASSUME NEW t \in Tasks, SaveLands(t)
      PROVE  PushInv'
  <2>1. UNCHANGED <<up, faults, broker>> /\ AfterSave(t)
    BY <1>9 DEF SaveLands, memory, history
  <2>2. CASE PublishAfterSave(t)
    BY <2>1, <2>2, BusyIsHeard DEF PublishAfterSave, PushInv
  <2>3. CASE PushAfterSave(t)
    <3>1. behind'[t] = {u \in Tasks \ {t} : pc[u] = "pushing"}
      BY <2>3 DEF PushAfterSave, Passed
    <3> QED
      BY <2>1, <2>3, <3>1, SendIsHeard DEF PushAfterSave, PushInv
  <2> QED
    BY <2>1, <2>2, <2>3 DEF AfterSave
<1>10. ASSUME NEW t \in Tasks, PushArrives(t)
       PROVE  PushInv'
  <2>1. /\ pc[t] = "pushing" /\ behind[t] = {} /\ riskView' = {cargo[t].metrics}
        /\ EndTask(t, TRUE) /\ UNCHANGED <<up, broker, everFilled, faults>>
    BY <1>10 DEF PushArrives, Arrives, EndPush, memory
  <2>2. /\ Await(t, "idle")
        /\ \A u \in Tasks \ {t} : cargo'[u] = cargo[u] /\ behind[u] \ {t} \subseteq behind'[u]
    BY <2>1 DEF EndTask, Passed, BookInv, Tasked
  <2>3. Heard => Heard'
    BY <2>1, <2>2, OthersAreHeard
  <2> QED
    BY <2>1, <2>3 DEF PushInv
<1>11. ASSUME NEW t \in Tasks, NEW stored \in BOOLEAN,
              \/ SaveFails(t) \/ PushFails(t) \/ PublishFails(t, stored) \/ Crash(stored)
       PROVE  PushInv'
  BY <1>11, FaultKeepsPush DEF SaveFails, PushFails, PublishFails, Crash
<1>12. ASSUME NEW m \in Messages, AckLost(m)
       PROVE  PushInv'
  BY <1>12, FaultKeepsPush DEF AckLost
<1>13. CASE Restart \/ RestartWithoutRedis
  <2>1. ~up /\ faults' = faults
    BY <1>13 DEF Restart, RestartWithoutRedis, history
  <2>2. faults \in Nat /\ faults > 0
    BY <2>1 DEF PushInv, BookInv, Counted
  <2> QED
    BY <2>1, <2>2 DEF PushInv
<1>14. CASE NextDay
  BY <1>14, UnchangedIsHeard DEF NextDay, PushInv, memory, tasks, history
<1>15. CASE UNCHANGED vars
  BY <1>15, UnchangedIsHeard DEF vars, PushInv, memory, tasks, history
<1> QED
  BY <1>1, <1>2, <1>3, <1>4, <1>5, <1>6, <1>7, <1>8, <1>9, <1>10, <1>11, <1>12, <1>13,
     <1>14, <1>15 DEF Next, Fillers, Tasks

\* With no call in flight and none failed, risk-mgmt judges the book as it is,
\* if the pushes arrive in the order they were issued: what each handler's last
\* call brings is the book of every handler that ran beside it.
THEOREM RiskHearsBook ==
  ASSUME FifoCalls
  PROVE  Spec => []RiskSeesBook
<1>1. Init => PushInv
  BY DEF Init, PushInv
<1>2. BookInv /\ PushInv /\ [Next]_vars => PushInv'
  BY PushInvHolds
<1>3. BookInv /\ PushInv => RiskSeesBook
  BY DEF PushInv, Heard, RiskSeesBook, Quiet, Pushing
<1> QED
  BY <1>1, <1>2, <1>3, BookInvHolds, PTL DEF Spec

-----------------------------------------------------------------------------
(* What flatten_all has left                                               *)

\* The quantity of s is sold, bought anew, or still to be sold by the loop.
Dealt(p, todoNow, broughtNow, positions, s) ==
  positions[s].qty > 0 =>
    \/ s \in broughtNow
    \/ p = "publishing" /\ s \in DOMAIN todoNow /\ positions[s].qty <= todoNow[s].qty

FlattenInv ==
  /\ ~up => pc["breaker"] = "idle"
  /\ pc["breaker"] # "idle" =>
       \A s \in Symbols : Dealt(pc["breaker"], todo, boughtSince, broker.positions, s)

\* The breaker's task stays where it is, and no quantity grows but by a buy.
LEMMA OthersLeaveFlatten ==
  ASSUME BookInv, FlattenInv, UNCHANGED <<up, todo>>, pc'["breaker"] = pc["breaker"],
         boughtSince \subseteq boughtSince',
         \A s \in Symbols : \/ s \in boughtSince'
                            \/ broker'.positions[s].qty <= broker.positions[s].qty
                            \/ broker'.positions[s].qty <= 0,
         IsBook(broker', today)
  PROVE  FlattenInv'
<1>1. ASSUME pc["breaker"] # "idle", NEW s \in Symbols, broker'.positions[s].qty > 0,
             s \notin boughtSince'
      PROVE  pc["breaker"] = "publishing" /\ s \in DOMAIN todo
               /\ broker'.positions[s].qty <= todo[s].qty
  <2>1. broker.positions[s].qty \in Int /\ broker'.positions[s].qty \in Int
    BY DEF BookInv, Booked, IsBook, Brokers, Positions
  <2>2. broker.positions[s].qty > 0 /\ broker'.positions[s].qty <= broker.positions[s].qty
    BY <1>1, <2>1
  <2>3. /\ pc["breaker"] = "publishing" /\ s \in DOMAIN todo
        /\ broker.positions[s].qty <= todo[s].qty
    BY <1>1, <2>2 DEF FlattenInv, Dealt
  <2>4. todo[s].qty \in Int
    BY <2>3 DEF BookInv, IsToDo, Positions
  <2> QED
    BY <2>1, <2>2, <2>3, <2>4
<1> QED
  BY <1>1 DEF FlattenInv, Dealt

\* What the loop reads at its start is all there is to sell.
LEMMA SellableIsLong ==
  ASSUME BookInv, NEW s \in Symbols, broker.positions[s].qty > 0
  PROVE  s \in Sellable
  BY DEF BookInv, Booked, IsBook, Priced, Sellable

\* A sale of the loop leaves the others, and all of what it read of its own.
LEMMA LiquidateDeals ==
  ASSUME BookInv, NEW left, IsToDo(left), Liquidate(left), UNCHANGED up, up,
         \A s \in Symbols : Dealt("publishing", left, boughtSince', broker.positions, s)
  PROVE  FlattenInv'
<1>1. PICK s \in DOMAIN left :
           /\ todo' = [r \in DOMAIN left \ {s} |-> left[r]]
           /\ IsBook(broker', today)
           /\ \A u \in Symbols \ {s} : broker'.positions[u] = broker.positions[u]
           /\ broker'.positions[s].qty = broker.positions[s].qty - left[s].qty
  BY LiquidateMoves
<1>2. pc'["breaker"] = "publishing"
  BY DEF Liquidate, Await, BookInv, Tasked, Tasks
<1>3. s \in Symbols /\ left[s].qty \in Int /\ left[s].qty > 0
  BY DEF IsToDo, Positions
<1>4. broker.positions[s].qty \in Int
  BY <1>3 DEF BookInv, Booked, IsBook, Brokers, Positions
<1>5. Dealt("publishing", todo', boughtSince', broker'.positions, s)
  BY <1>1, <1>3, <1>4 DEF Dealt
<1>6. \A u \in Symbols \ {s} :
         Dealt("publishing", todo', boughtSince', broker'.positions, u)
  BY <1>1 DEF Dealt
<1> QED
  BY <1>2, <1>5, <1>6 DEF FlattenInv

\* Only a buy adds to a position, and what is bought is remembered.
LEMMA OrderIsDealt ==
  ASSUME BookInv, NEW t \in Fillers, NEW o \in Orders, ExecuteOrder(t, o), BookInv'
  PROVE  /\ boughtSince \subseteq boughtSince'
         /\ \A s \in Symbols : \/ s \in boughtSince'
                               \/ broker'.positions[s].qty <= broker.positions[s].qty
<1> DEFINE buy == o.side = "BUY"
           stop == IF buy THEN o.stop ELSE NoLevel
           take == IF buy THEN o.take ELSE NoLevel
           b == Fill(broker, {o}, o.symbol, o.side, FillQty(o), o.price, stop, take, today)
<1>1. /\ o.symbol \in Symbols /\ o.qty \in Nat /\ o.price \in Nat \ {0}
      /\ stop \in Nat /\ take \in Nat /\ {o} \in SUBSET Orders
  BY ExecutionAssumption DEF NoLevel
<1>2. IsBook(broker, today) /\ today \in Nat /\ broker.positions \in [Symbols -> Positions]
  BY DEF BookInv, Booked, IsBook, Brokers
<1>3. broker.positions[o.symbol].qty \in Int
  BY <1>1, <1>2 DEF Positions
<1>4. FillQty(o) \in Int
  BY <1>1, <1>3 DEF FillQty
<1> HIDE DEF stop, take
<1>5. Moves(b, broker, o.symbol,
            IF o.side = "BUY" THEN broker.positions[o.symbol].qty + FillQty(o)
                              ELSE broker.positions[o.symbol].qty - FillQty(o), today)
  BY <1>1, <1>2, <1>4, FillMoves
<1>6. /\ broker' = b
      /\ boughtSince' = IF buy THEN boughtSince \union {o.symbol} ELSE boughtSince
      /\ o.side = "SELL" => broker.positions[o.symbol].qty > 0
  BY DEF ExecuteOrder, stop, take, Executable
<1> HIDE DEF b
<1>7. CASE buy
  BY <1>2, <1>5, <1>6, <1>7 DEF Moves, Positions
<1>8. CASE ~buy
  <2>1. o.side = "SELL"
    BY <1>8, ExecutionAssumption
  <2>2. FillQty(o) >= 0
    BY <1>1, <1>3, <1>6, <2>1 DEF FillQty
  <2>3. broker'.positions[o.symbol].qty <= broker.positions[o.symbol].qty
    BY <1>3, <1>4, <1>5, <1>6, <1>8, <2>2 DEF Moves
  <2>4. \A s \in Symbols \ {o.symbol} :
           broker'.positions[s].qty <= broker.positions[s].qty
    BY <1>2, <1>5, <1>6 DEF Moves, Positions
  <2> QED
    BY <1>6, <1>8, <2>3, <2>4
<1> QED
  BY <1>7, <1>8

LEMMA FlattenBeginDeals ==
  ASSUME BookInv, NEW a \in Alerts, FlattenBegin(a), FlattenInv, BookInv'
  PROVE  FlattenInv'
<1>1. up /\ up' = up /\ pc["breaker"] = "idle"
  BY DEF FlattenBegin, Running
<1>2. CASE Open(broker) = {}
  BY <1>1, <1>2 DEF FlattenBegin, NothingToFlatten, FlattenInv, tasks
<1>3. CASE Open(broker) # {} /\ Sellable = {}
  <2>1. broker' = broker
    BY <1>3 DEF FlattenBegin
  <2>2. \A s \in Symbols : ~(broker.positions[s].qty > 0)
    BY <1>3, SellableIsLong
  <2> QED
    BY <1>1, <2>1, <2>2 DEF FlattenInv, Dealt
<1>4. CASE Open(broker) # {} /\ Sellable # {}
  <2> DEFINE left == [s \in Sellable |-> broker.positions[s]]
  <2>1. Liquidate(left) /\ boughtSince' = {}
    BY <1>4 DEF FlattenBegin
  <2>2. \A s \in Symbols : broker.positions[s].qty \in Int /\ broker.positions[s] \in Positions
    BY DEF BookInv, Booked, IsBook, Brokers, Positions
  <2>3. IsToDo(left)
    BY <2>2 DEF IsToDo, Sellable
  <2>4. \A s \in Symbols : Dealt("publishing", left, boughtSince', broker.positions, s)
    BY <2>2, SellableIsLong DEF Dealt
  <2> HIDE DEF left
  <2> QED
    BY <1>1, <2>1, <2>3, <2>4, LiquidateDeals
<1> QED
  BY <1>2, <1>3, <1>4

LEMMA FlattenNextDeals ==
  ASSUME BookInv, FlattenNext, FlattenInv
  PROVE  FlattenInv'
<1>1. /\ up /\ up' = up /\ pc["breaker"] = "publishing" /\ boughtSince' = boughtSince
      /\ \A s \in Symbols : Dealt("publishing", todo, boughtSince, broker.positions, s)
  BY DEF FlattenNext, FlattenInv
<1>2. CASE DOMAIN todo = {}
  <2>1. broker' = broker
    BY <1>2 DEF FlattenNext
  <2> QED
    BY <1>1, <1>2, <2>1 DEF FlattenInv, Dealt
<1>3. CASE DOMAIN todo # {}
  <2>1. Liquidate(todo) /\ IsToDo(todo)
    BY <1>3 DEF FlattenNext, BookInv
  <2> QED
    BY <1>1, <2>1, LiquidateDeals
<1> QED
  BY <1>2, <1>3

\* A step of the breaker's task that ends it, or that leaves its loop for good.
LEMMA LoopIsOver ==
  ASSUME BookInv, FlattenInv, UNCHANGED <<up, broker, boughtSince>>,
         \/ pc'["breaker"] = "idle"
         \/ up /\ pc["breaker"] \in {"saving", "pushing"}
  PROVE  FlattenInv'
  BY DEF FlattenInv, Dealt

\* The task t goes on; the book, and what the loop has left, stay.
LEMMA TaskGoesOn ==
  ASSUME BookInv, FlattenInv, NEW t \in Tasks, NEW p, Await(t, p),
         UNCHANGED <<up, broker, boughtSince, today>>,
         t # "breaker" => todo' = todo,
         t = "breaker" => p = "idle" \/ (up /\ pc["breaker"] \in {"saving", "pushing"})
  PROVE  FlattenInv'
<1>1. /\ pc'["breaker"] = IF t = "breaker" THEN p ELSE pc["breaker"]
  BY DEF Await, BookInv, Tasked, Tasks
<1>2. CASE t = "breaker"
  BY <1>1, <1>2, LoopIsOver
<1>3. CASE t # "breaker"
  BY <1>1, <1>3 DEF FlattenInv
<1> QED
  BY <1>2, <1>3

LEMMA FlattenInvHolds ==
  BookInv /\ BookInv' /\ FlattenInv /\ [Next]_vars => FlattenInv'
<1> SUFFICES ASSUME BookInv, BookInv', FlattenInv, [Next]_vars
             PROVE  FlattenInv'
  OBVIOUS
<1>1. ASSUME NEW t \in Fillers, NEW o \in Orders, ExecuteOrder(t, o)
      PROVE  FlattenInv'
  <2>1. /\ UNCHANGED <<up, todo, today>> /\ Await(t, "saving")
        /\ t # "breaker"
    BY <1>1 DEF ExecuteOrder, IssueSave, Send, Fillers
  <2>2. pc'["breaker"] = pc["breaker"] /\ IsBook(broker', today)
    BY <2>1 DEF Await, BookInv, Tasked, Tasks, Booked
  <2> QED
    BY <1>1, <2>1, <2>2, OrderIsDealt, OthersLeaveFlatten
<1>2. ASSUME NEW c \in Prices, MarkPosition(c)
      PROVE  FlattenInv'
  <2>1. /\ UNCHANGED <<up, todo, boughtSince>> /\ IsBook(broker', today)
        /\ \A s \in Symbols : broker'.positions[s].qty \in {0, broker.positions[s].qty}
        /\ Await("marks", "publishing") \/ Await("marks", "saving")
    BY <1>2, MarkPositionMoves DEF history, IssueSave, Send
  <2>2. pc'["breaker"] = pc["breaker"]
    BY <2>1 DEF Await, BookInv, Tasked, Tasks
  <2>3. \A s \in Symbols : broker.positions[s].qty \in Int
    BY DEF BookInv, Booked, IsBook, Brokers, Positions
  <2>4. \A s \in Symbols : \/ broker'.positions[s].qty <= broker.positions[s].qty
                           \/ broker'.positions[s].qty <= 0
    BY <2>1, <2>3
  <2> QED
    BY <2>1, <2>2, <2>4, OthersLeaveFlatten
<1>3. ASSUME NEW a \in Alerts, FlattenBegin(a)
      PROVE  FlattenInv'
  BY <1>3, FlattenBeginDeals
<1>4. CASE FlattenNext
  BY <1>4, FlattenNextDeals
<1>5. ASSUME NEW s \in Symbols, MarkBegin(s)
      PROVE  FlattenInv'
  BY <1>5, TaskGoesOn DEF MarkBegin, memory, Tasks
<1>6. CASE NoClose
  BY <1>6, TaskGoesOn DEF NoClose, EndTask, memory, history, Tasks
<1>7. ASSUME NEW t \in Tasks, PublishFill(t)
      PROVE  FlattenInv'
  BY <1>7, TaskGoesOn DEF PublishFill, IssueSave, Send, memory
<1>8. ASSUME NEW t \in Tasks, SaveLands(t)
      PROVE  FlattenInv'
  BY <1>8, TaskGoesOn DEF SaveLands, Arrives, AfterSave, PublishAfterSave, PushAfterSave,
                          memory, history
<1>9. ASSUME NEW t \in Tasks, NEW stored \in BOOLEAN,
             \/ SaveFails(t) \/ PublishFails(t, stored) \/ PushArrives(t) \/ PushFails(t)
      PROVE  FlattenInv'
  <2>1. /\ Await(t, "idle") /\ todo' = IF t = "breaker" THEN <<>> ELSE todo
        /\ UNCHANGED <<up, broker, boughtSince, today>>
    BY <1>9 DEF SaveFails, PublishFails, PushArrives, PushFails, EndPush, EndTask, memory
  <2> QED
    BY <2>1, TaskGoesOn
<1>10. ASSUME NEW stored \in BOOLEAN, Crash(stored)
       PROVE  FlattenInv'
  BY <1>10 DEF Crash, FlattenInv, Tasks
<1>11. CASE Restart \/ RestartWithoutRedis
  <2>1. ~up /\ pc' = pc
    BY <1>11 DEF Restart, RestartWithoutRedis, tasks
  <2> QED
    BY <2>1 DEF FlattenInv
<1>12. ASSUME NEW o \in NatsOrders, SkipOrder(o)
       PROVE  FlattenInv'
  BY <1>12 DEF SkipOrder, FlattenInv, memory, tasks, history
<1>13. ASSUME NEW m \in Messages, AckLost(m)
       PROVE  FlattenInv'
  BY <1>13 DEF AckLost, FlattenInv, memory, tasks
<1>14. CASE NextDay \/ UNCHANGED vars
  BY <1>14 DEF NextDay, FlattenInv, vars, memory, tasks, history
<1> QED
  BY <1>1, <1>2, <1>3, <1>4, <1>5, <1>6, <1>7, <1>8, <1>9, <1>10, <1>11, <1>12, <1>13,
     <1>14 DEF Next, Fillers

\* Whose step settles an alert: the breaker's task, with nothing to sell or at
\* its last call.
LEMMA AlertIsSettledBy ==
  ASSUME BookInv, [Next]_vars, NEW a \in Alerts, a \notin settled, a \in settled'
  PROVE  \/ Open(broker) = {}
         \/ pc["breaker"] = "pushing"
<1>1. a \notin NatsOrders
  BY ExecutionAssumption
<1>2. ASSUME NEW o \in NatsOrders, SkipOrder(o)
      PROVE  FALSE
  BY <1>1, <1>2 DEF SkipOrder
<1>3. ASSUME NEW t \in Tasks, NEW done \in BOOLEAN, EndTask(t, done), pc[t] # "idle"
      PROVE  t = "breaker" /\ done
  <2>1. settled' = settled \union {job[t].msg} /\ t \in {"orders", "breaker"} /\ done
    BY <1>3 DEF EndTask
  <2>2. t = "orders" => job[t].msg \in NatsOrders
    BY <1>3, SameJob DEF Fillers, Intake
  <2> QED
    BY <1>1, <2>1, <2>2
<1>4. ASSUME NEW b \in Alerts, FlattenBegin(b)
      PROVE  Open(broker) = {}
  BY <1>4 DEF FlattenBegin
<1>5. ASSUME NEW t \in Tasks, NEW stored \in BOOLEAN, SaveFails(t) \/ PublishFails(t, stored)
      PROVE  FALSE
  <2>1. EndTask(t, FALSE) /\ pc[t] # "idle"
    BY <1>5 DEF SaveFails, PublishFails
  <2> QED
    BY <1>3, <2>1
<1>6. ASSUME NEW t \in Tasks, PushArrives(t) \/ PushFails(t)
      PROVE  pc["breaker"] = "pushing"
  <2>1. EndTask(t, TRUE) /\ pc[t] = "pushing"
    BY <1>6 DEF PushArrives, PushFails, Arrives, EndPush
  <2> QED
    BY <1>3, <2>1
<1>7. ~NoClose
  <2> SUFFICES ASSUME NoClose PROVE FALSE
    OBVIOUS
  <2>1. EndTask("marks", TRUE) /\ pc["marks"] # "idle" /\ "marks" \in Tasks
    BY DEF NoClose, Tasks
  <2> QED
    BY <1>3, <2>1
<1>8. ASSUME \/ \E t \in Fillers, o \in Orders : ExecuteOrder(t, o)
             \/ \E s \in Symbols : MarkBegin(s)
             \/ \E c \in Prices : MarkPosition(c)
             \/ FlattenNext
             \/ \E t \in Tasks : PublishFill(t) \/ SaveLands(t)
             \/ \E stored \in BOOLEAN : Crash(stored)
             \/ \E m \in Messages : AckLost(m)
             \/ Restart \/ RestartWithoutRedis \/ NextDay \/ UNCHANGED vars
      PROVE  settled' \subseteq settled
  BY <1>8 DEF ExecuteOrder, MarkBegin, MarkPosition, FlattenNext, PublishFill, SaveLands, AfterSave,
     PublishAfterSave, PushAfterSave, Crash, AckLost, Restart, RestartWithoutRedis, NextDay, vars,
     inbox
<1> QED
  BY <1>2, <1>4, <1>5, <1>6, <1>7, <1>8 DEF Next, Fillers

\* An alert is acknowledged only with the book flat but for what was bought while
\* it was handled, whatever is filled, marked, lost or redelivered meanwhile.
THEOREM AlertsAreFlattened == Spec => AckedAlertFlattened
<1>1. Init => FlattenInv
  BY DEF Init, FlattenInv, Tasks
<1>2. BookInv /\ BookInv' /\ FlattenInv /\ [Next]_vars => FlattenInv'
  BY FlattenInvHolds
<1>3. BookInv /\ FlattenInv /\ [Next]_vars =>
        \A a \in Alerts \intersect (settled' \ settled), s \in Symbols :
           broker.positions[s].qty > 0 => s \in boughtSince
  <2> SUFFICES ASSUME BookInv, FlattenInv, [Next]_vars,
                      NEW a \in Alerts \intersect (settled' \ settled), NEW s \in Symbols,
                      broker.positions[s].qty > 0
               PROVE  s \in boughtSince
    OBVIOUS
  <2>1. Open(broker) = {} \/ pc["breaker"] = "pushing"
    BY AlertIsSettledBy
  <2>2. s \in Open(broker)
    BY DEF Open
  <2> QED
    BY <2>1, <2>2 DEF FlattenInv, Dealt
<1> QED
  BY <1>1, <1>2, <1>3, BookInvHolds, PTL DEF Spec, AckedAlertFlattened
=============================================================================
