----------------------------- MODULE Execution ------------------------------
(***************************************************************************)
(* The execution service: one asyncio process with three durable JetStream *)
(* subscriptions (orders, market-data marks, breaker alerts), each handling*)
(* one message at a time, and HTTP requests.  They share one broker and    *)
(* interleave at every await: a publish, a save to Redis, the price fetch, *)
(* the push of the metrics to risk-mgmt.                                   *)
(*                                                                         *)
(* A save writes the snapshot taken when it is issued and a push the       *)
(* metrics computed when it is issued.  Both travel on pooled connections: *)
(* FifoCalls says whether they arrive in the order they were issued.       *)
(***************************************************************************)
EXTENDS PaperBroker

CONSTANTS
  NatsOrders,    \* the orders the order.requested stream delivers
  HttpOrders,    \* the orders POST /execute is asked for, once each
  Prices,        \* closes market-data may answer
  Alerts,        \* flatten_all alerts risk.circuit_breaker delivers
  MaxDay,        \* bound: the last session
  MaxMarks,      \* bound: price fetches
  MaxDeliver,    \* NATS_MAX_DELIVER
  MaxFaults,     \* bound: crashes, failed calls and lost acks
  FifoCalls,
  MayStartWithoutRedis

Orders == NatsOrders \union HttpOrders

ASSUME ExecutionAssumption ==
  /\ \A o \in Orders : /\ o.symbol \in Symbols /\ o.side \in {"BUY", "SELL"}
                       /\ o.qty \in Nat \ {0} /\ o.price \in Nat \ {0}
                       /\ o.stop \in Nat /\ o.take \in Nat
  /\ NatsOrders \intersect HttpOrders = {} /\ NatsOrders \intersect Alerts = {}
  /\ Prices \subseteq Nat \ {0}
  /\ MaxDay \in Nat /\ MaxMarks \in Nat /\ MaxDeliver \in Nat /\ MaxFaults \in Nat
  /\ FifoCalls \in BOOLEAN /\ MayStartWithoutRedis \in BOOLEAN

\* One task per subscription, and one for the HTTP requests.
Tasks == {"orders", "marks", "breaker", "http"}
Messages == NatsOrders \union Alerts

Nothing == [kind |-> "nothing"]   \* a task that has nothing to carry

VARIABLES
  up, today,
  broker,               \* the service's memory
  persistent,           \* the repository is Redis, not the no-op one
  redis,                \* the stored snapshot: {} or a singleton
  riskView,             \* the metrics risk-mgmt last received: {} or a singleton
  pc,                   \* per task: the call it awaits
  cargo,                \* per task: the snapshot or metrics on their way
  behind,               \* per task: calls of the same kind issued before its own
  job,                  \* per task: the order, symbol or alert being handled
  todo,                 \* flatten_all: what is left of its positions() snapshot
  delivered, settled    \* per message: deliveries so far; acked or answered

VARIABLES   \* history: read by no action of the program
  events,       \* per order: OrderFilled events published for it
  everFilled,   \* orders some process filled
  completed,    \* orders whose handler ran to its end after the fill
  staleSale,    \* a liquidation sold another quantity than the one then held
  boughtSince,  \* symbols bought since the running flatten_all read the book
  marks, faults

memory  == <<broker, persistent>>
tasks   == <<pc, cargo, behind, job, todo>>
inbox   == <<delivered, settled>>
history == <<events, everFilled, completed, staleSale, boughtSince, marks, faults>>
vars    == <<up, today, memory, redis, riskView, tasks, inbox, history>>

-----------------------------------------------------------------------------
Init ==
  /\ up = TRUE /\ today = 1
  /\ broker = NewBroker(1) /\ persistent = TRUE /\ redis = {} /\ riskView = {}
  /\ pc = [t \in Tasks |-> "idle"]
  /\ cargo = [t \in Tasks |-> Nothing]
  /\ behind = [t \in Tasks |-> {}]
  /\ job = [t \in Tasks |-> Nothing]
  /\ todo = <<>>
  /\ delivered = [m \in Messages |-> 0] /\ settled = {}
  /\ events = [o \in Orders |-> 0]
  /\ everFilled = {} /\ completed = {}
  /\ staleSale = FALSE /\ boughtSince = {}
  /\ marks = 0 /\ faults = 0

Running(t) == up /\ pc[t] = "idle"
Fault == faults < MaxFaults /\ faults' = faults + 1
Await(t, call) == pc' = [pc EXCEPT ![t] = call]

\* A save or a push leaves with its payload, behind those still on their way.
Send(t, call, payload) ==
  /\ Await(t, call)
  /\ cargo' = [cargo EXCEPT ![t] = payload]
  /\ behind' = [behind EXCEPT ![t] = {u \in Tasks \ {t} : pc[u] = call}]

Arrives(t, call) == up /\ pc[t] = call /\ (FifoCalls => behind[t] = {})
Passed(t) == [u \in Tasks |-> IF u = t THEN {} ELSE behind[u] \ {t}]

IssueSave(t, b) == Send(t, "saving", [kind |-> "snapshot", broker |-> b])

\* The handler returned (ack) or raised (nak, the message stays unsettled).
EndTask(t, done) ==
  /\ Await(t, "idle")
  /\ cargo' = [cargo EXCEPT ![t] = Nothing]
  /\ behind' = Passed(t)
  /\ job' = [job EXCEPT ![t] = Nothing]
  /\ todo' = IF t = "breaker" THEN <<>> ELSE todo
  /\ settled' = IF done /\ t \in {"orders", "breaker"}
                  THEN settled \union {job[t].msg} ELSE settled

-----------------------------------------------------------------------------
(* order.requested and POST /execute: execute()                            *)

\* A mutant of FillQty: an exit is not capped.
WholeQty(o) == o.qty

\* An exit is capped at what is held.
FillQty(o) ==
  LET held == broker.positions[o.symbol].qty
  IN  IF o.side = "SELL" /\ held < o.qty THEN held ELSE o.qty

Executable(o) ==
  /\ ~IsProcessed(broker, o)
  /\ o.side = "SELL" => broker.positions[o.symbol].qty > 0

\* The order is at the service: delivered by the stream, or asked for over HTTP.
TakeOrder(t, o) ==
  /\ Running(t)
  /\ \/ /\ t = "orders" /\ o \in NatsOrders \ settled /\ delivered[o] < MaxDeliver
        /\ delivered' = [delivered EXCEPT ![o] = @ + 1]
     \/ t = "http" /\ o \in HttpOrders \ everFilled /\ UNCHANGED delivered

\* A duplicate delivery, or a SELL of nothing: the handler returns at once.
SkipOrder(o) ==
  /\ TakeOrder("orders", o)
  /\ ~Executable(o)
  /\ settled' = settled \union {o}
  /\ UNCHANGED <<up, today, memory, redis, riskView, tasks, history>>

ExecuteOrder(t, o) ==
  LET buy == o.side = "BUY"
      b   == Fill(broker, {o}, o.symbol, o.side, FillQty(o), o.price,
                  IF buy THEN o.stop ELSE NoLevel, IF buy THEN o.take ELSE NoLevel, today)
  IN  /\ TakeOrder(t, o)
      /\ Executable(o)
      /\ broker' = b
      /\ job' = [job EXCEPT ![t] = [kind |-> "order", msg |-> o]]
      /\ IssueSave(t, b)
      /\ everFilled' = everFilled \union {o}
      /\ boughtSince' = IF buy THEN boughtSince \union {o.symbol} ELSE boughtSince
      /\ UNCHANGED <<up, today, persistent, redis, riskView, todo, settled,
                     events, completed, staleSale, marks, faults>>

-----------------------------------------------------------------------------
(* market_data.updated: mark_position()                                    *)

MarkBegin(s) ==
  /\ Running("marks") /\ marks < MaxMarks /\ marks' = marks + 1
  /\ s \in Open(broker)
  /\ job' = [job EXCEPT !["marks"] = [kind |-> "mark", symbol |-> s]]
  /\ Await("marks", "fetching")
  /\ UNCHANGED <<up, today, memory, redis, riskView, cargo, behind, todo, inbox,
                 events, everFilled, completed, staleSale, boughtSince, faults>>

\* The close is back: mark, and sell the whole position if a level is breached.
MarkPosition(close) ==
  LET s == job["marks"].symbol
      b == Mark(broker, s, close, today)
      p == b.positions[s]
      sold == Fill(b, {}, s, "SELL", p.qty, close, NoLevel, NoLevel, today)
  IN  /\ up /\ pc["marks"] = "fetching"
      /\ IF Breached(p)
           THEN broker' = sold /\ Await("marks", "publishing") /\ UNCHANGED <<cargo, behind>>
           ELSE broker' = b /\ IssueSave("marks", b)
      /\ UNCHANGED <<up, today, persistent, redis, riskView, job, todo, inbox, history>>

\* No bar, or the request failed: the handler returns or raises, nothing changed.
NoClose ==
  /\ up /\ pc["marks"] = "fetching"
  /\ EndTask("marks", TRUE)
  /\ UNCHANGED <<up, today, memory, redis, riskView, delivered, history>>

-----------------------------------------------------------------------------
(* risk.circuit_breaker with action flatten_all: flatten_all()             *)

\* The next sale of the loop, of the quantity and price read at its start; the
\* code walks its dict in first-fill order, here every order is possible.
Liquidate(left) ==
  \E s \in DOMAIN left :
    /\ broker' = Fill(broker, {}, s, "SELL", left[s].qty, left[s].last,
                      NoLevel, NoLevel, today)
    /\ todo' = [r \in DOMAIN left \ {s} |-> left[r]]
    /\ staleSale' = (staleSale \/ left[s].qty # broker.positions[s].qty)
    /\ Await("breaker", "publishing")
    /\ UNCHANGED <<cargo, behind>>

\* A mutant of NothingToFlatten: the handler raises on an empty book.
RaiseOnEmptyBook(a) == UNCHANGED <<settled, broker, tasks, staleSale, boughtSince>>

NothingToFlatten(a) ==
  /\ settled' = settled \union {a}
  /\ UNCHANGED <<broker, tasks, staleSale, boughtSince>>

\* open_positions as the loop will use it: its continue drops shorts.
Sellable == {s \in Symbols : broker.positions[s].qty > 0 /\ broker.positions[s].last > 0}

FlattenBegin(a) ==
  /\ Running("breaker") /\ a \in Alerts \ settled /\ delivered[a] < MaxDeliver
  /\ delivered' = [delivered EXCEPT ![a] = @ + 1]
  /\ IF Open(broker) = {}
       THEN NothingToFlatten(a)
       ELSE /\ boughtSince' = {}
            /\ job' = [job EXCEPT !["breaker"] = [kind |-> "alert", msg |-> a]]
            /\ IF Sellable = {}
                 THEN IssueSave("breaker", broker) /\ UNCHANGED <<broker, todo, staleSale>>
                 ELSE Liquidate([s \in Sellable |-> broker.positions[s]])
            /\ UNCHANGED settled
  /\ UNCHANGED <<up, today, persistent, redis, riskView,
                 events, everFilled, completed, marks, faults>>

\* A liquidation was published: sell the next one, or save once all are sold.
FlattenNext ==
  /\ up /\ pc["breaker"] = "publishing"
  /\ IF DOMAIN todo = {}
       THEN IssueSave("breaker", broker) /\ UNCHANGED <<broker, todo, staleSale>>
       ELSE Liquidate(todo)
  /\ UNCHANGED <<up, today, persistent, redis, riskView, job, inbox,
                 events, everFilled, completed, boughtSince, marks, faults>>

-----------------------------------------------------------------------------
(* The awaits the handlers share                                           *)

\* OrderFilled of an order is out: push.  Of an exit: save.
PublishFill(t) ==
  /\ t # "breaker" /\ up /\ pc[t] = "publishing"
  /\ IF t = "marks"
       THEN IssueSave(t, broker) /\ UNCHANGED events
       ELSE /\ Send(t, "pushing", [kind |-> "metrics", metrics |-> BookMetrics(broker)])
            /\ events' = [events EXCEPT ![job[t].msg] = @ + 1]
  /\ UNCHANGED <<up, today, memory, redis, riskView, job, todo, inbox,
                 everFilled, completed, staleSale, boughtSince, marks, faults>>

\* A mutant of PublishFails: the error is swallowed and the message acked.
PublishErrorSwallowed(t, stored) ==
  /\ up /\ pc[t] = "publishing" /\ Fault
  /\ EndTask(t, TRUE)
  /\ UNCHANGED <<up, today, memory, redis, riskView, delivered, events,
                 everFilled, completed, staleSale, boughtSince, marks>>

\* The publish raised; the stream may have stored the event before it did.
PublishFails(t, stored) ==
  /\ up /\ pc[t] = "publishing" /\ Fault
  /\ EndTask(t, FALSE)
  /\ events' = IF stored /\ t \in {"orders", "http"}
                 THEN [events EXCEPT ![job[t].msg] = @ + 1] ELSE events
  /\ UNCHANGED <<up, today, memory, redis, riskView, delivered,
                 everFilled, completed, staleSale, boughtSince, marks>>

\* A mutant of Stored: the key is written only if it does not exist.
StoredOnce(b) == IF redis = {} THEN {b} ELSE redis

\* save(): one key, overwritten; the no-op repository stores nothing.
Stored(b) == IF persistent THEN {b} ELSE redis

PublishAfterSave(t) ==
  /\ Await(t, "publishing")
  /\ cargo' = [cargo EXCEPT ![t] = Nothing]
  /\ behind' = Passed(t)
  /\ UNCHANGED <<job, todo, settled>>

PushAfterSave(t) ==
  /\ Await(t, "pushing")
  /\ cargo' = [cargo EXCEPT ![t] = [kind |-> "metrics", metrics |-> BookMetrics(broker)]]
  /\ behind' = [Passed(t) EXCEPT ![t] = {u \in Tasks \ {t} : pc[u] = "pushing"}]
  /\ UNCHANGED <<job, todo, settled>>

\* A mutant of AfterSave: the metrics of a liquidated book are not pushed.
AfterSaveNoPush(t) ==
  CASE t \in {"orders", "http"} -> PublishAfterSave(t)
    [] t = "marks"              -> PushAfterSave(t)
    [] t = "breaker"            -> EndTask(t, TRUE)

\* An order is published after its save, everything else was before it.
AfterSave(t) ==
  IF t \in {"orders", "http"} THEN PublishAfterSave(t) ELSE PushAfterSave(t)

SaveLands(t) ==
  /\ Arrives(t, "saving")
  /\ redis' = Stored(cargo[t].broker)
  /\ AfterSave(t)
  /\ UNCHANGED <<up, today, memory, riskView, delivered, history>>

SaveFails(t) ==
  /\ up /\ pc[t] = "saving" /\ persistent /\ Fault
  /\ EndTask(t, FALSE)
  /\ UNCHANGED <<up, today, memory, redis, riskView, delivered,
                 events, everFilled, completed, staleSale, boughtSince, marks>>

\* push_portfolio swallows a failed request: the handler completes either way.
EndPush(t) ==
  /\ EndTask(t, TRUE)
  /\ completed' = IF t \in {"orders", "http"}
                    THEN completed \union {job[t].msg} ELSE completed
  /\ UNCHANGED <<up, today, memory, redis, delivered,
                 events, everFilled, staleSale, boughtSince, marks>>

PushArrives(t) ==
  /\ Arrives(t, "pushing")
  /\ riskView' = {cargo[t].metrics}
  /\ EndPush(t)
  /\ UNCHANGED faults

PushFails(t) ==
  /\ up /\ pc[t] = "pushing" /\ Fault
  /\ EndPush(t)
  /\ UNCHANGED riskView

-----------------------------------------------------------------------------
(* Process death, restart, and the clock                                   *)

\* An OrderFilled being published may have been stored.
Crash(stored) ==
  /\ up /\ Fault
  /\ up' = FALSE
  /\ broker' = NewBroker(today)
  /\ pc' = [t \in Tasks |-> "idle"]
  /\ cargo' = [t \in Tasks |-> Nothing]
  /\ behind' = [t \in Tasks |-> {}]
  /\ job' = [t \in Tasks |-> Nothing]
  /\ todo' = <<>>
  /\ events' = [o \in Orders |->
       IF /\ stored
          /\ \E t \in {"orders", "http"} : pc[t] = "publishing" /\ job[t].msg = o
         THEN events[o] + 1 ELSE events[o]]
  /\ UNCHANGED <<today, persistent, redis, riskView, inbox,
                 everFilled, completed, staleSale, boughtSince, marks>>

\* A mutant of Restored: the orders already filled are not restored.
RestoredWithoutOrders(b) == [b EXCEPT !.processed = {}]

\* restore(): every field comes back (a snapshot of today's layout has them all).
Restored(b) == b

Restart ==
  /\ ~up /\ up' = TRUE /\ persistent' = TRUE
  /\ \/ redis = {} /\ broker' = NewBroker(today)
     \/ \E b \in redis : broker' = Restored(b)
  /\ UNCHANGED <<today, redis, riskView, tasks, inbox, history>>

RestartWithoutRedis ==
  /\ MayStartWithoutRedis /\ ~up
  /\ up' = TRUE /\ persistent' = FALSE
  /\ broker' = NewBroker(today)
  /\ UNCHANGED <<today, redis, riskView, tasks, inbox, history>>

\* The ack of m never reached the stream, which will deliver m again (after the
\* last delivery it makes no difference).
AckLost(m) ==
  /\ m \in settled /\ delivered[m] < MaxDeliver /\ Fault
  /\ settled' = settled \ {m}
  /\ UNCHANGED <<up, today, memory, redis, riskView, tasks, delivered,
                 events, everFilled, completed, staleSale, boughtSince, marks>>

NextDay ==
  /\ today < MaxDay
  /\ today' = today + 1
  /\ UNCHANGED <<up, memory, redis, riskView, tasks, inbox, history>>

-----------------------------------------------------------------------------
Next ==
  \/ \E o \in NatsOrders : SkipOrder(o)
  \/ \E t \in {"orders", "http"}, o \in Orders : ExecuteOrder(t, o)
  \/ \E s \in Symbols : MarkBegin(s)
  \/ \E c \in Prices : MarkPosition(c)
  \/ NoClose
  \/ \E a \in Alerts : FlattenBegin(a)
  \/ FlattenNext
  \/ \E t \in Tasks : PublishFill(t) \/ SaveLands(t) \/ SaveFails(t)
  \/ \E t \in Tasks : PushArrives(t) \/ PushFails(t)
  \/ \E t \in Tasks, stored \in BOOLEAN : PublishFails(t, stored)
  \/ \E stored \in BOOLEAN : Crash(stored)
  \/ \E m \in Messages : AckLost(m)
  \/ Restart \/ RestartWithoutRedis
  \/ NextDay

Spec == Init /\ [][Next]_vars

\* A publish, a Redis call and a push return (or time out), the stream delivers
\* what is not acked, and the orchestrator restarts a dead container.
Fairness ==
  /\ \A a \in Alerts : WF_vars(FlattenBegin(a))
  /\ WF_vars(FlattenNext)
  /\ \A t \in Tasks : WF_vars(SaveLands(t)) /\ WF_vars(PushArrives(t))
  /\ WF_vars(Restart)

FairSpec == Spec /\ Fairness

-----------------------------------------------------------------------------
(* Properties                                                              *)

Brokers ==
  [cash : Int, positions : [Symbols -> Positions], peak : Int, dayStart : Int,
   dayStartDate : Nat, processed : SUBSET Orders, curve : Seq(Points)]
Views == [value : Int, exposure : Int, dd : Nat, loss : Nat]
Cargos == {Nothing} \union [kind : {"snapshot"}, broker : Brokers]
                    \union [kind : {"metrics"}, metrics : Views]
Jobs == {Nothing} \union [kind : {"order"}, msg : Orders]
                  \union [kind : {"mark"}, symbol : Symbols]
                  \union [kind : {"alert"}, msg : Alerts]

\* Every variable stays in its type; Redis holds at most one snapshot and
\* risk-mgmt one view, and a task carries what the call it awaits needs.
TypeOK ==
  /\ up \in BOOLEAN /\ today \in Nat /\ persistent \in BOOLEAN
  /\ broker \in Brokers
  /\ redis \subseteq Brokers /\ \A b, c \in redis : b = c
  /\ riskView \subseteq Views /\ \A v, w \in riskView : v = w
  /\ pc \in [Tasks -> {"idle", "fetching", "publishing", "saving", "pushing"}]
  /\ cargo \in [Tasks -> Cargos] /\ behind \in [Tasks -> SUBSET Tasks]
  /\ job \in [Tasks -> Jobs]
  /\ \A t \in Tasks :
       /\ pc[t] = "idle" <=> job[t] = Nothing
       /\ pc[t] = "saving" <=> cargo[t].kind = "snapshot"
       /\ pc[t] = "pushing" <=> cargo[t].kind = "metrics"
  /\ DOMAIN todo \subseteq Symbols /\ \A s \in DOMAIN todo : todo[s] \in Positions
  /\ delivered \in [Messages -> Nat] /\ settled \subseteq Messages
  /\ events \in [Orders -> Nat] /\ everFilled \subseteq Orders
  /\ completed \subseteq Orders /\ staleSale \in BOOLEAN
  /\ boughtSince \subseteq Symbols /\ marks \in Nat /\ faults \in Nat

\* The equity series is the book's own history: its last point is the book as it
\* stands, dated by the day baseline; days only move forward; and the baseline
\* daily losses are measured from is the close of the session before.
CurveFollowsBook ==
  \A b \in {broker} \union redis :
    LET n == Len(b.curve)
    IN  /\ b.curve[n] = [day |-> b.dayStartDate, equity |-> Equity(b)]
        /\ \A i \in 2..n : b.curve[i - 1].day < b.curve[i].day
        /\ n > 1 => b.dayStart = b.curve[n - 1].equity

\* The peak drawdowns are measured from is never below the book or any point of
\* its curve, whatever is restored: BLACK is never judged against a lower peak.
PeakIsHigh ==
  \A b \in {broker} \union redis :
    /\ b.peak >= Equity(b)
    /\ \A i \in DOMAIN b.curve : b.peak >= b.curve[i].equity

\* "Long-only: a SELL is an exit", as the docstring states it of every order.
LongOnly == \A s \in Symbols : broker.positions[s].qty >= 0

\* Orders, exits and restarts never sell more than is held: a short needs a
\* liquidation that sold a quantity it read before an await.
ShortNeedsStaleSale == ~LongOnly => staleSale

\* A fill is announced at most once, whatever is redelivered, fails or dies.
FillsAnnouncedOnce == \A o \in Orders : events[o] <= 1

\* What was filled, saved and pushed is never unknown to the process or to
\* Redis again, so it cannot be filled a second time.
CompletedFillIsDurable ==
  /\ up => completed \subseteq broker.processed
  /\ \A b \in redis : completed \subseteq b.processed
  /\ completed # {} => redis # {}

Quiet == up /\ \A t \in Tasks : pc[t] \in {"idle", "fetching"}

\* With no call in flight and none failed, risk-mgmt judges the book as it is,
\* although every handler pushes only at its end and others ran in between.
RiskSeesBook ==
  Quiet /\ faults = 0 /\ everFilled # {} => riskView = {BookMetrics(broker)}

\* An alert is acknowledged only with the book flat but for what was bought
\* while it was handled: a sale that failed is taken up by the redelivery.
AckedAlertFlattened ==
  [][\A a \in Alerts \intersect (settled' \ settled), s \in Symbols :
        broker.positions[s].qty > 0 => s \in boughtSince]_vars

\* Every alert is carried out in the end, if less goes wrong than the stream
\* tries deliveries.
AlertsAreCarriedOut == \A a \in Alerts : <>(a \in settled)

\* What risk-mgmt judges a halt by is right in memory and in Redis: the curve is
\* the book's own, its day baseline is the close before, its peak is a peak.
BookIsSound == TypeOK /\ CurveFollowsBook /\ PeakIsHigh
=============================================================================
