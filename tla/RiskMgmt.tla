------------------------------ MODULE RiskMgmt ------------------------------
(***************************************************************************)
(* The risk-mgmt service: one asyncio process with two durable JetStream   *)
(* subscriptions, each handling one message at a time, and any number of   *)
(* HTTP requests.  A handler runs without interruption up to its next      *)
(* await, so an action is the code between two awaits; at an await every   *)
(* other task may run, the call may fail, or the process may die.          *)
(*                                                                         *)
(* What a save writes is the snapshot taken when it is issued.  Saves go   *)
(* through a connection pool: FifoSaves says whether they reach Redis in   *)
(* the order they were issued.                                             *)
(***************************************************************************)
EXTENDS CircuitBreaker, Sizing, FiniteSets

CONSTANTS
  KeepSessions, \* OrderLedger(keep_sessions = 5)
  Http,        \* concurrent HTTP requests (request slots)
  Msgs,        \* the BUY/SELL aggregates the signal stream delivers
  Pushes,      \* portfolio metrics POST /portfolio may carry
  Macro,       \* regimes the macro stream may announce, a subset of Regimes
  MaxDay,      \* bound: the last session
  MaxDeliver,  \* NATS_MAX_DELIVER
  MaxFaults,   \* bound: crashes, failed calls and starts without Redis
  FifoSaves,   \* saves reach Redis in the order they were issued
  MayStartWithoutRedis  \* Redis may be unreachable when the service starts

Metrics == [value : Nat, exposure : Nat, dd : Nat, loss : Nat]
Portfolios ==
  [value : Nat, exposure : Nat, dd : Nat, loss : Nat, regime : Regimes]

ASSUME KeepSessionsAssumption == KeepSessions \in Nat \ {0}

ASSUME RiskAssumption ==
  /\ "aggregates" \notin Http /\ "regimes" \notin Http
  /\ \A m \in Msgs : /\ {"id", "symbol", "side", "session"} \subseteq DOMAIN m
                     /\ m.session \in Nat
  /\ Pushes \subseteq Metrics
  /\ Macro \subseteq Regimes
  /\ MaxDay \in Nat /\ MaxDeliver \in Nat /\ MaxFaults \in Nat
  /\ FifoSaves \in BOOLEAN /\ MayStartWithoutRedis \in BOOLEAN

-----------------------------------------------------------------------------
(* The order ledger: a set of (symbol, side, session) keys.  A session is a *)
(* day number, the UTC date of the event timestamp, so the keys order the   *)
(* way the ISO date strings do.                                             *)

\* The sessions of a ledger that are newer than session s.
NewerSessions(ledger, s) == {k.session : k \in {j \in ledger : j.session > s}}

\* A mutant of Prune: one session too few is kept.
PruneOneMore(ledger) ==
  {k \in ledger : Cardinality(NewerSessions(ledger, k.session)) < KeepSessions - 1}

\* _prune: only entries of the KeepSessions most recent sessions stay.
Prune(ledger) ==
  {k \in ledger : Cardinality(NewerSessions(ledger, k.session)) < KeepSessions}

AlreadyPlaced(ledger, key) == key \in ledger
Record(ledger, key) == Prune(ledger \union {key})

-----------------------------------------------------------------------------
Agg == "aggregates"       \* the signal.aggregated subscription
Reg == "regimes"          \* the macro.regime_changed subscription
Tasks == Http \union {Agg, Reg}

KeyOf(m) == [symbol |-> m.symbol, side |-> m.side, session |-> m.session]
Keys == {KeyOf(m) : m \in Msgs}

InitialValue == 100000    \* PORTFOLIO_VALUE
FreshPortfolio == [value |-> InitialValue, exposure |-> 0, dd |-> 0, loss |-> 0,
                   regime |-> "expansion"]
Snapshots == [portfolio : Portfolios, orders : SUBSET Keys, breaker : Latches]
FreshSnapshot == [portfolio |-> FreshPortfolio, orders |-> {},
                  breaker |-> Latch(FreshBreaker)]
PCs == {"idle", "ordering", "saving", "alerting"}

VARIABLES
  up, today,
  breaker, portfolio, ledger,   \* the service's memory
  persistent,                   \* the repository is Redis, not the no-op one
  redis,                        \* the stored snapshot: {} or a singleton
  pc, snap, alert, behind,      \* per task: await, snapshot being saved, level
                                \* to publish after it, saves issued before it
  current,                      \* the aggregate being handled: {} or a singleton
  delivered, settled            \* per aggregate: deliveries so far, acked

VARIABLES   \* history: read by no action of the program
  orders,       \* per key: orders published for it
  interrupted,  \* per key: attempts cut between the publish and a stored ledger
  announced,    \* a BLACK alert was published since the latch was last cleared
  lossSession,  \* the last session in which a halting daily loss was reported
  dirty,        \* the last issued save is known to have failed
  acked,        \* a reset was accepted and its snapshot has not been stored
  owed,         \* the latch the process held, stored, when it last died
  faults

memory  == <<breaker, portfolio, ledger, persistent>>
tasks   == <<pc, snap, alert, behind>>
inbox   == <<current, delivered, settled>>
placed  == <<orders, interrupted>>
history == <<orders, interrupted, announced, lossSession, dirty, acked, owed, faults>>
vars    == <<up, today, memory, redis, tasks, inbox, history>>

-----------------------------------------------------------------------------
Init ==
  /\ up = TRUE /\ today = 1
  /\ breaker = FreshBreaker /\ portfolio = FreshPortfolio /\ ledger = {}
  /\ persistent = TRUE /\ redis = {}
  /\ pc = [t \in Tasks |-> "idle"]
  /\ snap = [t \in Tasks |-> FreshSnapshot]
  /\ alert = [t \in Tasks |-> "NONE"]
  /\ behind = [t \in Tasks |-> {}]
  /\ current = {}
  /\ delivered = [m \in Msgs |-> 0]
  /\ settled = {}
  /\ orders = [k \in Keys |-> 0]
  /\ interrupted = [k \in Keys |-> 0]
  /\ announced = FALSE /\ lossSession = NoSession
  /\ dirty = FALSE /\ acked = FALSE /\ owed = Latch(FreshBreaker)
  /\ faults = 0

Saving == {t \in Tasks : pc[t] = "saving"}
Running(t) == up /\ pc[t] = "idle"
Fault == faults < MaxFaults /\ faults' = faults + 1

\* `await repository.save(self._snapshot())`: the snapshot is fixed here.
IssueSave(t, p, l, b, level) ==
  /\ pc' = [pc EXCEPT ![t] = "saving"]
  /\ snap' = [snap EXCEPT ![t] = [portfolio |-> p, orders |-> l, breaker |-> Latch(b)]]
  /\ alert' = [alert EXCEPT ![t] = level]
  /\ behind' = [behind EXCEPT ![t] = {u \in Tasks \ {t} : pc[u] = "saving"}]
  /\ dirty' = FALSE

\* A save that landed or failed is no longer ahead of the others.
EndSave(t) ==
  /\ behind' = [u \in Tasks |-> IF u = t THEN {} ELSE behind[u] \ {t}]
  /\ snap' = [snap EXCEPT ![t] = FreshSnapshot]

\* The handler ends, normally or not; what its task held goes with it.
EndTask(t) ==
  /\ pc' = [pc EXCEPT ![t] = "idle"]
  /\ alert' = [alert EXCEPT ![t] = "NONE"]

\* The handler of message m returned: ack.  It raised: nak, m stays unsettled.
Ack(t) ==
  IF t = Agg THEN settled' = settled \union current /\ current' = {}
             ELSE UNCHANGED <<settled, current>>
Nak(t) ==
  IF t = Agg THEN current' = {} /\ UNCHANGED settled
             ELSE UNCHANGED <<settled, current>>

-----------------------------------------------------------------------------
(* signal.aggregated: process_aggregated                                   *)

\* _risk_check_and_order up to the publish; every caller's intent is NEW.
Approved(m, sector) ==
  /\ ~IsTripped(breaker)
  /\ m.price # 0 /\ m.stop # 0
  /\ Size(m.price, m.stop, portfolio, sector) > 0

Deliver(m) ==
  /\ Running(Agg)
  /\ m \notin settled /\ delivered[m] < MaxDeliver
  /\ delivered' = [delivered EXCEPT ![m] = @ + 1]

\* A mutant of IgnoreAggregate: a blocked aggregate is recorded as placed.
RecordIgnoredAggregate(m) ==
  /\ Deliver(m)
  /\ AlreadyPlaced(ledger, KeyOf(m)) \/ ~Approved(m, m.sector)
  /\ settled' = settled \union {m}
  /\ ledger' = Record(ledger, KeyOf(m))
  /\ UNCHANGED <<up, today, breaker, portfolio, persistent, redis, tasks, current,
                 history>>

\* Already acted on this session, halted or sized to nothing: no order, ack.
IgnoreAggregate(m) ==
  /\ Deliver(m)
  /\ AlreadyPlaced(ledger, KeyOf(m)) \/ ~Approved(m, m.sector)
  /\ settled' = settled \union {m}
  /\ UNCHANGED <<up, today, memory, redis, tasks, current, history>>

OrderAggregate(m) ==
  /\ Deliver(m)
  /\ ~AlreadyPlaced(ledger, KeyOf(m)) /\ Approved(m, m.sector)
  /\ current' = {m}
  /\ pc' = [pc EXCEPT ![Agg] = "ordering"]
  /\ UNCHANGED <<up, today, memory, redis, snap, alert, behind, settled, history>>

\* POST /signal, not gated by the ledger and without a sector.
PostSignal(h, m) ==
  /\ Running(h)
  /\ Approved(m, NoSector)
  /\ pc' = [pc EXCEPT ![h] = "ordering"]
  /\ UNCHANGED <<up, today, memory, redis, snap, alert, behind, inbox, history>>

CurrentKeys == {KeyOf(m) : m \in current}
CountOrder(counts) == [k \in Keys |-> counts[k] + IF k \in CurrentKeys THEN 1 ELSE 0]

\* The publish returned: record the key and issue the save.
PublishOrder ==
  /\ up /\ pc[Agg] = "ordering"
  /\ orders' = CountOrder(orders)
  /\ \E k \in CurrentKeys :
       /\ ledger' = Record(ledger, k)
       /\ IssueSave(Agg, portfolio, Record(ledger, k), breaker, "NONE")
  /\ UNCHANGED <<up, today, breaker, portfolio, persistent, redis, inbox,
                 interrupted, announced, lossSession, acked, owed, faults>>

PublishManualOrder(h) ==
  /\ up /\ pc[h] = "ordering"
  /\ EndTask(h)
  /\ UNCHANGED <<up, today, memory, redis, snap, behind, inbox, history>>

\* The publish raised, whether or not the stream had stored the message.
PublishOrderFails(t, stored) ==
  /\ up /\ pc[t] = "ordering" /\ Fault
  /\ EndTask(t)
  /\ Nak(t)
  /\ IF stored /\ t = Agg
       THEN orders' = CountOrder(orders) /\ interrupted' = CountOrder(interrupted)
       ELSE UNCHANGED placed
  /\ UNCHANGED <<up, today, memory, redis, snap, behind, delivered,
                 announced, lossSession, dirty, acked, owed>>

-----------------------------------------------------------------------------
(* update_portfolio: POST /portfolio and macro.regime_changed              *)

\* A mutant of AlertFor: an escalation from another level is not published.
AlertForFirstLevel(old, new) ==
  IF old.level = "NONE" THEN new.level ELSE "NONE"

\* The level to publish after the save: the new one, if it changed to a level.
AlertFor(old, new) == IF new.level # old.level THEN new.level ELSE "NONE"

UpdatePortfolio(t, p) ==
  LET b == Evaluate(breaker, p.dd, p.loss, today)
  IN  /\ Running(t)
      /\ portfolio' = p
      /\ breaker' = b
      /\ IssueSave(t, p, ledger, b, AlertFor(breaker, b))
      /\ UNCHANGED <<up, today, ledger, persistent, redis, inbox,
                     orders, interrupted, announced, acked, owed, faults>>

PostPortfolio(h, m) ==
  /\ UpdatePortfolio(h, [value |-> m.value, exposure |-> m.exposure, dd |-> m.dd,
                         loss |-> m.loss, regime |-> portfolio.regime])
  /\ lossSession' = IF m.loss >= DailyLossHalt THEN today ELSE lossSession

HandleRegimeChanged(r) ==
  /\ UpdatePortfolio(Reg, [portfolio EXCEPT !.regime = r])
  /\ UNCHANGED lossSession

\* POST /circuit-breaker/reset, accepted; a refusal changes nothing.
PostReset(h) ==
  LET b == Reset(breaker, portfolio.dd, portfolio.loss, today)
  IN  /\ Running(h)
      /\ ResetAccepted(breaker, portfolio.dd)
      /\ breaker' = b
      /\ announced' = FALSE /\ acked' = TRUE
      /\ IssueSave(h, portfolio, ledger, b, "NONE")
      /\ UNCHANGED <<up, today, portfolio, ledger, persistent, redis, inbox,
                     orders, interrupted, lossSession, owed, faults>>

-----------------------------------------------------------------------------
(* The awaits every handler shares: the save, then the breaker alert       *)

\* A mutant of Stored: every save adds a snapshot instead of replacing it.
StoredBeside(s) == redis \union {s}

\* save(): one key, overwritten; the no-op repository stores nothing.
Stored(s) == IF persistent THEN {s} ELSE redis

\* A snapshot of a latched breaker is followed by one, or by a breaker, that is
\* not: an accepted reset has not reached Redis yet.
ResetUnderWay ==
  \E u \in Saving :
    /\ snap[u].breaker.latched
    /\ \/ ~breaker.latched
       \/ \E v \in Saving : u \in behind[v] /\ ~snap[v].breaker.latched

SaveLands(t) ==
  /\ up /\ pc[t] = "saving"
  /\ FifoSaves => behind[t] = {}
  /\ redis' = Stored(snap[t])
  /\ EndSave(t)
  /\ IF alert[t] # "NONE"
       THEN pc' = [pc EXCEPT ![t] = "alerting"] /\ UNCHANGED <<alert, settled, current>>
       ELSE EndTask(t) /\ Ack(t)
  /\ acked' = (acked /\ (persistent => ResetUnderWay))
  /\ UNCHANGED <<up, today, memory, delivered, placed, announced, lossSession,
                 dirty, owed, faults>>

SaveFails(t) ==
  /\ up /\ pc[t] = "saving" /\ persistent /\ Fault
  /\ EndSave(t) /\ EndTask(t)
  /\ Nak(t)
  /\ dirty' = TRUE
  /\ interrupted' = IF t = Agg THEN CountOrder(interrupted) ELSE interrupted
  /\ UNCHANGED <<up, today, memory, redis, delivered,
                 orders, announced, lossSession, acked, owed>>

PublishAlert(t) ==
  /\ up /\ pc[t] = "alerting"
  /\ announced' = (announced \/ (alert[t] = "BLACK" /\ breaker.latched))
  /\ EndTask(t)
  /\ Ack(t)
  /\ UNCHANGED <<up, today, memory, redis, snap, behind, delivered,
                 orders, interrupted, lossSession, dirty, acked, owed, faults>>

PublishAlertFails(t) ==
  /\ up /\ pc[t] = "alerting" /\ Fault
  /\ EndTask(t)
  /\ Nak(t)
  /\ UNCHANGED <<up, today, memory, redis, snap, behind, delivered,
                 orders, interrupted, announced, lossSession, dirty, acked, owed>>

-----------------------------------------------------------------------------
(* Process death, restart, and the clock                                   *)

LatchStored == persistent /\ Saving = {} /\ ~dirty

\* A process that starts from nothing: no snapshot, or no Redis to load it from.
StartFresh ==
  /\ breaker' = FreshBreaker /\ portfolio' = FreshPortfolio /\ ledger' = {}

NoTasks ==
  /\ pc' = [t \in Tasks |-> "idle"]
  /\ snap' = [t \in Tasks |-> FreshSnapshot]
  /\ alert' = [t \in Tasks |-> "NONE"]
  /\ behind' = [t \in Tasks |-> {}]

\* Everything in memory is lost; an order being published may have been stored.
Crash(stored) ==
  /\ up /\ Fault
  /\ up' = FALSE
  /\ StartFresh /\ NoTasks /\ current' = {}
  /\ owed' = IF LatchStored THEN Latch(breaker) ELSE Latch(FreshBreaker)
  /\ orders' = IF stored /\ pc[Agg] = "ordering" THEN CountOrder(orders) ELSE orders
  /\ interrupted' = IF pc[Agg] = "saving" \/ (stored /\ pc[Agg] = "ordering")
                      THEN CountOrder(interrupted) ELSE interrupted
  /\ acked' = FALSE
  /\ UNCHANGED <<today, persistent, redis, delivered, settled,
                 announced, lossSession, dirty>>

\* lifespan() then restore(): the level is evaluated, a change is not announced.
Restart ==
  /\ ~up /\ up' = TRUE
  /\ persistent' = TRUE /\ dirty' = FALSE
  /\ \/ redis = {} /\ StartFresh
     \/ \E s \in redis :
          /\ portfolio' = s.portfolio
          /\ ledger' = Prune(s.orders)
          /\ breaker' = Evaluate(RestoreLatch(FreshBreaker, s.breaker),
                                 s.portfolio.dd, s.portfolio.loss, today)
  /\ UNCHANGED <<today, redis, tasks, inbox,
                 orders, interrupted, announced, lossSession, acked, owed, faults>>

RestartWithoutRedis ==
  /\ MayStartWithoutRedis /\ ~up /\ Fault
  /\ up' = TRUE /\ persistent' = FALSE
  /\ StartFresh
  /\ UNCHANGED <<today, redis, tasks, inbox,
                 orders, interrupted, announced, lossSession, dirty, acked, owed>>

NextDay ==
  /\ today < MaxDay
  /\ today' = today + 1
  /\ UNCHANGED <<up, memory, redis, tasks, inbox, history>>

-----------------------------------------------------------------------------
Next ==
  \/ \E m \in Msgs : IgnoreAggregate(m) \/ OrderAggregate(m)
  \/ PublishOrder
  \/ \E h \in Http : PublishManualOrder(h)
  \/ \E h \in Http, m \in Msgs : PostSignal(h, m)
  \/ \E h \in Http, m \in Pushes : PostPortfolio(h, m)
  \/ \E h \in Http : PostReset(h)
  \/ \E r \in Macro : HandleRegimeChanged(r)
  \/ \E t \in Tasks, stored \in BOOLEAN : PublishOrderFails(t, stored)
  \/ \E t \in Tasks : SaveLands(t) \/ SaveFails(t)
  \/ \E t \in Tasks : PublishAlert(t) \/ PublishAlertFails(t)
  \/ \E stored \in BOOLEAN : Crash(stored)
  \/ Restart \/ RestartWithoutRedis
  \/ NextDay

Spec == Init /\ [][Next]_vars

\* A publish and a Redis call return (or time out), and the orchestrator
\* restarts a dead container; nothing else is owed by the environment.
Fairness ==
  /\ WF_vars(PublishOrder)
  /\ \A h \in Http : WF_vars(PublishManualOrder(h))
  /\ \A t \in Tasks : WF_vars(SaveLands(t)) /\ WF_vars(PublishAlert(t))
  /\ WF_vars(Restart)

FairSpec == Spec /\ Fairness

-----------------------------------------------------------------------------
(* Properties                                                              *)

MemoryTyped ==
  /\ up \in BOOLEAN /\ today \in Nat \ {0} /\ persistent \in BOOLEAN
  /\ breaker \in Breakers /\ portfolio \in Portfolios /\ ledger \subseteq Keys
  /\ redis \subseteq Snapshots /\ \A s, r \in redis : s = r

TasksTyped ==
  /\ pc \in [Tasks -> PCs] /\ snap \in [Tasks -> Snapshots]
  /\ alert \in [Tasks -> Levels] /\ behind \in [Tasks -> SUBSET Tasks]

InboxTyped ==
  /\ current \subseteq Msgs /\ \A m, n \in current : m = n
  /\ delivered \in [Msgs -> Nat] /\ settled \subseteq Msgs

HistoryTyped ==
  /\ orders \in [Keys -> Nat] /\ interrupted \in [Keys -> Nat]
  /\ announced \in BOOLEAN /\ lossSession \in Nat
  /\ dirty \in BOOLEAN /\ acked \in BOOLEAN
  /\ owed \in Latches /\ faults \in Nat

\* Every variable stays in its type; at most one snapshot is stored and one
\* aggregate handled at a time.
TypeOK == MemoryTyped /\ TasksTyped /\ InboxTyped /\ HistoryTyped

\* The level an order is checked against is the standing rule, not an old
\* reading: a latch shows as BLACK, this session's halt as RED or worse, and a
\* book past the flatten threshold is latched, whatever was posted, announced,
\* reset or restored in between (the level is only a cache of evaluate()).
LevelShowsRule ==
  up => /\ breaker.level = "BLACK" <=> breaker.latched
        /\ breaker.halted = today => IsTripped(breaker)
        /\ portfolio.dd >= DrawdownFlatten => breaker.latched

\* No task clears its order for publication in a session whose loss halt stands
\* or under a latched BLACK, even after an intraday recovery or a restart.
NoOrderDuringHalt ==
  [][\A t \in Tasks : pc[t] # "ordering" /\ pc'[t] = "ordering"
        => ~breaker.latched /\ breaker.halted # today]_vars

\* "Automatic trading halt UNTIL NEXT DAY": while the process lives, nothing in
\* the same session lifts a RED, neither a better metric nor a human reset.
RedHoldsForSession ==
  [][up /\ up' /\ today' = today /\ breaker.halted = today
        => IsTripped(breaker')]_vars

\* A latch goes only by an accepted reset of a book back inside the limit.
BlackNeedsReset ==
  [][up /\ up' /\ breaker.latched /\ ~breaker'.latched
        => portfolio.dd < DrawdownFlatten /\ \E h \in Http : PostReset(h)]_vars

\* A halt the process held, with nothing in flight, when it died is in force
\* again as soon as the process is back: a restart is not a human reset (but one
\* that does not reach Redis is, and the process runs with persistent FALSE).
RestartIsNoReset ==
  [][~up /\ up' /\ persistent'
        => /\ owed.latched => breaker'.level = "BLACK"
           /\ owed.halted = today => IsTripped(breaker')]_vars

\* The ledger never names an order that was not published, so a blocked or
\* failed attempt can be retried, in memory and in every stored snapshot.
LedgerOnlyOfPlaced ==
  \A l \in {ledger} \union {s.orders : s \in redis} :
    \A k \in l : orders[k] > 0

\* Sessions with orders that are newer than session s.
NewerOrdered(s) == {k.session : k \in {j \in Keys : orders[j] > 0 /\ j.session > s}}

\* A second order for one (symbol, side, session) needs an attempt that was cut
\* between the publish and the stored ledger; redelivery, a late component, a
\* concurrent portfolio save or a restart alone never produces one.
DuplicateNeedsInterruption ==
  \A k \in Keys : Cardinality(NewerOrdered(k.session)) < KeepSessions
                   => orders[k] <= 1 + interrupted[k]

\* Every latch is announced or cleared by a human.
BlackIsAnnounced == breaker.latched ~> (announced \/ ~breaker.latched)

\* The stored halts implement HaltRecord: BLACK is on record when the stored
\* snapshot is latched.
StoredBlack == \E s \in redis : s.breaker.latched
StoredRed == IF redis = {} THEN NoSession
             ELSE (CHOOSE s \in redis : TRUE).breaker.halted

OnRecord == INSTANCE HaltRecord WITH
  day <- today, black <- StoredBlack, red <- StoredRed, ack <- acked

\* Every step of the service and of its failures is a step of the record or
\* none: no order of saves, crash or restart loses a halt that was stored.
HaltsStayOnRecord == OnRecord!Spec
=============================================================================
