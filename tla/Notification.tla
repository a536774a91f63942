---------------------------- MODULE Notification ----------------------------
(***************************************************************************)
(* notification: one subscription per subject turns events into alerts,     *)
(* and an alert is sent to every channel at once.  A message is             *)
(* acknowledged once every channel has answered, well or badly.             *)
(***************************************************************************)
EXTENDS Integers, FiniteSets, Sequences

CONSTANTS
  Channels,      \* the configured sinks
  Notices,       \* the events: [id, subject, level]
  Thresholds,    \* NOTIFY_MIN_SEVERITY, any string
  RecentMax,     \* recent_maxlen
  NoticeDeliver, \* NATS_MAX_DELIVER
  MaxCrashes,    \* bound: restarts
  MaxFailedSends \* bound: failed deliveries

ASSUME NoticeAssumption == RecentMax \in Nat

VARIABLES
  threshold,   \* the configured minimum severity
  stream,      \* unacknowledged messages: notice -> deliveries so far
  dispatch,    \* per subject: the alert being sent
  recent,      \* the last alerts
  crashes, failed
VARIABLES      \* history
  told,        \* notice, channel -> times delivered
  tried,       \* notices each channel of which was tried since published
  acked
noticeVars == <<threshold, stream, dispatch, recent, crashes, failed, told, tried, acked>>

Subjects == {n.subject : n \in Notices}
IdleDispatch == [pc |-> "idle", open |-> {}]

\* SEVERITY_RANK.get(severity, 0)
Rank(severity) == CASE severity = "critical" -> 2 [] severity = "warning" -> 1 [] OTHER -> 0

\* from_circuit_breaker and its siblings.
Severity(n) ==
  CASE n.subject = "risk.circuit_breaker" -> IF n.level = "yellow" THEN "warning" ELSE "critical"
    [] n.subject = "order.filled" -> "info"
    [] n.subject = "backtest.strategy_revalidated" ->
         IF n.level \in {"probation", "deactivate"} THEN "warning" ELSE "info"
    [] n.subject = "strategy.status_changed" ->
         IF n.level \in {"probation", "deactivated"} THEN "warning" ELSE "info"
    [] n.subject = "ml.drift_detected" ->
         IF n.level \in {"warning", "critical"} THEN n.level ELSE "warning"

NoticeInit ==
  /\ threshold \in Thresholds
  /\ stream = [n \in {} |-> 0]
  /\ dispatch = [s \in Subjects |-> IdleDispatch]
  /\ recent = <<>> /\ crashes = 0 /\ failed = 0
  /\ told = [n \in Notices |-> [c \in Channels |-> 0]]
  /\ tried = [n \in Notices |-> {}] /\ acked = {}

\* External: a service publishes an event.
PublishNotice(n) ==
  /\ n \notin DOMAIN stream \union acked
  /\ stream' = [m \in DOMAIN stream \union {n} |-> IF m = n THEN 0 ELSE stream[m]]
  /\ UNCHANGED <<threshold, dispatch, recent, crashes, failed, told, tried, acked>>

Without(n) == [m \in DOMAIN stream \ {n} |-> stream[m]]

\* deque(maxlen=RecentMax)
Remembered(n) ==
  LET all == Append(recent, n) IN SubSeq(all, IF Len(all) > RecentMax THEN 2 ELSE 1, Len(all))

\* The handler of a subject: below the threshold the alert is dropped, and
\* acknowledged; else it is remembered and goes to every channel.
HandleNotice(n) ==
  /\ dispatch[n.subject].pc = "idle"
  /\ IF Rank(Severity(n)) < Rank(threshold)
       THEN /\ stream' = Without(n) /\ acked' = acked \union {n}
            /\ UNCHANGED <<dispatch, recent>>
       ELSE /\ dispatch' = [dispatch EXCEPT ![n.subject] =
                              [pc |-> "send", notice |-> n, open |-> Channels]]
            /\ recent' = Remembered(n)
            /\ UNCHANGED <<stream, acked>>
  /\ UNCHANGED <<threshold, crashes, failed, told, tried>>

\* A channel answers.
Sent(s, c) ==
  LET n == dispatch[s].notice
  IN  /\ c \in dispatch[s].open
      /\ dispatch' = [dispatch EXCEPT ![s].open = @ \ {c}]
      /\ told' = [told EXCEPT ![n][c] = @ + 1]
      /\ tried' = [tried EXCEPT ![n] = @ \union {c}]
      /\ UNCHANGED <<threshold, stream, recent, crashes, failed, acked>>

\* A mutant of SendFails: the first exception ends the dispatch, and the
\* message comes back.
SendFailsRaises(s, c) ==
  LET n == dispatch[s].notice
  IN  /\ c \in dispatch[s].open /\ failed < MaxFailedSends
      /\ failed' = failed + 1
      /\ dispatch' = [dispatch EXCEPT ![s] = IdleDispatch]
      /\ tried' = [tried EXCEPT ![n] = @ \union {c}]
      /\ UNCHANGED <<threshold, stream, recent, crashes, told, acked>>

\* gather(return_exceptions=True): a channel that raises is logged.
SendFails(s, c) ==
  LET n == dispatch[s].notice
  IN  /\ c \in dispatch[s].open /\ failed < MaxFailedSends
      /\ failed' = failed + 1
      /\ dispatch' = [dispatch EXCEPT ![s].open = @ \ {c}]
      /\ tried' = [tried EXCEPT ![n] = @ \union {c}]
      /\ UNCHANGED <<threshold, stream, recent, crashes, told, acked>>

Acknowledge(s) ==
  /\ dispatch[s].pc = "send" /\ dispatch[s].open = {}
  /\ stream' = Without(dispatch[s].notice)
  /\ acked' = acked \union {dispatch[s].notice}
  /\ dispatch' = [dispatch EXCEPT ![s] = IdleDispatch]
  /\ UNCHANGED <<threshold, recent, crashes, failed, told, tried>>

InHand == {dispatch[s].notice : s \in {t \in Subjects : dispatch[t].pc = "send"}}

\* A restart: the alerts in hand come back, unless their deliveries are used
\* up; what the channels already got stays sent.
NoticeCrash ==
  LET back == [n \in DOMAIN stream |-> IF n \in InHand THEN stream[n] + 1 ELSE stream[n]]
  IN  /\ crashes < MaxCrashes /\ crashes' = crashes + 1
      /\ stream' = [n \in {m \in DOMAIN back : back[m] < NoticeDeliver} |-> back[n]]
      /\ dispatch' = [s \in Subjects |-> IdleDispatch]
      /\ recent' = <<>>
      /\ UNCHANGED <<threshold, failed, told, tried, acked>>

NoticeNext ==
  \/ \E n \in Notices : PublishNotice(n)
  \/ \E n \in DOMAIN stream : HandleNotice(n)
  \/ \E s \in Subjects : Acknowledge(s) \/ \E c \in Channels : Sent(s, c) \/ SendFails(s, c)
  \/ NoticeCrash

NoticeSpec == NoticeInit /\ [][NoticeNext]_noticeVars

-----------------------------------------------------------------------------
NoticeTypeOK ==
  /\ DOMAIN stream \subseteq Notices /\ acked \subseteq Notices
  /\ Len(recent) <= RecentMax
  /\ \A s \in Subjects : dispatch[s].open \subseteq Channels

\* An alert at or above the threshold leaves the stream only after every
\* channel was tried with it (service.py:45), one channel being down or the
\* process restarting in between; and no threshold suppresses a trading halt
\* (alerts.py:24).
AckedAlertsWereTried ==
  \A n \in acked :
    \/ Rank(Severity(n)) < Rank(threshold) /\ ~(n.subject = "risk.circuit_breaker" /\ n.level \in {"red", "black"})
    \/ tried[n] = Channels

\* A channel that fails does not make the others repeat themselves: a second
\* delivery of an alert needs a restart in between.
NoRepeatWithoutCrash ==
  \A n \in Notices : \A c \in Channels : told[n][c] <= 1 + crashes

\* An alert reaches every channel before it leaves the stream, and each once
\* per life of the process (service.py:45, subscriber.py:61).
AlertsReachEveryChannelOnce == AckedAlertsWereTried /\ NoRepeatWithoutCrash
=============================================================================
