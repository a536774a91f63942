------------------------------ MODULE Strategy ------------------------------
(***************************************************************************)
(* The strategy service on top of feature-engine.  A features.ready event, *)
(* or a POST, evaluates a symbol: the active rules are listed, three       *)
(* queries are awaited, then each listed rule decides, passes the gates    *)
(* and publishes.  Two more writers, backtest's revalidations and posted   *)
(* decay metrics, move a rule's status, in memory only, and announce it.   *)
(***************************************************************************)
EXTENDS Rules, FeatureEngine

CONSTANTS
  Enabled,          \* ENABLED_STRATEGIES
  Params,           \* STRATEGY_PARAMS, per rule
  Portfolios,       \* the portfolios risk-mgmt may report
  StaticPortfolio,  \* the placeholder of the settings
  FallbackStop,     \* STOP_LOSS_PCT, in bps
  EdgeBps,          \* EXPECTED_EDGE_BPS
  CapTier,          \* MARKET_CAP_TIER
  Recommendations,  \* backtest.strategy_revalidated events: [strategy, status]
  Metrics           \* posted decay metrics: [strategy, sharpe, pf, wr, days]

ASSUME StrategyAssumption ==
  /\ Enabled \subseteq RuleNames /\ Enabled # {}
  /\ StaticPortfolio \in Portfolios

VARIABLES
  status,      \* per rule: active, probation or deactivated
  announcing,  \* per writer: the status change it is publishing
  reval,       \* revalidations backtest published, unacknowledged: [msg, tries]
  portfolio,   \* what risk-mgmt would answer
  eval         \* per caller: the evaluation in progress

VARIABLES   \* history
  believed,    \* per rule: the status last announced
  unsaid,      \* rules a change of which was not or out of order
  lastSeen,    \* per symbol: the newest vector evaluated, or not for want of a rule
  forgotten    \* symbols whose evaluation was given up

strategyState == <<status, announcing, reval, portfolio, eval>>
strategyHist  == <<believed, unsaid, lastSeen, forgotten>>
vars == <<featureVars, strategyState, strategyHist>>

Statuses == {"active", "probation", "deactivated"}
Writers == {"backtest", "http"}
NoChange == [rule |-> "none", status |-> "none", msg |-> <<>>]
Asleep == [pc |-> "idle", symbol |-> "none", active |-> {}, ranked |-> <<>>, raw |-> 0,
           portfolio |-> StaticPortfolio, msg |-> NoMessage, caught |-> {}, blind |-> FALSE]

Init ==
  /\ FeatureInit
  /\ status = [r \in Enabled |-> "active"]
  /\ announcing = [w \in Writers |-> NoChange]
  /\ reval = {[msg |-> m, tries |-> 0] : m \in Recommendations}
  /\ portfolio = StaticPortfolio
  /\ eval = [c \in Callers |-> Asleep]
  /\ believed = status /\ unsaid = {}
  /\ lastSeen = [s \in Symbols |-> FirstBars[s]]
  /\ forgotten = {}

-----------------------------------------------------------------------------
(* The status of a rule                                                    *)

\* StrategyDecayMonitor.evaluate, in hundredths.
DecayStatus(m) ==
  IF m.sharpe < 0 \/ m.pf < 80 \/ m.days > 30 THEN "deactivated"
  ELSE IF m.sharpe >= 50 /\ m.pf >= 120 /\ m.wr >= 40 THEN "active"
  ELSE "probation"

RecommendedToStatus == [active |-> "active", probation |-> "probation",
                        deactivate |-> "deactivated"]

\* A rule an evaluation listed that is no longer active is caught in flight.
Caught(r, new) ==
  [c \in Callers |->
     IF eval[c].pc # "idle" /\ r \in eval[c].active /\ new # "active"
       THEN [eval[c] EXCEPT !.caught = @ \union {r}] ELSE eval[c]]

\* tracker.apply_status / evaluate, and the announcement if it moved.
SetStatus(w, r, new, msg) ==
  /\ status' = [status EXCEPT ![r] = new]
  /\ eval' = Caught(r, new)
  /\ announcing' = IF status[r] = new THEN announcing
                   ELSE [announcing EXCEPT ![w] = [rule |-> r, status |-> new, msg |-> msg]]
  /\ unsaid' = IF status[r] # new /\ \E v \in Writers \ {w} : announcing[v].rule = r
                 THEN unsaid \union {r} ELSE unsaid

\* A rule not run here is ignored; an unknown status is a poison message.
ApplyRevalidation(d) ==
  LET r == d.msg.strategy
  IN  /\ announcing["backtest"] = NoChange
      /\ IF r \notin Enabled \/ d.msg.status \notin DOMAIN RecommendedToStatus
           THEN reval' = reval \ {d} /\ UNCHANGED <<status, eval, announcing, unsaid>>
           ELSE LET new == RecommendedToStatus[d.msg.status]
                IN  /\ SetStatus("backtest", r, new, <<d>>)
                    /\ reval' = IF status[r] = new THEN reval \ {d} ELSE reval
      /\ UNCHANGED <<featureVars, portfolio, believed, lastSeen, forgotten>>

\* POST /decay/{strategy_name}; an unknown strategy is a 404.
UpdateHealth(m) ==
  /\ manual < MaxManual /\ manual' = manual + 1
  /\ announcing["http"] = NoChange
  /\ m.strategy \in Enabled
  /\ SetStatus("http", m.strategy, DecayStatus(m), <<>>)
  /\ UNCHANGED <<engine, crossed, dropped, faults, reval, portfolio,
                 believed, lastSeen, forgotten>>

AckOf(w) == {announcing[w].msg[i] : i \in DOMAIN announcing[w].msg}

PublishStatusChanged(w) ==
  /\ announcing[w] # NoChange
  /\ believed' = [believed EXCEPT ![announcing[w].rule] = announcing[w].status]
  /\ announcing' = [announcing EXCEPT ![w] = NoChange]
  /\ reval' = reval \ AckOf(w)
  /\ UNCHANGED <<featureVars, status, portfolio, eval, unsaid, lastSeen, forgotten>>

\* A mutant of PublishStatusFails: the status goes back when its publish fails.
PublishStatusFailsSilently(w) ==
  /\ announcing[w] # NoChange /\ Fault
  /\ announcing' = [announcing EXCEPT ![w] = NoChange]
  /\ reval' = reval \ AckOf(w)
  /\ UNCHANGED <<engine, crossed, dropped, manual, status, portfolio, eval,
                 believed, unsaid, lastSeen, forgotten>>

\* The publish raises: the status has moved, and the redelivery finds it there.
PublishStatusFails(w) ==
  /\ announcing[w] # NoChange /\ Fault
  /\ unsaid' = unsaid \union {announcing[w].rule}
  /\ announcing' = [announcing EXCEPT ![w] = NoChange]
  /\ reval' = (reval \ AckOf(w)) \union
                {d \in {[e EXCEPT !.tries = @ + 1] : e \in AckOf(w)} : d.tries < MaxDeliver}
  /\ UNCHANGED <<engine, crossed, dropped, manual, status, portfolio, eval,
                 believed, lastSeen, forgotten>>

-----------------------------------------------------------------------------
(* The evaluation of a symbol                                              *)

Done(c) ==
  /\ eval' = [eval EXCEPT ![c] = Asleep]
  /\ ready' = ready \ {eval[c].msg}

Newer(c, n) == [lastSeen EXCEPT ![eval[c].symbol] = IF @ < n THEN n ELSE @]

ActiveRules == {r \in Enabled : status[r] = "active"}

\* A mutant of BeginEvaluation: every rule is listed.
BeginEvaluationAll(c, s, m) ==
  eval' = [eval EXCEPT ![c] = [Asleep EXCEPT !.pc = "ranked", !.symbol = s,
                                             !.active = Enabled, !.msg = m]]

\* evaluate_symbol: the active rules are listed before the first await.
BeginEvaluation(c, s, m) ==
  eval' = [eval EXCEPT ![c] = [Asleep EXCEPT !.pc = "ranked", !.symbol = s,
                                             !.active = ActiveRules, !.msg = m]]

\* features.ready, or POST /evaluate/{symbol}.
HandleFeaturesReady(m) ==
  /\ eval["event"].pc = "idle"
  /\ BeginEvaluation("event", m.symbol, m)
  /\ UNCHANGED <<featureVars, status, announcing, reval, portfolio,
                 believed, unsaid, lastSeen, forgotten>>

PostEvaluate(s) ==
  /\ manual < MaxManual /\ manual' = manual + 1
  /\ eval["http"].pc = "idle"
  /\ BeginEvaluation("http", s, NoMessage)
  /\ UNCHANGED <<engine, crossed, dropped, faults, status, announcing, reval,
                 portfolio, believed, unsaid, lastSeen, forgotten>>

\* get_ranked; with no active rule nothing is asked.
QueryRanked(c) ==
  LET e == eval[c]
      ranked == GetRanked(e.symbol)
  IN  /\ e.pc = "ranked"
      /\ IF e.active = {}
           THEN Done(c) /\ lastSeen' = Newer(c, vector[e.symbol])
           ELSE /\ eval' = [eval EXCEPT ![c].pc = "raw", ![c].ranked = ranked]
                /\ UNCHANGED <<ready, lastSeen>>
      /\ UNCHANGED <<bars, market, calc, vector, index, history, status, announcing, reval,
                 portfolio, believed, unsaid, forgotten>>

\* get_features: a symbol without vectors ends the evaluation.
QueryFeatures(c) ==
  LET e == eval[c]
      raw == GetFeatures(e.symbol)
  IN  /\ e.pc = "raw"
      /\ IF e.ranked = <<>> \/ raw = <<>>
           THEN Done(c)
           ELSE /\ eval' = [eval EXCEPT ![c].pc = "portfolio", ![c].raw = raw[1]]
                /\ UNCHANGED ready
      /\ UNCHANGED <<bars, market, calc, vector, index, history, status, announcing, reval,
                 portfolio, strategyHist>>

\* _current_portfolio: risk-mgmt's answer.
QueryPortfolio(c) ==
  /\ eval[c].pc = "portfolio"
  /\ eval' = [eval EXCEPT ![c].pc = "rules", ![c].portfolio = portfolio]
  /\ UNCHANGED <<featureVars, status, announcing, reval, portfolio, strategyHist>>

\* HttpPortfolioClient answers None on an error: the placeholder is used.
PortfolioUnavailable(c) ==
  /\ eval[c].pc = "portfolio" /\ Fault
  /\ eval' = [eval EXCEPT ![c].pc = "rules", ![c].portfolio = StaticPortfolio, ![c].blind = TRUE]
  /\ UNCHANGED <<engine, crossed, dropped, manual, status, announcing, reval,
                 portfolio, strategyHist>>

NextRule(c) == CHOOSE r \in eval[c].active : \A q \in eval[c].active : Order[r] <= Order[q]

\* What _evaluate_rule makes of the snapshot: "publish", "skip" or "raise".
RawOf(c) == Vectors[eval[c].symbol][eval[c].raw]
DecisionOf(c, r) == Generate(r, eval[c].ranked[1], RawOf(c), Params[r])
LevelsOf(c, r) == ProtectiveLevels(DecisionOf(c, r), RawOf(c)["close"], RawOf(c), FallbackStop)

Outcome(c, r) ==
  LET d == DecisionOf(c, r)
  IN  CASE d.signal = "HOLD" -> "skip"
        [] d.signal # "HOLD" /\ ~ValidSignal(d, RawOf(c)["close"], LevelsOf(c, r)) -> "raise"
        [] OTHER ->
             IF /\ CheckSignal(eval[c].portfolio, d, 0)
                /\ ProfitableAfterCosts((EdgeBps * d.confidence) \div One, CapTier)
               THEN "publish" ELSE "skip"

\* The next listed rule: its signal is published, or it has none.
EvaluateRule(c) ==
  LET r == NextRule(c)
  IN  /\ eval[c].pc = "rules" /\ eval[c].active # {}
      /\ Outcome(c, r) # "raise"
      /\ eval' = [eval EXCEPT ![c].active = @ \ {r}]
      /\ UNCHANGED <<featureVars, status, announcing, reval, portfolio,
                     believed, unsaid, lastSeen, forgotten>>

\* TradingSignal refuses the levels: the message is terminated, and the
\* rules that come after have not been asked.
InvalidLevels(c) ==
  /\ eval[c].pc = "rules" /\ eval[c].active # {}
  /\ Outcome(c, NextRule(c)) = "raise"
  /\ forgotten' = IF c = "event" THEN forgotten \union {eval[c].symbol} ELSE forgotten
  /\ Done(c)
  /\ UNCHANGED <<bars, market, calc, vector, index, history, status, announcing, reval,
                 portfolio, believed, unsaid, lastSeen>>

EndEvaluation(c) ==
  /\ eval[c].pc = "rules" /\ eval[c].active = {}
  /\ lastSeen' = Newer(c, eval[c].raw)
  /\ Done(c)
  /\ UNCHANGED <<bars, market, calc, vector, index, history, status, announcing, reval,
                 portfolio, believed, unsaid, forgotten>>

\* A mutant of EvaluationFails: the message is acknowledged all the same.
EvaluationFailsAcked(c) ==
  /\ eval[c].pc # "idle" /\ Fault
  /\ Done(c)
  /\ UNCHANGED <<bars, market, calc, vector, index, crossed, dropped, manual,
                 status, announcing, reval, portfolio, strategyHist>>

\* A query or a publish raises: nak; a request's caller gets the error.
EvaluationFails(c) ==
  LET m == eval[c].msg
  IN  /\ eval[c].pc # "idle" /\ Fault
      /\ eval' = [eval EXCEPT ![c] = Asleep]
      /\ ready' = IF c = "event" THEN Redelivery(ready, m) ELSE ready
      /\ forgotten' = IF c = "event" THEN forgotten \union GivenUp(m) ELSE forgotten
      /\ UNCHANGED <<bars, market, calc, vector, index, crossed, dropped, manual,
                     status, announcing, reval, portfolio, believed, unsaid, lastSeen>>

\* The book moves under the evaluations that have read it.
PortfolioMoves(p) ==
  /\ manual < MaxManual /\ manual' = manual + 1
  /\ p # portfolio /\ portfolio' = p
  /\ eval' = [c \in Callers |-> IF eval[c].pc = "rules" THEN [eval[c] EXCEPT !.blind = TRUE]
                                ELSE eval[c]]
  /\ UNCHANGED <<engine, crossed, dropped, faults, status, announcing, reval, believed, unsaid, lastSeen,
                 forgotten>>

\* A restart: every rule is active again and nobody is told.
StrategyCrash ==
  LET m == eval["event"].msg
  IN  /\ Fault
      /\ status' = [r \in Enabled |-> "active"]
      /\ announcing' = [w \in Writers |-> NoChange]
      /\ reval' = (reval \ AckOf("backtest")) \union
                    {d \in {[e EXCEPT !.tries = @ + 1] : e \in AckOf("backtest")} :
                       d.tries < MaxDeliver}
      /\ eval' = [c \in Callers |-> Asleep]
      /\ ready' = IF m = NoMessage THEN ready ELSE Redelivery(ready, m)
      /\ forgotten' = IF m = NoMessage THEN forgotten ELSE forgotten \union GivenUp(m)
      /\ unsaid' = unsaid \union {r \in Enabled : status[r] # "active" \/ believed[r] # "active"}
      /\ UNCHANGED <<bars, market, calc, vector, index, crossed, dropped, manual,
                 portfolio, believed, lastSeen>>

Evaluate(c) ==
  \/ QueryRanked(c) \/ QueryFeatures(c) \/ QueryPortfolio(c)
  \/ EvaluateRule(c) \/ InvalidLevels(c) \/ EndEvaluation(c)

StrategyNext ==
  \/ \E d \in reval : ApplyRevalidation(d)
  \/ \E m \in Metrics : UpdateHealth(m)
  \/ \E w \in Writers : PublishStatusChanged(w) \/ PublishStatusFails(w)
  \/ \E m \in ready : HandleFeaturesReady(m)
  \/ \E s \in Asked : PostEvaluate(s)
  \/ \E c \in Callers : Evaluate(c) \/ PortfolioUnavailable(c) \/ EvaluationFails(c)
  \/ \E p \in Portfolios : PortfolioMoves(p)
  \/ StrategyCrash

Next == (FeatureNext /\ UNCHANGED <<strategyState, strategyHist>>) \/ StrategyNext

Spec == Init /\ [][Next]_vars

-----------------------------------------------------------------------------
TypeOK ==
  /\ FeatureTypeOK
  /\ status \in [Enabled -> Statuses] /\ believed \in [Enabled -> Statuses]
  /\ unsaid \subseteq Enabled /\ forgotten \subseteq Symbols
  /\ portfolio \in Portfolios
  /\ \A c \in Callers : /\ eval[c].pc \in {"idle", "ranked", "raw", "portfolio", "rules"}
                        /\ eval[c].active \subseteq Enabled /\ eval[c].portfolio \in Portfolios

Publishes(c, r) ==
  /\ eval[c].pc = "rules" /\ eval'[c].pc = "rules"
  /\ r \in eval[c].active \ eval'[c].active
  /\ Outcome(c, r) = "publish"

\* A signal is an active rule's, unless the rule was taken out of service while
\* that very evaluation was waiting (service.py:174 lists the rules first).
SignalsAreOfActiveRules ==
  [][\A c \in Callers : \A r \in Enabled :
       Publishes(c, r) => status[r] = "active" \/ r \in eval[c].caught]_vars

\* No signal leaves while the book is past a limit of the risk envelope, unless
\* risk-mgmt did not answer or the book moved after it did (service.py:187).
SignalsRespectTheBook ==
  [][\A c \in Callers : \A r \in Enabled :
       Publishes(c, r) => CheckSignal(portfolio, DecisionOf(c, r), 0) \/ eval[c].blind]_vars

\* What was last announced of a rule is its status, once nothing is being
\* announced, unless a publish failed, two writers overlapped or a restart made
\* it active (service.py:139 moves the status before it publishes).
AnnouncedStatusIsTrue ==
  \A r \in Enabled \ unsaid :
    (\A w \in Writers : announcing[w].rule # r) => believed[r] = status[r]

QuietFor(s) ==
  /\ ~Waiting(s)
  /\ \A m \in ready : m.symbol # s
  /\ \A c \in Callers : eval[c].symbol # s

\* When a symbol's pipeline is quiet its latest bar has been through the rules:
\* no step from market-data's event to the last rule loses one but a message
\* given up, refused levels, or two computations that crossed.
LatestBarReachesTheRules ==
  \A s \in Symbols :
    QuietFor(s) /\ s \notin crossed \union dropped \union forgotten /\ bars[s] >= MinBars
      => lastSeen[s] = bars[s]

\* A vector served, raw or ranked, is of the latest bars, or work on it is still
\* to come (feature-engine service.py:54, store.py:57).
VectorsAreServed == TypeOK /\ VectorIsCurrent /\ UnindexedIsUnfinished

\* Nothing is published that the health state machine or the risk envelope
\* forbade while it was being decided (service.py:167-217).
SignalsAreJustified == SignalsAreOfActiveRules /\ SignalsRespectTheBook
=============================================================================
