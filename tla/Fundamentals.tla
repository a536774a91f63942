---------------------------- MODULE Fundamentals ----------------------------
(***************************************************************************)
(* fundamental-data, for one symbol: what EDGAR has published so far is     *)
(* read, scored, kept in memory and in the point-in-time panel, and         *)
(* announced.  A scheduled refresh and the HTTP routes run concurrently;    *)
(* each stops at its awaits (fetch, save, publish).                         *)
(***************************************************************************)
EXTENDS FundamentalRatios, Sequences

CONSTANTS
  Facts,         \* [period, field, tag, value, filed]; tag 1 is preferred,
                 \* filed is Missing for an undated fact, which shows on day 1
  Periods,       \* the fiscal years
  Manual,        \* statements a user may post, current only
  FundDays,      \* bound: days 1..FundDays
  MaxFundRequests,
  MaxFundFaults  \* bound: failed calls and restarts

ASSUME FundAssumption ==
  /\ FundDays \in Nat \ {0} /\ Periods \in SUBSET Nat /\ IsFiniteSet(Periods)
  /\ \A f \in Facts : /\ f.period \in Periods /\ f.field \in Fields /\ f.tag \in Nat
                      /\ f.filed \in Nat \union {Missing}
  /\ \A s \in Manual : /\ DOMAIN s = DOMAIN NoStatement /\ s.period \in Periods
                       /\ s.filed \in Nat \union {Missing}

VARIABLES
  fundDay,
  fundRows,      \* the panel: period -> its row, NoStatement if none
  latestFund,    \* _latest: the last scored statement
  fundTask,      \* per caller: the request in progress
  fundAsked, fundFaults,
  fundPosted,    \* history: periods whose row a posted statement wrote
  fundTorn       \* history: requests overlapped or a save failed, since the last
fundHistory == <<fundPosted, fundTorn>>
fundVars == <<fundDay, fundRows, latestFund, fundTask, fundAsked, fundFaults, fundHistory>>

FundCallers == {"schedule", "http"}
IdleFund == [pc |-> "idle", save |-> {}, announce |-> 0, manual |-> FALSE]

-----------------------------------------------------------------------------
(* EDGAR                                                                   *)

PublicFacts == {f \in Facts : IF Known(f.filed) THEN f.filed <= fundDay ELSE TRUE}

\* _annual_by_period: of the reports of one tag, the earliest filed; an
\* undated one never displaces a dated one.
FirstKnown(reports) ==
  CHOOSE f \in reports : \A g \in reports :
    Known(f.filed) /\ Known(g.filed) => f.filed <= g.filed

\* _field_values: the preferred tag that reports the period at all.
Observed(facts, field, period) ==
  LET reports == {f \in facts : f.field = field /\ f.period = period}
      best == {f \in reports : \A g \in reports : f.tag <= g.tag}
      dated == {f \in best : Known(f.filed)}
  IN  IF reports = {} THEN {} ELSE {FirstKnown(IF dated = {} THEN best ELSE dated)}

MaxOf(S) == CHOOSE x \in S : \A y \in S : x >= y

\* A mutant of StatementFiledAt: the day of the first field.
StatementFiledAtMin(obs) ==
  LET dates == {o.filed : o \in obs}
  IN  IF Missing \in dates THEN Missing ELSE CHOOSE x \in dates : \A y \in dates : x <= y

\* _statement_filed_at: the day of the last field, and none when a field is
\* undated.
StatementFiledAt(obs) ==
  LET dates == {o.filed : o \in obs}
  IN  IF Missing \in dates THEN Missing ELSE MaxOf(dates)

StatementOf(facts, period) ==
  LET obs == [f \in Fields |-> Observed(facts, f, period)]
  IN  [period |-> period, score |-> Missing,
       filed |-> StatementFiledAt(UNION {obs[f] : f \in Fields}),
       v |-> [f \in Fields |-> IF obs[f] = {} THEN Missing
                               ELSE (CHOOSE o \in obs[f] : TRUE).value]]

\* latest_statements: the newest annual periods, at most count of them.
LatestStatements(facts, count) ==
  LET periods == {f.period : f \in facts}
  IN  {StatementOf(facts, p) :
         p \in {q \in periods : Cardinality({r \in periods : r > q}) < count}}

-----------------------------------------------------------------------------
(* Requests                                                                *)

FundInit ==
  /\ fundDay = 1
  /\ fundRows = [p \in Periods |-> NoStatement]
  /\ latestFund = NoStatement
  /\ fundTask = [c \in FundCallers |-> IdleFund]
  /\ fundAsked = 0 /\ fundFaults = 0 /\ fundPosted = {} /\ fundTorn = FALSE

FundFault == fundFaults < MaxFundFaults /\ fundFaults' = fundFaults + 1
FundRequest == fundAsked < MaxFundRequests /\ fundAsked' = fundAsked + 1

FundTick ==
  /\ fundDay < FundDays /\ fundDay' = fundDay + 1
  /\ UNCHANGED <<fundRows, latestFund, fundTask, fundAsked, fundFaults, fundHistory>>

PriorOf(statements, s) ==
  LET older == {t \in statements : t.period < s.period}
  IN  IF older = {} THEN NoStatement ELSE CHOOSE t \in older : \A u \in older : t.period >= u.period

Scored(s, prior) == [s EXCEPT !.score = ComputeFScore(s, prior)]

Newest(statements) == CHOOSE s \in statements : \A t \in statements : s.period >= t.period

\* refresh: the two newest filings; only the newest is scored, and both are
\* saved as they are.
StatementsOfRefresh(statements) ==
  LET current == Newest(statements)
  IN  {Scored(current, PriorOf(statements, current))} \union (statements \ {current})

\* refresh_history: every period, each scored against its predecessor.
StatementsOfHistory(statements) == {Scored(s, PriorOf(statements, s)) : s \in statements}

Overlaps(c) == \E d \in FundCallers \ {c} : fundTask[d].pc # "idle"

\* One fetch, in one go; memory is updated before the save.
FetchFilings(c, save) ==
  /\ FundRequest
  /\ fundTask[c].pc = "idle"
  /\ save # {}
  /\ latestFund' = Newest(save)
  /\ fundTask' = [fundTask EXCEPT ![c] =
                    [pc |-> "save", save |-> save, announce |-> Newest(save).period, manual |-> FALSE]]
  /\ fundTorn' = Overlaps(c)
  /\ UNCHANGED <<fundDay, fundRows, fundFaults, fundPosted>>

RefreshFundamentals(c) == FetchFilings(c, LET S == LatestStatements(PublicFacts, 2)
                                          IN  IF S = {} THEN {} ELSE StatementsOfRefresh(S))

BackfillFundamentals == FetchFilings("http", StatementsOfHistory(LatestStatements(PublicFacts, 24)))

\* ingest: a posted statement is scored and goes the same way.
IngestStatement(s) ==
  /\ FundRequest
  /\ fundTask["http"].pc = "idle"
  /\ LET scored == Scored(s, NoStatement)
     IN  /\ latestFund' = scored
         /\ fundTask' = [fundTask EXCEPT !["http"] =
              [pc |-> "save", save |-> {scored}, announce |-> s.period, manual |-> TRUE]]
  /\ fundTorn' = Overlaps("http")
  /\ UNCHANGED <<fundDay, fundRows, fundFaults, fundPosted>>

\* SqlFundamentalsStore.save: one transaction, each row replaced whole.
SaveFilings(c) ==
  LET t == fundTask[c]
      written == {s.period : s \in t.save}
  IN  /\ t.pc = "save"
      /\ fundRows' = [p \in Periods |-> IF p \in written
                        THEN CHOOSE s \in t.save : s.period = p ELSE fundRows[p]]
      /\ fundTask' = [fundTask EXCEPT ![c].pc = "publish"]
      /\ fundPosted' = IF t.manual THEN fundPosted \union written ELSE fundPosted \ written
      /\ UNCHANGED <<fundDay, latestFund, fundAsked, fundFaults, fundTorn>>

PublishFundamentals(c) ==
  /\ fundTask[c].pc = "publish"
  /\ fundTask' = [fundTask EXCEPT ![c] = IdleFund]
  /\ UNCHANGED <<fundDay, fundRows, latestFund, fundAsked, fundFaults, fundHistory>>

\* The database or the broker raises; what came before stands.
FundFails(c) ==
  /\ fundTask[c].pc # "idle" /\ FundFault
  /\ fundTask' = [fundTask EXCEPT ![c] = IdleFund]
  /\ fundTorn' = (fundTorn \/ fundTask[c].pc = "save")
  /\ UNCHANGED <<fundDay, fundRows, latestFund, fundAsked, fundPosted>>

FundCrash ==
  /\ FundFault
  /\ latestFund' = NoStatement /\ fundTask' = [c \in FundCallers |-> IdleFund]
  /\ UNCHANGED <<fundDay, fundRows, fundAsked, fundHistory>>

FundNext ==
  \/ FundTick
  \/ \E c \in FundCallers :
       RefreshFundamentals(c) \/ SaveFilings(c) \/ PublishFundamentals(c) \/ FundFails(c)
  \/ BackfillFundamentals
  \/ \E s \in Manual : IngestStatement(s)
  \/ FundCrash

-----------------------------------------------------------------------------
PanelRows == {fundRows[p] : p \in Periods} \ {NoStatement}

\* as_of_session
AsOfSession(day) == LatestAvailableBefore(PanelRows, SessionCutoff(day))

FundTypeOK ==
  /\ fundDay \in 1..FundDays /\ fundPosted \subseteq Periods
  /\ \A p \in Periods : fundRows[p].period \in {0, p}
  /\ \A c \in FundCallers : fundTask[c].pc \in {"idle", "save", "publish"}

PublishedBefore(s, day) ==
  \A f \in Fields : Known(s.v[f]) =>
    \E x \in Facts : /\ x.period = s.period /\ x.field = f /\ x.value = s.v[f]
                     /\ Known(x.filed) /\ x.filed < day

\* What the panel answers for a session holds no number first filed on that
\* session or later, in the statement and in the earlier one asset growth is
\* computed from (edgar_client.py:83, fundamentals.py:158), whichever tag the
\* filer moved to and whenever the panel was filled.
NoLookAhead ==
  \A day \in 1..FundDays + 1 :
    LET s == AsOfSession(day)
        prior == PriorAvailableBefore(PanelRows, SessionCutoff(day), s)
    IN  \A x \in {s, prior} :
          x # NoStatement /\ x.period \notin fundPosted => PublishedBefore(x, day)

\* The F-score served for a session is the one the filings public before it
\* give, unless a filing of the year before still gained a field later
\* (service.py:96): the score is computed from the prior year as EDGAR knows
\* it today, and dated by the current year alone.
ScoreIsKnowable ==
  \A day \in 1..FundDays + 1 :
    LET s == AsOfSession(day)
        then == {f \in Facts : Known(f.filed) /\ f.filed < day}
        settled == \A f \in Facts : f.period < s.period => Known(f.filed) /\ f.filed <= s.filed
    IN  s # NoStatement /\ s.period \notin fundPosted /\ Known(s.score) /\ settled
          => s.score = ComputeFScore(s, PriorOf(LatestStatements(then, 24), s))

\* What GET /fundamentals serves and what the panel holds of the same period
\* agree, whichever request wrote last, unless two requests overlapped, a save
\* failed or the process restarted (service.py:47 writes memory before the save).
MemoryMatchesPanel ==
  (\A c \in FundCallers : fundTask[c].pc = "idle") /\ ~fundTorn /\ latestFund # NoStatement
    => fundRows[latestFund.period] = latestFund

\* Neither a statement nor a score of the panel is ahead of its session.
NothingIsKnownEarly == NoLookAhead /\ ScoreIsKnowable
=============================================================================
