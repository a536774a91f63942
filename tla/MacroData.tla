------------------------------ MODULE MacroData ------------------------------
(***************************************************************************)
(* macro-data: the vintage panel, filled series by series from ALFRED and  *)
(* read as of a day, and the live regime, which scheduled and posted       *)
(* refreshes classify and announce.  An observation is                     *)
(* [series, period, vintage, value]; Never is an unknown vintage.  Values  *)
(* are in hundredths.                                                      *)
(***************************************************************************)
EXTENDS Optional, Sequences

CONSTANTS
  SeriesOrder,   \* the series of a backfill, in its order
  Alfred,        \* every observation there will have been
  Slices,        \* the realtime windows of a backfill: <<first, last>>
  MacroDays,     \* bound: days 1..MacroDays
  FredNames,     \* the indicator names DEFAULT_SERIES fetches
  Overrides,     \* posted indicators, by key; Missing is None
  MaxRefreshes,  \* bound: refreshes and backfills
  MaxMacroFaults \* bound: failed calls and restarts

VARIABLES
  macroDay,
  panel,       \* the stored observations
  backfill,    \* the backfill in progress
  regime,      \* the last classification, "none" when nothing classifies
  refresh,     \* per caller: the refresh in progress
  macroAsked, macroFaults

VARIABLES   \* history
  heard,       \* the regime last announced by a RegimeChanged event
  muted,       \* a change was not announced, or out of order, since
  filledTo     \* per series: the day its last stored window was fetched, or 0

macroState == <<macroDay, panel, backfill, regime, refresh, macroAsked, macroFaults>>
macroVars  == <<macroState, heard, muted, filledTo>>

Never == 9999
IndicatorKeys == {"yield_curve_10y_2y", "credit_spread_baa_10y", "pmi"}
MacroCallers == {"schedule", "http"}
AllSeries == {SeriesOrder[i] : i \in DOMAIN SeriesOrder}
NoBackfill == [pc |-> "idle", series |-> 1, slice |-> 1, rows |-> {}, through |-> 0]
NoRefresh == [pc |-> "idle", override |-> [k \in IndicatorKeys |-> Missing],
              previous |-> "none", regime |-> "none"]

InWindow(o, w) == w[1] <= o.vintage /\ o.vintage <= w[2]

\* Observations are keyed by series, period and vintage; the windows cover every
\* vintage, and all of them but the last are history on the first day.
ASSUME MacroAssumption ==
  /\ MacroDays \in 1..(Never - 1)
  /\ Len(SeriesOrder) \in Nat \ {0} /\ DOMAIN SeriesOrder = 1..Len(SeriesOrder)
  /\ \A o \in Alfred : o.period \in Nat \ {0} /\ o.vintage \in Nat
  /\ \A o, p \in Alfred :
       o.series = p.series /\ o.period = p.period /\ o.vintage = p.vintage => o = p
  /\ Len(Slices) \in Nat \ {0}
  /\ \A o \in Alfred :
       o.vintage # Never => \E i \in 1..Len(Slices) : InWindow(o, Slices[i])
  /\ \A i \in 1..(Len(Slices) - 1) : \A o \in Alfred :
       InWindow(o, Slices[i]) => o.vintage <= 1 /\ o.period <= 1

-----------------------------------------------------------------------------
(* Classification                                                          *)

\* classify_regime: in the order of severity, only rules whose inputs are
\* there.
ClassifyRegime(curve, spread, pmi) ==
  LET weak == Known(pmi) /\ pmi < 4800
  IN  IF Known(spread) /\ spread >= 300 THEN "crisis"
      ELSE IF Known(curve) /\ curve <= -50 /\ weak THEN "crisis"
      ELSE IF weak \/ (Known(curve) /\ curve < 0) THEN "contraction"
      ELSE IF Known(pmi) /\ pmi < 5200 THEN "slowdown"
      ELSE IF Known(spread) /\ spread >= 200 THEN "slowdown"
      ELSE IF Known(pmi) THEN IF pmi >= 5500 THEN "expansion" ELSE "recovery"
      ELSE IF Known(curve) THEN IF curve > 0 THEN "expansion" ELSE "contraction"
      ELSE "none"

\* derive_spreads: FRED's own definitions, at read time, and only when both
\* legs are there.
DeriveSpread(value, minuend, subtrahend) ==
  IF Known(value[minuend]) /\ Known(value[subtrahend])
  THEN value[minuend] - value[subtrahend] ELSE Missing

RegimeOf(value) ==
  ClassifyRegime(DeriveSpread(value, "DGS10", "DGS2"), DeriveSpread(value, "BAA", "DGS10"),
                 value["PMI"])

Panel(S) == AllSeries \union {"DGS10", "DGS2", "BAA", "PMI"} \union {o.series : o \in S}

\* The newest period wins, and within one the newest vintage.
Supersedes(o, p) ==
  o.period > p.period \/ (o.period = p.period /\ o.vintage > p.vintage)

BestOf(S) == CHOOSE o \in S : \A p \in S \ {o} : Supersedes(o, p)

\* as_of: what was public on a day, of the newest period then known.
AsOf(S, day) ==
  [s \in Panel(S) |->
     LET known == {o \in S : o.series = s /\ o.period <= day /\ o.vintage <= day}
     IN  IF known = {} THEN Missing
         ELSE (CHOOSE o \in known : \A p \in known :
                 <<o.period, o.vintage>> = <<p.period, p.vintage>>
                   \/ o.period > p.period \/ (o.period = p.period /\ o.vintage > p.vintage)).value]

RegimeOn(S, day) == RegimeOf(AsOf(S, day))

VisibleFrom(o) == IF o.period > o.vintage THEN o.period ELSE o.vintage

\* regime_history: one pass over the panel, in the order rows become visible,
\* carrying per series the row in force.
RegimeHistory(S) ==
  LET Walk[day \in 0..MacroDays] ==       \* per series: {} or its row in force
        IF day = 0 THEN [s \in Panel(S) |-> {}]
        ELSE [s \in Panel(S) |->
                LET rows == Walk[day - 1][s] \union
                              {o \in S : o.series = s /\ VisibleFrom(o) = day}
                IN  IF rows = {} THEN {} ELSE {BestOf(rows)}]
      ValueOf(held) == IF held = {} THEN Missing ELSE (CHOOSE o \in held : TRUE).value
  IN  [day \in 1..MacroDays |-> RegimeOf([s \in Panel(S) |-> ValueOf(Walk[day][s])])]

-----------------------------------------------------------------------------
MacroInit ==
  /\ macroDay = 1 /\ panel = {} /\ backfill = NoBackfill
  /\ regime = "none"
  /\ refresh = [c \in MacroCallers |-> NoRefresh]
  /\ macroAsked = 0 /\ macroFaults = 0
  /\ heard = "none" /\ muted = FALSE
  /\ filledTo = [s \in AllSeries |-> 0]

MacroFault == macroFaults < MaxMacroFaults /\ macroFaults' = macroFaults + 1
MacroRequest == macroAsked < MaxRefreshes /\ macroAsked' = macroAsked + 1

MacroTick ==
  /\ macroDay < MacroDays
  /\ macroDay' = macroDay + 1
  /\ UNCHANGED <<panel, backfill, regime, refresh, macroAsked, macroFaults, heard, muted, filledTo>>

(* The backfill                                                            *)

PostBackfill ==
  /\ MacroRequest
  /\ backfill.pc = "idle"
  /\ backfill' = [NoBackfill EXCEPT !.pc = "fetch"]
  /\ UNCHANGED <<macroDay, panel, regime, refresh, macroFaults, heard, muted, filledTo>>

\* One realtime window of the series; the last one goes on to the save.
FetchSlice ==
  LET b == backfill
      w == Slices[b.slice]
      page == {o \in Alfred : /\ o.series = SeriesOrder[b.series]
                              /\ o.vintage = Never \/ o.vintage <= macroDay
                              /\ o.period <= macroDay
                              /\ IF o.vintage = Never THEN b.slice = 1 ELSE InWindow(o, w)}
  IN  /\ b.pc = "fetch"
      /\ backfill' = [b EXCEPT !.rows = @ \union page, !.slice = @ + 1, !.through = macroDay,
                               !.pc = IF b.slice = Len(Slices) THEN "save" ELSE "fetch"]
      /\ UNCHANGED <<macroDay, panel, regime, refresh, macroAsked, macroFaults,
                     heard, muted, filledTo>>

NextSeries == IF backfill.series = Len(SeriesOrder) THEN NoBackfill
              ELSE [NoBackfill EXCEPT !.pc = "fetch", !.series = backfill.series + 1]

\* A mutant of SliceFails: the window counts as empty.
SliceFailsEmpty ==
  /\ backfill.pc = "fetch" /\ MacroFault
  /\ backfill' = [backfill EXCEPT !.slice = @ + 1,
                                  !.pc = IF backfill.slice = Len(Slices) THEN "save" ELSE "fetch"]
  /\ UNCHANGED <<macroDay, panel, regime, refresh, macroAsked, heard, muted, filledTo>>

\* A failed window gives up the whole series: nothing of it is stored.
SliceFails ==
  /\ backfill.pc = "fetch" /\ MacroFault
  /\ backfill' = NextSeries
  /\ UNCHANGED <<macroDay, panel, regime, refresh, macroAsked, heard, muted, filledTo>>

SameKey(o, p) == o.series = p.series /\ o.period = p.period /\ o.vintage = p.vintage

\* SqlMacroStore.save: one transaction for the series, an upsert on its key.
SaveSeries ==
  LET rows == backfill.rows
  IN  /\ backfill.pc = "save"
      /\ panel' = {o \in panel : \A p \in rows : ~SameKey(o, p)} \union rows
      /\ backfill' = NextSeries
      /\ filledTo' = [filledTo EXCEPT ![SeriesOrder[backfill.series]] = backfill.through]
      /\ UNCHANGED <<macroDay, regime, refresh, macroAsked, macroFaults, heard, muted>>

\* The database raises: the request ends, the series before it are stored.
SaveSeriesFails ==
  /\ backfill.pc = "save" /\ MacroFault
  /\ backfill' = NoBackfill
  /\ UNCHANGED <<macroDay, panel, regime, refresh, macroAsked, heard, muted, filledTo>>

(* The live regime                                                         *)

\* The scheduled refresh overrides nothing.
BeginRefresh(c, override) ==
  /\ MacroRequest
  /\ refresh[c].pc = "idle"
  /\ c = "schedule" => override = [k \in IndicatorKeys |-> Missing]
  /\ refresh' = [refresh EXCEPT ![c] = [NoRefresh EXCEPT !.pc = "fetch", !.override = override]]
  /\ UNCHANGED <<macroDay, panel, backfill, regime, macroFaults, heard, muted, filledTo>>

\* The indicators the classifier reads: those fetched under its keys, and the
\* posted ones over them.  A series FRED does not answer for is None.
Indicators(fetched, override) ==
  [k \in IndicatorKeys |-> IF override[k] # Missing THEN override[k]
                           ELSE IF k \in FredNames THEN fetched ELSE Missing]

Overlapping(c) == \E d \in MacroCallers \ {c} : refresh[d].pc \in {"updated", "changed"}

\* fetch_indicators answers; the regime is replaced before anything is
\* published.
Reclassify(c, fetched) ==
  LET i == Indicators(fetched, refresh[c].override)
      new == ClassifyRegime(i["yield_curve_10y_2y"], i["credit_spread_baa_10y"], i["pmi"])
  IN  /\ refresh[c].pc = "fetch"
      /\ regime' = new
      /\ refresh' = [refresh EXCEPT ![c].pc = "updated", ![c].previous = regime, ![c].regime = new]
      /\ muted' = (muted \/ (new # regime /\ ("none" \in {new, regime} \/ Overlapping(c))))
      /\ UNCHANGED <<macroDay, panel, backfill, macroAsked, macroFaults, heard, filledTo>>

\* MacroUpdated, and RegimeChanged when both the old and the new one are known.
PublishMacroUpdated(c) ==
  LET r == refresh[c]
  IN  /\ r.pc = "updated"
      /\ refresh' = [refresh EXCEPT ![c] =
           IF "none" \notin {r.regime, r.previous} /\ r.previous # r.regime
             THEN [r EXCEPT !.pc = "changed"] ELSE NoRefresh]
      /\ UNCHANGED <<macroDay, panel, backfill, regime, macroAsked, macroFaults,
                     heard, muted, filledTo>>

PublishRegimeChanged(c) ==
  /\ refresh[c].pc = "changed"
  /\ heard' = refresh[c].regime
  /\ muted' = (muted /\ (regime # refresh[c].regime \/ Overlapping(c)))
  /\ refresh' = [refresh EXCEPT ![c] = NoRefresh]
  /\ UNCHANGED <<macroDay, panel, backfill, regime, macroAsked, macroFaults, filledTo>>

\* A publish raises: the regime has moved, and the next refresh finds it there.
RefreshFails(c) ==
  /\ refresh[c].pc # "idle" /\ MacroFault
  /\ refresh' = [refresh EXCEPT ![c] = NoRefresh]
  /\ muted' = (muted \/ (refresh[c].pc # "fetch" /\ refresh[c].previous # refresh[c].regime))
  /\ UNCHANGED <<macroDay, panel, backfill, regime, macroAsked, heard, filledTo>>

\* A restart forgets the regime and the requests; the panel is stored.
MacroCrash ==
  /\ MacroFault
  /\ regime' = "none" /\ refresh' = [c \in MacroCallers |-> NoRefresh]
  /\ backfill' = NoBackfill
  /\ muted' = TRUE
  /\ UNCHANGED <<macroDay, panel, macroAsked, heard, filledTo>>

MacroNext ==
  \/ MacroTick \/ PostBackfill \/ FetchSlice \/ SliceFails \/ SaveSeries \/ SaveSeriesFails
  \/ \E c \in MacroCallers : \E o \in Overrides : BeginRefresh(c, o)
  \/ \E c \in MacroCallers : \E v \in {Missing, 100} : Reclassify(c, v)
  \/ \E c \in MacroCallers :
       PublishMacroUpdated(c) \/ PublishRegimeChanged(c) \/ RefreshFails(c)
  \/ MacroCrash

-----------------------------------------------------------------------------
Regimes == {"expansion", "recovery", "slowdown", "contraction", "crisis", "none"}

MacroTypeOK ==
  /\ macroDay \in 1..MacroDays /\ panel \subseteq Alfred
  /\ {regime, heard} \subseteq Regimes /\ muted \in BOOLEAN
  /\ backfill.pc \in {"idle", "fetch", "save"}
  /\ \A c \in MacroCallers : refresh[c].pc \in {"idle", "fetch", "updated", "changed"}

\* A session is classified the same by the single-day read and by the history
\* walk (service.py:124), whatever part of the panel is stored.
HistoryAgreesWithAsOf ==
  \A day \in 1..MacroDays : RegimeHistory(panel)[day] = RegimeOn(panel, day)

\* A backfilled series answers every day up to its backfill with the number
\* that was public on that day: no window is missing in a way that reads as
\* "never revised" (fred_client.py:203).
PanelIsHonest ==
  \A s \in AllSeries : \A day \in 1..filledTo[s] :
    AsOf(panel, day)[s] = AsOf({o \in Alfred : o.series = s}, day)[s]

\* What the consumers of RegimeChanged believe is the live regime.  A change is
\* not announced when a refresh in between classified nothing or was the first,
\* when its publish failed, or when two refreshes overlap (service.py:186).
RegimeIsHeard ==
  (\A c \in MacroCallers : refresh[c].pc \in {"idle", "fetch"}) /\ ~muted /\ regime # "none"
    => heard = regime

\* Whatever part of the vintages was backfilled, a day is answered with what was
\* public on it, by the single read and by the history walk alike.
PanelAnswersForTheDay == HistoryAgreesWithAsOf /\ PanelIsHonest
=============================================================================
