--------------------------- MODULE ReferenceProofs ---------------------------
(***************************************************************************)
(* The services of the reference run, for any vintages, filings, profiles  *)
(* and notices: a day is answered with what was public on it, who keeps a  *)
(* copy of another's data keeps the owner's, and an alert reaches every    *)
(* channel.  One inductive invariant per service and question; a step of a *)
(* service leaves the state of the others alone.                           *)
(***************************************************************************)
EXTENDS MCReference, FiniteSetTheorems, TLAPS

-----------------------------------------------------------------------------
(* macro-data: the regime the consumers heard                              *)

Refreshes ==
  [pc : {"idle", "fetch", "updated", "changed"},
   override : Overrides \union {[k \in IndicatorKeys |-> Missing]},
   previous : Regimes, regime : Regimes]

Backfills ==
  [pc : {"idle", "fetch", "save"}, series : Nat, slice : Nat, rows : SUBSET Alfred, through : Nat]

MacroShapes ==
  /\ macroDay \in 1..MacroDays /\ panel \in SUBSET Alfred
  /\ regime \in Regimes /\ heard \in Regimes /\ muted \in BOOLEAN
  /\ backfill \in Backfills
  /\ refresh \in [MacroCallers -> Refreshes]

InFlight(c) == refresh[c].pc \in {"updated", "changed"}

\* The refresh of c moved the regime and has not announced it.
Owes(c) == InFlight(c) /\ refresh[c].previous # refresh[c].regime

\* Unless a change went unannounced, at most one refresh owes an announcement;
\* it is of the live regime, and when none does the live regime was heard.
AnnouncementsOwed ==
  /\ \A c \in MacroCallers : refresh[c].pc = "changed" => Owes(c)
  /\ ~muted =>
       /\ \A c \in MacroCallers : Owes(c) =>
            refresh[c].regime = regime /\ "none" \notin {regime, refresh[c].previous}
       /\ \A c, d \in MacroCallers : Owes(c) /\ Owes(d) => c = d
       /\ regime = heard \/ regime = "none" \/ \E c \in MacroCallers : Owes(c)

MacroInv == MacroShapes /\ AnnouncementsOwed

-----------------------------------------------------------------------------
(* fundamental-data: memory and panel                                      *)

\* What a request may save: statements of distinct fiscal years, one of them
\* the newest.
Filings(S) ==
  /\ Newest(S) \in S
  /\ \A s \in S : s.period \in Periods
  /\ \A s, t \in S : s.period = t.period => s = t

FundShapes ==
  /\ fundDay \in 1..FundDays /\ fundPosted \in SUBSET Periods /\ fundTorn \in BOOLEAN
  /\ DOMAIN fundRows = Periods /\ \A p \in Periods : fundRows[p].period \in {0, p}
  /\ DOMAIN fundTask = FundCallers
  /\ \A c \in FundCallers : DOMAIN fundTask[c] = DOMAIN IdleFund
  /\ \A c \in FundCallers : fundTask[c].pc \in {"idle", "save", "publish"}
  /\ \A c \in FundCallers : fundTask[c].pc = "save" => Filings(fundTask[c].save)

\* Between saves that did not overlap or fail, memory is the newest of what is
\* being saved, or what the panel holds.
MemoryFollows ==
  ~fundTorn =>
    /\ \A c, d \in FundCallers : fundTask[c].pc # "idle" /\ fundTask[d].pc # "idle" => c = d
    /\ \A c \in FundCallers : fundTask[c].pc = "save" => latestFund = Newest(fundTask[c].save)
    /\ \/ latestFund = NoStatement
       \/ \E c \in FundCallers : fundTask[c].pc = "save"
       \/ latestFund.period \in Periods /\ fundRows[latestFund.period] = latestFund

FundInv == FundShapes /\ MemoryFollows

-----------------------------------------------------------------------------
(* feature-engine: the attributes it merges                                *)

Styles == {"none", "growth", "value", "blend"}
Records == [score : 0..LastScore, style : Styles]
Messages == [no : Nat \ {0}, value : Styles, tries : Nat]
HandlerStates ==
  [pc : {"idle", "query", "get", "set"}, msg : Nat, tries : Nat,
   value : Styles \union 0..LastScore, read : Records]

Handling(k) == handler[k].pc # "idle"
Has(k, no) == \E m \in inbox[k] : m.no = no

AttrShapes ==
  /\ company \in Styles /\ answer \in 0..LastScore /\ stale \in SUBSET Keys
  /\ attrs \in Records
  /\ sent \in [Keys -> Nat] /\ sent["score"] <= LastScore /\ newest \in Nat
  /\ inbox \in [Keys -> SUBSET Messages]
  /\ handler \in [Keys -> HandlerStates]
  /\ handler["style"].pc # "query"
  /\ handler["score"].pc \in {"get", "set"} => handler["score"].value \in 0..LastScore
  /\ handler["style"].pc # "idle" => handler["style"].value \in Styles

\* Messages are numbered as they are sent.
Numbered ==
  /\ \A k \in Keys : \A m \in inbox[k] : m.no <= sent[k]
  /\ \A k \in Keys : Handling(k) => handler[k].msg <= sent[k]
  /\ answer \in {0, sent["score"]}
  /\ newest <= sent["style"]

\* What a handler read of the other's key is still stored, unless the key is
\* spoilt; two handlers between read and write spoil both.
ReadsHold ==
  \A k \in Keys : handler[k].pc = "set" =>
    /\ AttrBackend = "redis"
    /\ handler[Other(k)].pc = "set" => Keys \subseteq stale
    /\ Other(k) \notin stale => handler[k].read[Other(k)] = attrs[Other(k)]

\* The last style event carries the company's style; until it is handled it is
\* in the inbox, and it is handled last.
StyleFollows ==
  /\ \A m \in inbox["style"] : m.no = sent["style"] /\ "style" \notin stale => m.value = company
  /\ "style" \notin stale =>
       /\ Handling("style") => handler["style"].msg = newest
       /\ Handling("style") /\ newest = sent["style"] => handler["style"].value = company
       /\ ~Has("style", sent["style"]) => newest = sent["style"] /\ attrs.style = company

\* What the handler of the numbers carries is the current answer, or a newer
\* event waits behind it.
ScoreFollows ==
  "score" \notin stale /\ answer # 0 =>
    /\ handler["score"].pc \in {"get", "set"} =>
         handler["score"].value = answer \/ \E m \in inbox["score"] : m.no > handler["score"].msg
    /\ inbox["score"] = {} => attrs.score = answer

AttrInv == AttrShapes /\ Numbered /\ ReadsHold /\ StyleFollows /\ ScoreFollows

-----------------------------------------------------------------------------
(* Steps of macro-data                                                     *)

LEMMA RegimeIsOne == \A c, s, p : ClassifyRegime(c, s, p) \in Regimes
  BY DEF ClassifyRegime, Regimes

LEMMA NoRefreshIsOne == NoRefresh \in Refreshes /\ NoRefresh.pc = "idle"
  BY DEF NoRefresh, Refreshes, Regimes

LEMMA NoBackfillIsOne ==
  /\ NoBackfill \in Backfills
  /\ \A n \in Nat : [NoBackfill EXCEPT !.pc = "fetch", !.series = n] \in Backfills
  /\ [NoBackfill EXCEPT !.pc = "fetch"] \in Backfills
  BY DEF NoBackfill, Backfills

LEMMA NextSeriesIsOne ==
  ASSUME MacroShapes PROVE NextSeries \in Backfills
<1>1. backfill.series + 1 \in Nat
  BY DEF MacroShapes, Backfills
<1> QED
  BY <1>1, NoBackfillIsOne DEF NextSeries

LEMMA MacroInitInv == MacroInit => MacroInv
<1> SUFFICES ASSUME MacroInit PROVE MacroInv
  OBVIOUS
<1>1. MacroShapes
  <2>1. macroDay \in 1..MacroDays
    BY MacroAssumption DEF MacroInit
  <2> QED
    BY <2>1, NoRefreshIsOne, NoBackfillIsOne DEF MacroInit, MacroShapes, Regimes
<1>2. \A c \in MacroCallers : refresh[c].pc = "idle"
  BY NoRefreshIsOne DEF MacroInit
<1>3. AnnouncementsOwed
  BY <1>2 DEF MacroInit, AnnouncementsOwed, Owes, InFlight
<1> QED
  BY <1>1, <1>3 DEF MacroInv

\* The steps that touch no refresh and no regime.
LEMMA PanelStepKeeps ==
  ASSUME MacroInv, MacroTick \/ PostBackfill \/ FetchSlice \/ SliceFails \/ SaveSeries \/ SaveSeriesFails
  PROVE  MacroInv'
<1>0. MacroShapes
  BY DEF MacroInv
<1>1. UNCHANGED <<regime, refresh, heard, muted>>
  BY DEF MacroTick, PostBackfill, FetchSlice, SliceFails, SaveSeries, SaveSeriesFails
<1>2. AnnouncementsOwed'
  BY <1>1 DEF MacroInv, AnnouncementsOwed, Owes, InFlight
<1>3. macroDay' \in 1..MacroDays
  BY <1>0, MacroAssumption DEF MacroShapes, MacroTick, PostBackfill, FetchSlice, SliceFails, SaveSeries,
                               SaveSeriesFails
<1>4. panel' \in SUBSET Alfred
  BY <1>0 DEF MacroShapes, Backfills, MacroTick, PostBackfill, FetchSlice, SliceFails, SaveSeries,
              SaveSeriesFails
<1>5. backfill' \in Backfills
  <2>1. CASE FetchSlice
    <3>1. PICK page : /\ page \subseteq Alfred
                      /\ backfill' = [backfill EXCEPT !.rows = @ \union page, !.slice = @ + 1, !.through = macroDay,
                               !.pc = IF backfill.slice = Len(Slices) THEN "save" ELSE "fetch"]
      BY <2>1, Zenon DEF FetchSlice
    <3>2. macroDay \in Nat /\ backfill \in Backfills /\ backfill.slice + 1 \in Nat
      BY <1>0, MacroAssumption DEF MacroShapes, Backfills
    <3> QED
      BY <3>1, <3>2 DEF Backfills
  <2>2. CASE ~FetchSlice
    BY <1>0, <2>2, NoBackfillIsOne, NextSeriesIsOne DEF MacroShapes, MacroTick, PostBackfill, SliceFails,
                                            SaveSeries, SaveSeriesFails
  <2> QED
    BY <2>1, <2>2
<1> QED
  BY <1>0, <1>1, <1>2, <1>3, <1>4, <1>5 DEF MacroInv, MacroShapes


LEMMA BeginKeeps ==
  ASSUME MacroInv, NEW c \in MacroCallers, NEW o \in Overrides, BeginRefresh(c, o)
  PROVE  MacroInv'
<1> DEFINE r == [NoRefresh EXCEPT !.pc = "fetch", !.override = o]
<1>1. /\ refresh' = [refresh EXCEPT ![c] = r] /\ refresh[c].pc = "idle"
      /\ UNCHANGED <<macroDay, panel, backfill, regime, heard, muted>>
  BY DEF BeginRefresh
<1>2. r \in Refreshes /\ r.pc = "fetch"
  BY DEF NoRefresh, Refreshes, Regimes
<1> HIDE DEF r
<1>3. refresh' \in [MacroCallers -> Refreshes] /\ refresh'[c] = r
  BY <1>1, <1>2 DEF MacroInv, MacroShapes
<1>4. \A d \in MacroCallers : d # c => refresh'[d] = refresh[d]
  BY <1>1 DEF MacroInv, MacroShapes
<1>5. \A d \in MacroCallers : Owes(d)' <=> Owes(d)
  BY <1>1, <1>2, <1>3, <1>4 DEF Owes, InFlight
<1>6. AnnouncementsOwed'
  BY <1>1, <1>2, <1>3, <1>4, <1>5 DEF MacroInv, AnnouncementsOwed, Owes, InFlight
<1> QED
  BY <1>1, <1>3, <1>6 DEF MacroInv, MacroShapes

LEMMA ReclassifyKeeps ==
  ASSUME MacroInv, NEW c \in MacroCallers, NEW v, Reclassify(c, v)
  PROVE  MacroInv'
<1> DEFINE r == [refresh[c] EXCEPT !.pc = "updated", !.previous = regime, !.regime = regime']
<1>0. MacroShapes /\ AnnouncementsOwed /\ refresh[c].pc = "fetch"
  BY DEF MacroInv, Reclassify
<1>1. /\ regime' \in Regimes /\ refresh' = [refresh EXCEPT ![c] = r]
      /\ muted' = (muted \/ (regime' # regime /\ ("none" \in {regime', regime} \/ Overlapping(c))))
      /\ UNCHANGED <<macroDay, panel, backfill, heard>>
  BY RegimeIsOne DEF Reclassify
<1>2. r \in Refreshes /\ r.pc = "updated" /\ r.previous = regime /\ r.regime = regime'
  BY <1>0, <1>1 DEF MacroShapes, Refreshes
<1> HIDE DEF r
<1>3. refresh' \in [MacroCallers -> Refreshes] /\ refresh'[c] = r
  BY <1>0, <1>1, <1>2 DEF MacroShapes
<1>4. \A d \in MacroCallers : d # c => refresh'[d] = refresh[d]
  BY <1>0, <1>1 DEF MacroShapes
<1>5. ~Owes(c) /\ (Owes(c)' <=> regime # regime')
  BY <1>0, <1>2, <1>3 DEF Owes, InFlight
<1>6. \A d \in MacroCallers : d # c => (Owes(d)' <=> Owes(d))
  BY <1>4 DEF Owes, InFlight
<1>7. muted' \in BOOLEAN
  BY <1>0, <1>1 DEF MacroShapes
<1>8. \A d \in MacroCallers : refresh'[d].pc = "changed" => Owes(d)'
  BY <1>0, <1>2, <1>3, <1>4, <1>6 DEF AnnouncementsOwed
<1>9. ASSUME ~muted'
      PROVE  /\ \A d \in MacroCallers : Owes(d)' =>
                  refresh'[d].regime = regime' /\ "none" \notin {regime', refresh'[d].previous}
             /\ \A d, e \in MacroCallers : Owes(d)' /\ Owes(e)' => d = e
             /\ regime' = heard' \/ regime' = "none" \/ \E d \in MacroCallers : Owes(d)'
  <2>1. CASE regime' = regime
    BY <1>0, <1>1, <1>4, <1>5, <1>6, <1>9, <2>1 DEF AnnouncementsOwed
  <2>2. CASE regime' # regime
    <3>1. /\ ~muted /\ "none" \notin {regime', regime}
          /\ \A d \in MacroCallers : d # c => ~Owes(d)
      BY <1>1, <1>9, <2>2 DEF Overlapping, Owes, InFlight
    <3> QED
      BY <3>1, <1>2, <1>3, <1>5, <1>6, <2>2
  <2> QED
    BY <2>1, <2>2
<1>10. AnnouncementsOwed'
  BY <1>8, <1>9 DEF AnnouncementsOwed
<1> QED
  BY <1>0, <1>1, <1>3, <1>7, <1>10 DEF MacroInv, MacroShapes

LEMMA UpdatedKeeps ==
  ASSUME MacroInv, NEW c \in MacroCallers, PublishMacroUpdated(c)
  PROVE  MacroInv'
<1> DEFINE q == refresh[c]
           goes == "none" \notin {q.regime, q.previous} /\ q.previous # q.regime
           r == IF goes THEN [q EXCEPT !.pc = "changed"] ELSE NoRefresh
<1>0. MacroShapes /\ AnnouncementsOwed /\ q.pc = "updated"
  BY DEF MacroInv, PublishMacroUpdated
<1>1. /\ refresh' = [refresh EXCEPT ![c] = r]
      /\ UNCHANGED <<macroDay, panel, backfill, regime, heard, muted>>
  BY DEF PublishMacroUpdated
<1>2. /\ r \in Refreshes
      /\ goes => r.pc = "changed" /\ r.previous = q.previous /\ r.regime = q.regime
      /\ ~goes => r.pc = "idle"
  BY <1>0, NoRefreshIsOne DEF MacroShapes, Refreshes
<1>3. Owes(c) <=> q.previous # q.regime
  BY <1>0 DEF Owes, InFlight
<1> HIDE DEF r
<1>4. /\ refresh' \in [MacroCallers -> Refreshes] /\ refresh'[c] = r
      /\ \A d \in MacroCallers : d # c => refresh'[d] = refresh[d]
  BY <1>0, <1>1, <1>2 DEF MacroShapes
<1>5. Owes(c)' <=> goes
  BY <1>2, <1>4 DEF Owes, InFlight
<1>6. \A d \in MacroCallers : d # c => (Owes(d)' <=> Owes(d))
  BY <1>4 DEF Owes, InFlight
<1>7. ~muted => (Owes(c) <=> goes)
  BY <1>0, <1>3 DEF AnnouncementsOwed
<1>8. ~muted => \A d \in MacroCallers : Owes(d)' <=> Owes(d)
  BY <1>5, <1>6, <1>7
<1>9. \A d \in MacroCallers : refresh'[d].pc = "changed" => Owes(d)'
  BY <1>0, <1>2, <1>4, <1>5, <1>6 DEF AnnouncementsOwed
<1>10. ASSUME ~muted, NEW d \in MacroCallers, Owes(d)'
       PROVE  refresh'[d].regime = regime /\ "none" \notin {regime, refresh'[d].previous}
  BY <1>0, <1>2, <1>4, <1>5, <1>8, <1>10 DEF AnnouncementsOwed
<1>11. AnnouncementsOwed'
  BY <1>0, <1>1, <1>8, <1>9, <1>10 DEF AnnouncementsOwed
<1> QED
  BY <1>0, <1>1, <1>4, <1>11 DEF MacroInv, MacroShapes

LEMMA ChangedKeeps ==
  ASSUME MacroInv, NEW c \in MacroCallers, PublishRegimeChanged(c)
  PROVE  MacroInv'
<1>0. MacroShapes /\ AnnouncementsOwed /\ refresh[c].pc = "changed" /\ Owes(c)
  BY DEF MacroInv, PublishRegimeChanged, AnnouncementsOwed
<1>1. /\ refresh' = [refresh EXCEPT ![c] = NoRefresh]
      /\ heard' = refresh[c].regime
      /\ muted' = (muted /\ (regime # refresh[c].regime \/ Overlapping(c)))
      /\ UNCHANGED <<macroDay, panel, backfill, regime>>
  BY DEF PublishRegimeChanged
<1>2. /\ refresh' \in [MacroCallers -> Refreshes] /\ refresh'[c].pc = "idle"
      /\ \A d \in MacroCallers : d # c => refresh'[d] = refresh[d]
  BY <1>0, <1>1, NoRefreshIsOne DEF MacroShapes
<1>3. ~Owes(c)' /\ \A d \in MacroCallers : d # c => (Owes(d)' <=> Owes(d))
  BY <1>2 DEF Owes, InFlight
<1>4. heard' \in Regimes /\ muted' \in BOOLEAN
  BY <1>0, <1>1 DEF MacroShapes, Refreshes
<1>5. \A d \in MacroCallers : refresh'[d].pc = "changed" => Owes(d)'
  BY <1>0, <1>2, <1>3 DEF AnnouncementsOwed
<1>6. ASSUME ~muted'
      PROVE  regime' = heard' /\ \A d \in MacroCallers : ~Owes(d)'
  <2>1. CASE muted
    BY <1>1, <1>3, <1>6, <2>1 DEF Overlapping, Owes, InFlight
  <2>2. CASE ~muted
    BY <1>0, <1>1, <1>3, <2>2 DEF AnnouncementsOwed
  <2> QED
    BY <2>1, <2>2
<1>7. AnnouncementsOwed'
  BY <1>5, <1>6 DEF AnnouncementsOwed
<1> QED
  BY <1>0, <1>1, <1>2, <1>4, <1>7 DEF MacroInv, MacroShapes

LEMMA RefreshFailsKeeps ==
  ASSUME MacroInv, NEW c \in MacroCallers, RefreshFails(c)
  PROVE  MacroInv'
<1>0. MacroShapes /\ AnnouncementsOwed
  BY DEF MacroInv
<1>1. /\ refresh' = [refresh EXCEPT ![c] = NoRefresh]
      /\ muted' = (muted \/ (refresh[c].pc # "fetch" /\ refresh[c].previous # refresh[c].regime))
      /\ UNCHANGED <<macroDay, panel, backfill, regime, heard>>
  BY DEF RefreshFails
<1>2. /\ refresh' \in [MacroCallers -> Refreshes] /\ refresh'[c].pc = "idle"
      /\ \A d \in MacroCallers : d # c => refresh'[d] = refresh[d]
  BY <1>0, <1>1, NoRefreshIsOne DEF MacroShapes
<1>3. ~Owes(c)' /\ \A d \in MacroCallers : d # c => (Owes(d)' <=> Owes(d))
  BY <1>2 DEF Owes, InFlight
<1>4. muted' \in BOOLEAN /\ (~muted' => ~muted /\ ~Owes(c))
  BY <1>0, <1>1 DEF MacroShapes, Owes, InFlight
<1>5. \A d \in MacroCallers : refresh'[d].pc = "changed" => Owes(d)'
  BY <1>0, <1>2, <1>3 DEF AnnouncementsOwed
<1>6. AnnouncementsOwed'
  BY <1>0, <1>1, <1>2, <1>3, <1>4, <1>5 DEF AnnouncementsOwed
<1> QED
  BY <1>0, <1>1, <1>2, <1>4, <1>6 DEF MacroInv, MacroShapes

LEMMA MacroCrashKeeps ==
  ASSUME MacroInv, MacroCrash
  PROVE  MacroInv'
<1>1. /\ regime' = "none" /\ muted' = TRUE /\ backfill' = NoBackfill
      /\ refresh' = [c \in MacroCallers |-> NoRefresh]
      /\ UNCHANGED <<macroDay, panel, heard>>
  BY DEF MacroCrash
<1>2. refresh' \in [MacroCallers -> Refreshes] /\ \A c \in MacroCallers : refresh'[c].pc = "idle"
  BY <1>1, NoRefreshIsOne
<1>3. MacroShapes'
  BY <1>1, <1>2, NoBackfillIsOne DEF MacroInv, MacroShapes, Regimes
<1>4. AnnouncementsOwed'
  BY <1>1, <1>2 DEF AnnouncementsOwed
<1> QED
  BY <1>3, <1>4 DEF MacroInv

LEMMA MacroStepKeeps ==
  ASSUME MacroInv, [MacroNext]_macroVars
  PROVE  MacroInv'
<1>1. CASE UNCHANGED macroVars
  BY <1>1 DEF macroVars, macroState, MacroInv, MacroShapes, AnnouncementsOwed, Owes, InFlight
<1>2. CASE MacroNext
  BY <1>2, PanelStepKeeps, BeginKeeps, ReclassifyKeeps, UpdatedKeeps, ChangedKeeps,
     RefreshFailsKeeps, MacroCrashKeeps DEF MacroNext
<1> QED
  BY <1>1, <1>2

LEMMA MacroInvSuffices == MacroInv => MacroTypeOK /\ RegimeIsHeard
<1> SUFFICES ASSUME MacroInv PROVE MacroTypeOK /\ RegimeIsHeard
  OBVIOUS
<1>1. MacroTypeOK
  BY DEF MacroInv, MacroShapes, Backfills, Refreshes, MacroTypeOK
<1>2. RegimeIsHeard
  BY DEF MacroInv, AnnouncementsOwed, Owes, InFlight, RegimeIsHeard
<1> QED
  BY <1>1, <1>2

-----------------------------------------------------------------------------
(* What a request may save                                                 *)

\* Some number of any set of naturals is its least: what an induction rests on.
LEMMA LeastNumber ==
  ASSUME NEW T \in SUBSET Nat, T # {}
  PROVE  \E n \in T : \A m \in T : n <= m
<1> DEFINE R == OpToRel(<, Nat)
<1>1. IsWellFoundedOn(R, Nat)
  BY NatLessThanWellFounded
<1>2. PICK n \in T : \A m \in T : ~ (<<m, n>> \in R)
  <2> HIDE DEF R
  <2> QED
    BY <1>1, WFMin
<1>3. \A m \in T : ~(m < n)
  BY <1>2 DEF OpToRel
<1> QED
  BY <1>3

HasGreatest(P) == \E m \in P : \A n \in P : m >= n

\* By the least size of a set without one.
LEMMA FiniteSetsHaveGreatest ==
  ASSUME NEW P \in SUBSET Nat, IsFiniteSet(P), P # {}
  PROVE  HasGreatest(P)
<1> DEFINE Fails == {n \in Nat : \E Q \in SUBSET P : Q # {} /\ Cardinality(Q) = n /\ ~HasGreatest(Q)}
<1>1. \A Q \in SUBSET P : IsFiniteSet(Q) /\ Cardinality(Q) \in Nat
  BY FS_Subset, FS_CardinalityType
<1>2. Fails = {}
  <2> SUFFICES ASSUME Fails # {} PROVE FALSE
    OBVIOUS
  <2>1. PICK n \in Fails : \A k \in Fails : n <= k
    BY LeastNumber
  <2>2. PICK Q \in SUBSET P : Q # {} /\ Cardinality(Q) = n /\ ~HasGreatest(Q)
    BY <2>1
  <2>3. PICK x \in Q : TRUE
    BY <2>2
  <2> DEFINE R == Q \ {x}
  <2>4. R \in SUBSET P /\ Cardinality(R) = n - 1 /\ Cardinality(R) \in Nat
    BY <1>1, <2>2, <2>3, FS_RemoveElement
  <2>5. R = {} \/ HasGreatest(R)
    BY <2>1, <2>4
  <2>6. CASE R = {}
    BY <2>2, <2>3, <2>6 DEF HasGreatest
  <2>7. CASE HasGreatest(R)
    <3>1. PICK m \in R : \A k \in R : m >= k
      BY <2>7 DEF HasGreatest
    <3>2. m \in Nat /\ x \in Nat /\ R \subseteq Nat
      OBVIOUS
    <3>3. CASE m >= x
      <4>1. \A k \in Q : m >= k
        BY <3>1, <3>3
      <4> QED
        BY <4>1, <2>2 DEF HasGreatest
    <3>4. CASE ~(m >= x)
      <4>1. \A k \in R : x >= k
        BY <3>1, <3>2, <3>4
      <4>2. \A k \in Q : x >= k
        BY <4>1, <3>2
      <4> QED
        BY <4>2, <2>2, <2>3 DEF HasGreatest
    <3> QED
      BY <3>3, <3>4
  <2> QED
    BY <2>5, <2>6, <2>7
<1>3. Cardinality(P) \in Nat /\ Cardinality(P) \notin Fails
  BY <1>1, <1>2
<1> QED
  BY <1>3

\* Statements of the fiscal years, one for each year at most.
Yearly(S) ==
  /\ \A s \in S : "period" \in DOMAIN s /\ s.period \in Periods
  /\ \A s, t \in S : s.period = t.period => s = t

LEMMA NewestIsOne ==
  ASSUME NEW S, S # {}, Yearly(S)
  PROVE  Newest(S) \in S /\ \A t \in S : Newest(S).period >= t.period
<1> DEFINE P == {s.period : s \in S}
<1>1. P \in SUBSET Periods /\ P # {}
  BY DEF Yearly
<1>2. P \in SUBSET Nat /\ IsFiniteSet(P)
  BY <1>1, FundAssumption, FS_Subset
<1>3. PICK m \in P : \A n \in P : m >= n
  BY <1>1, <1>2, FiniteSetsHaveGreatest DEF HasGreatest
<1>4. PICK s \in S : s.period = m
  OBVIOUS
<1>5. \A t \in S : s.period >= t.period
  BY <1>3, <1>4
<1> QED
  BY <1>5 DEF Newest

LEMMA YearlyIsFilings ==
  ASSUME NEW S, S # {}, Yearly(S)
  PROVE  Filings(S)
  BY NewestIsOne DEF Yearly, Filings

LEMMA ScoredKeepsPeriod ==
  ASSUME NEW s, "period" \in DOMAIN s, NEW p
  PROVE  "period" \in DOMAIN Scored(s, p) /\ Scored(s, p).period = s.period
  BY DEF Scored

LEMMA StatementPeriod ==
  ASSUME NEW facts, NEW p
  PROVE  "period" \in DOMAIN StatementOf(facts, p) /\ StatementOf(facts, p).period = p
  BY DEF StatementOf

LEMMA LatestAreYearly ==
  ASSUME NEW facts \in SUBSET Facts, NEW count
  PROVE  Yearly(LatestStatements(facts, count))
<1> DEFINE P == {p \in {f.period : f \in facts} :
                   Cardinality({r \in {f.period : f \in facts} : r > p}) < count}
<1>1. LatestStatements(facts, count) = {StatementOf(facts, p) : p \in P}
  BY DEF LatestStatements
<1>2. P \subseteq Periods
  BY FundAssumption
<1> HIDE DEF P
<1> QED
  BY <1>1, <1>2, StatementPeriod DEF Yearly

LEMMA RefreshIsYearly ==
  ASSUME NEW S, S # {}, Yearly(S)
  PROVE  Yearly(StatementsOfRefresh(S))
<1> DEFINE current == Newest(S)
           x == Scored(current, PriorOf(S, current))
<1>1. current \in S
  BY NewestIsOne
<1>2. "period" \in DOMAIN x /\ x.period = current.period
  BY <1>1, ScoredKeepsPeriod DEF Yearly
<1>3. StatementsOfRefresh(S) = {x} \union (S \ {current})
  BY DEF StatementsOfRefresh
<1> HIDE DEF x, current
<1> QED
  BY <1>1, <1>2, <1>3 DEF Yearly

LEMMA HistoryIsYearly ==
  ASSUME NEW S, Yearly(S)
  PROVE  Yearly(StatementsOfHistory(S))
<1>1. \A s \in S : LET x == Scored(s, PriorOf(S, s))
                   IN  "period" \in DOMAIN x /\ x.period = s.period
  BY ScoredKeepsPeriod DEF Yearly
<1> QED
  BY <1>1 DEF Yearly, StatementsOfHistory

LEMMA PublicAreFacts == PublicFacts \in SUBSET Facts
  BY DEF PublicFacts

-----------------------------------------------------------------------------
(* Steps of fundamental-data                                               *)

LEMMA IdleFundIsIdle == IdleFund.pc = "idle"
  BY DEF IdleFund

LEMMA FundInitInv == FundInit => FundInv
<1> SUFFICES ASSUME FundInit PROVE FundInv
  OBVIOUS
<1>1. fundDay \in 1..FundDays
  BY FundAssumption DEF FundInit
<1>2. \A c \in FundCallers : fundTask[c] = IdleFund
  BY DEF FundInit
<1>3. \A p \in Periods : fundRows[p].period = 0
  BY DEF FundInit, NoStatement
<1>4. FundShapes
  BY <1>1, <1>2, <1>3, IdleFundIsIdle DEF FundInit, FundShapes
<1>5. MemoryFollows
  BY <1>2, IdleFundIsIdle DEF FundInit, MemoryFollows
<1> QED
  BY <1>4, <1>5 DEF FundInv

\* A request has fetched: memory is replaced before anything is saved.
Fetched(c, save) ==
  /\ fundTask[c].pc = "idle"
  /\ latestFund' = Newest(save)
  /\ \E n, m : fundTask' = [fundTask EXCEPT ![c] = [pc |-> "save", save |-> save, announce |-> n, manual |-> m]]
  /\ fundTorn' = Overlaps(c)
  /\ UNCHANGED <<fundDay, fundRows, fundPosted>>

LEMMA FetchedKeeps ==
  ASSUME FundInv, NEW c \in FundCallers, NEW save, Filings(save), Fetched(c, save)
  PROVE  FundInv'
<1>0. FundShapes
  BY DEF FundInv
<1>1. PICK n, m : fundTask' = [fundTask EXCEPT ![c] = [pc |-> "save", save |-> save, announce |-> n, manual |-> m]]
  BY DEF Fetched
<1> DEFINE t == [pc |-> "save", save |-> save, announce |-> n, manual |-> m]
<1>2. t.pc = "save" /\ t.save = save /\ DOMAIN t = DOMAIN IdleFund
  BY DEF IdleFund
<1>3. fundTask' = [fundTask EXCEPT ![c] = t]
  BY <1>1
<1> HIDE DEF t
<1>4. /\ DOMAIN fundTask' = FundCallers /\ fundTask'[c] = t
      /\ \A d \in FundCallers : d # c => fundTask'[d] = fundTask[d]
  BY <1>0, <1>3 DEF FundShapes
<1>5. fundTorn' \in BOOLEAN /\ (~fundTorn' => \A d \in FundCallers : d # c => fundTask[d].pc = "idle")
  BY DEF Fetched, Overlaps
<1>6. FundShapes'
  BY <1>0, <1>2, <1>4, <1>5 DEF FundShapes, Fetched
<1>7. MemoryFollows'
  BY <1>2, <1>4, <1>5 DEF MemoryFollows, Fetched
<1> QED
  BY <1>6, <1>7 DEF FundInv

LEMMA RefreshFundamentalsKeeps ==
  ASSUME FundInv, NEW c \in FundCallers, RefreshFundamentals(c)
  PROVE  FundInv'
<1> DEFINE S == LatestStatements(PublicFacts, 2)
           save == IF S = {} THEN {} ELSE StatementsOfRefresh(S)
<1>1. FetchFilings(c, save)
  BY DEF RefreshFundamentals
<1>2. save # {}
  BY <1>1 DEF FetchFilings
<1>3. Yearly(save)
  BY <1>2, PublicAreFacts, LatestAreYearly, RefreshIsYearly
<1> HIDE DEF save
<1>4. Filings(save) /\ Fetched(c, save)
  BY <1>1, <1>2, <1>3, YearlyIsFilings DEF FetchFilings, Fetched
<1> QED
  BY <1>4, FetchedKeeps

LEMMA BackfillFundamentalsKeeps ==
  ASSUME FundInv, BackfillFundamentals
  PROVE  FundInv'
<1> DEFINE save == StatementsOfHistory(LatestStatements(PublicFacts, 24))
<1>1. FetchFilings("http", save)
  BY DEF BackfillFundamentals
<1>2. save # {}
  BY <1>1 DEF FetchFilings
<1>3. Yearly(save)
  BY PublicAreFacts, LatestAreYearly, HistoryIsYearly
<1> HIDE DEF save
<1>4. Filings(save) /\ Fetched("http", save)
  BY <1>1, <1>2, <1>3, YearlyIsFilings DEF FetchFilings, Fetched
<1> QED
  BY <1>4, FetchedKeeps DEF FundCallers

LEMMA IngestKeeps ==
  ASSUME FundInv, NEW s \in Manual, IngestStatement(s)
  PROVE  FundInv'
<1> DEFINE x == Scored(s, NoStatement)
<1>0. "period" \in DOMAIN s
  BY FundAssumption DEF NoStatement
<1>1. "period" \in DOMAIN x /\ x.period = s.period
  BY <1>0, ScoredKeepsPeriod
<1>2. Yearly({x}) /\ {x} # {}
  BY <1>1, FundAssumption DEF Yearly
<1>3. Filings({x}) /\ Newest({x}) = x
  BY <1>2, YearlyIsFilings, NewestIsOne
<1>4. Fetched("http", {x})
  BY <1>3 DEF IngestStatement, Fetched
<1> HIDE DEF x
<1> QED
  BY <1>3, <1>4, FetchedKeeps DEF FundCallers

LEMMA SaveKeeps ==
  ASSUME FundInv, NEW c \in FundCallers, SaveFilings(c)
  PROVE  FundInv'
<1> DEFINE save == fundTask[c].save
           written == {s.period : s \in save}
<1>0. FundShapes /\ MemoryFollows /\ fundTask[c].pc = "save" /\ Filings(save)
  BY DEF FundInv, FundShapes, SaveFilings
<1>1. /\ fundRows' = [p \in Periods |-> IF p \in written
                        THEN CHOOSE s \in save : s.period = p ELSE fundRows[p]]
      /\ fundTask' = [fundTask EXCEPT ![c].pc = "publish"]
      /\ fundPosted' = fundPosted \union written \/ fundPosted' = fundPosted \ written
      /\ UNCHANGED <<fundDay, latestFund, fundTorn>>
  BY DEF SaveFilings
<1>2. written \subseteq Periods
  BY <1>0 DEF Filings
<1>3. \A p \in written : (CHOOSE s \in save : s.period = p) \in save
                         /\ (CHOOSE s \in save : s.period = p).period = p
  OBVIOUS
<1>4. \A s \in save : fundRows'[s.period] = s
  BY <1>0, <1>1, <1>3 DEF Filings
<1>5. DOMAIN fundRows' = Periods /\ \A p \in Periods : fundRows'[p].period \in {0, p}
  BY <1>0, <1>1, <1>3 DEF FundShapes
<1>6. /\ DOMAIN fundTask' = FundCallers
      /\ fundTask'[c].pc = "publish" /\ DOMAIN fundTask'[c] = DOMAIN fundTask[c]
      /\ \A d \in FundCallers : d # c => fundTask'[d] = fundTask[d]
  BY <1>0, <1>1 DEF FundShapes, IdleFund
<1>7. FundShapes'
  BY <1>0, <1>1, <1>2, <1>5, <1>6 DEF FundShapes
<1>8. Newest(save) \in save /\ (~fundTorn => latestFund = Newest(save))
  BY <1>0 DEF Filings, MemoryFollows
<1>9. ~fundTorn => fundRows'[latestFund.period] = latestFund /\ latestFund.period \in Periods
  BY <1>0, <1>4, <1>8 DEF Filings
<1>10. MemoryFollows'
  BY <1>0, <1>1, <1>6, <1>9 DEF MemoryFollows
<1> QED
  BY <1>7, <1>10 DEF FundInv

\* A request ends, saved or failed.
Ends(c) ==
  /\ fundTask' = [fundTask EXCEPT ![c] = IdleFund]
  /\ fundTorn' \in BOOLEAN
  /\ ~fundTorn' => ~fundTorn /\ fundTask[c].pc # "save"
  /\ UNCHANGED <<fundDay, fundRows, latestFund, fundPosted>>

LEMMA EndsKeeps ==
  ASSUME FundInv, NEW c \in FundCallers, Ends(c)
  PROVE  FundInv'
<1>0. FundShapes /\ MemoryFollows
  BY DEF FundInv
<1>1. /\ DOMAIN fundTask' = FundCallers
      /\ fundTask'[c] = IdleFund /\ fundTask'[c].pc = "idle"
      /\ \A d \in FundCallers : d # c => fundTask'[d] = fundTask[d]
  BY <1>0, IdleFundIsIdle DEF FundShapes, Ends
<1>2. FundShapes'
  BY <1>0, <1>1 DEF FundShapes, Ends
<1>3. MemoryFollows'
  BY <1>0, <1>1 DEF MemoryFollows, Ends
<1> QED
  BY <1>2, <1>3 DEF FundInv

LEMMA FundStepKeeps ==
  ASSUME FundInv, [FundNext]_fundVars
  PROVE  FundInv'
<1>1. CASE UNCHANGED fundVars
  BY <1>1 DEF fundVars, fundHistory, FundInv, FundShapes, MemoryFollows
<1>2. CASE FundTick
  <2>1. fundDay' \in 1..FundDays
    BY <1>2, FundAssumption DEF FundTick, FundInv, FundShapes
  <2> QED
    BY <1>2, <2>1 DEF FundTick, fundHistory, FundInv, FundShapes, MemoryFollows
<1>3. CASE FundCrash
  <2>1. /\ latestFund' = NoStatement /\ fundTask' = [c \in FundCallers |-> IdleFund]
        /\ UNCHANGED <<fundDay, fundRows, fundPosted, fundTorn>>
    BY <1>3 DEF FundCrash, fundHistory
  <2>2. DOMAIN fundTask' = FundCallers
        /\ \A c \in FundCallers : fundTask'[c] = IdleFund /\ fundTask'[c].pc = "idle"
    BY <2>1, IdleFundIsIdle
  <2> QED
    BY <2>1, <2>2 DEF FundInv, FundShapes, MemoryFollows
<1>4. ASSUME NEW c \in FundCallers, PublishFundamentals(c) \/ FundFails(c)
      PROVE  FundInv'
  <2>1. Ends(c)
    BY <1>4 DEF PublishFundamentals, FundFails, Ends, fundHistory, FundInv, FundShapes
  <2> QED
    BY <2>1, EndsKeeps
<1>5. CASE FundNext
  BY <1>2, <1>3, <1>4, <1>5, RefreshFundamentalsKeeps, BackfillFundamentalsKeeps, IngestKeeps,
     SaveKeeps DEF FundNext
<1> QED
  BY <1>1, <1>5

LEMMA FundInvSuffices == FundInv => FundTypeOK /\ MemoryMatchesPanel
<1> SUFFICES ASSUME FundInv PROVE FundTypeOK /\ MemoryMatchesPanel
  OBVIOUS
<1>1. FundTypeOK
  BY DEF FundInv, FundShapes, FundTypeOK
<1>2. MemoryMatchesPanel
  BY DEF FundInv, MemoryFollows, MemoryMatchesPanel
<1> QED
  BY <1>1, <1>2

-----------------------------------------------------------------------------
(* Steps of feature-engine                                                 *)

LEMMA KeysAre == Keys = {"score", "style"} /\ Other("score") = "style" /\ Other("style") = "score"
  BY DEF Keys, Other

LEMMA StyleIsOne == \A p : Classify(p).style \in Styles
<1>1. \A x : SectorStyle(x) \in Styles
  BY DEF SectorStyle, Styles
<1>2. \A x, m : StyleOf(x, m) \in Styles
  <2> TAKE x, m
  <2>1. CASE GrowthScore(m) > ValueScore(m) \/ GrowthScore(m) < ValueScore(m)
    BY <2>1 DEF StyleOf, Styles
  <2>2. CASE ~(GrowthScore(m) > ValueScore(m)) /\ ~(GrowthScore(m) < ValueScore(m))
    BY <1>1, <2>2 DEF StyleOf, Styles
  <2> QED
    BY <2>1, <2>2
<1> QED
  BY <1>2 DEF Classify

LEMMA IdleHandlerIsOne ==
  /\ IdleHandler \in HandlerStates /\ IdleHandler.pc = "idle"
  /\ NoAttrs \in Records /\ NoAttrs.style = "none"
  BY AttrAssumption DEF IdleHandler, HandlerStates, NoAttrs, Records, Styles

LEMMA AttrInitInv == AttrInit => AttrInv
<1> SUFFICES ASSUME AttrInit PROVE AttrInv
  OBVIOUS
<1>1. /\ inbox = [k \in Keys |-> {}] /\ sent = [k \in Keys |-> 0] /\ stale = {} /\ newest = 0
      /\ handler = [k \in Keys |-> IdleHandler] /\ attrs = NoAttrs
      /\ company = "none" /\ answer = 0
  BY DEF AttrInit
<1>2. \A k \in Keys : inbox[k] = {} /\ sent[k] = 0 /\ handler[k].pc = "idle"
  BY <1>1, IdleHandlerIsOne
<1>3. AttrShapes
  BY <1>1, <1>2, KeysAre, IdleHandlerIsOne, AttrAssumption DEF AttrShapes, Styles
<1>4. Numbered /\ ReadsHold
  BY <1>1, <1>2, KeysAre DEF Numbered, ReadsHold, Handling
<1>5. StyleFollows /\ ScoreFollows
  BY <1>1, <1>2, KeysAre, IdleHandlerIsOne DEF StyleFollows, ScoreFollows, Handling, Has
<1> QED
  BY <1>3, <1>4, <1>5 DEF AttrInv

LEMMA MessageIsOne ==
  ASSUME NEW n \in Nat, NEW v \in Styles
  PROVE  Message(n + 1, v) \in Messages /\ Message(n + 1, v).no = n + 1 /\ Message(n + 1, v).value = v
  BY DEF Message, Messages

\* What Announce does, said of its key and of the other.
Announced(k, v) ==
  /\ sent' \in [Keys -> Nat] /\ sent'[k] = sent[k] + 1 /\ sent'[Other(k)] = sent[Other(k)]
  /\ inbox' \in [Keys -> SUBSET Messages] /\ inbox'[Other(k)] = inbox[Other(k)]
  /\ stale' \in SUBSET Keys /\ stale \subseteq stale' /\ (Other(k) \in stale' => Other(k) \in stale)
  /\ inbox[k] \subseteq inbox'[k]
  /\ \A m \in inbox'[k] : m \in inbox[k] \/ (m.no = sent'[k] /\ m.value = v)
  /\ k \in stale' \/ \E m \in inbox'[k] : m.no = sent'[k]

LEMMA AnnounceDoes ==
  ASSUME AttrInv, NEW k \in Keys, NEW v \in Styles, NEW b \in BOOLEAN, Announce(k, v, b)
  PROVE  Announced(k, v)
<1>0. /\ inbox \in [Keys -> SUBSET Messages] /\ sent \in [Keys -> Nat] /\ stale \in SUBSET Keys
      /\ Other(k) \in Keys /\ Other(k) # k
  BY KeysAre DEF AttrInv, AttrShapes
<1>1. sent' \in [Keys -> Nat] /\ sent'[k] = sent[k] + 1 /\ sent'[Other(k)] = sent[Other(k)]
  BY <1>0 DEF Announce
<1>2. CASE b
  <2> DEFINE m == Message(sent[k] + 1, v)
  <2>1. m \in Messages /\ m.no = sent'[k] /\ m.value = v
    BY <1>0, <1>1, MessageIsOne
  <2>2. inbox' = [inbox EXCEPT ![k] = @ \union {m}] /\ stale' = stale
    BY <1>2 DEF Announce
  <2> HIDE DEF m
  <2>3. /\ inbox' \in [Keys -> SUBSET Messages] /\ inbox'[Other(k)] = inbox[Other(k)]
        /\ inbox'[k] = inbox[k] \union {m}
    BY <1>0, <2>1, <2>2
  <2>4. inbox[k] \subseteq inbox'[k] /\ m \in inbox'[k]
        /\ \A q \in inbox'[k] : q \in inbox[k] \/ q = m
    BY <2>3
  <2> QED
    BY <1>0, <1>1, <2>1, <2>2, <2>3, <2>4 DEF Announced
<1>3. CASE ~b
  <2>1. inbox' = inbox /\ stale' = stale \union {k}
    BY <1>3 DEF Announce
  <2>2. /\ stale' \in SUBSET Keys /\ stale \subseteq stale' /\ k \in stale'
        /\ Other(k) \in stale' => Other(k) \in stale
    BY <1>0, <2>1
  <2> QED
    BY <1>0, <1>1, <2>1, <2>2 DEF Announced
<1> QED
  BY <1>2, <1>3

LEMMA ClassifyKeeps ==
  ASSUME AttrInv, NEW p, NEW b \in BOOLEAN, ClassifyCompany(p, b)
  PROVE  AttrInv'
<1> DEFINE v == Classify(p).style
<1>1. v \in Styles
  BY StyleIsOne
<1>2. company' = v /\ Announced("style", v) /\ UNCHANGED <<answer, handler, attrs, newest>>
  BY <1>1, AnnounceDoes, KeysAre DEF ClassifyCompany
<1> HIDE DEF v
<1>3. /\ AttrShapes /\ Numbered /\ ReadsHold /\ StyleFollows /\ ScoreFollows
      /\ sent["style"] \in Nat /\ newest \in Nat
  BY KeysAre DEF AttrInv, AttrShapes
<1>4. /\ sent'["style"] = sent["style"] + 1 /\ sent'["score"] = sent["score"]
      /\ inbox'["score"] = inbox["score"] /\ stale \subseteq stale' /\ ("score" \in stale' => "score" \in stale)
      /\ \A m \in inbox'["style"] : m \in inbox["style"] \/ (m.no = sent'["style"] /\ m.value = v)
      /\ "style" \in stale' \/ \E m \in inbox'["style"] : m.no = sent'["style"]
  BY <1>2, KeysAre DEF Announced
<1>5. AttrShapes'
  BY <1>1, <1>2, <1>3, <1>4 DEF AttrShapes, Announced
<1>6. \A m \in inbox["style"] : m.no \in Nat /\ m.no <= sent["style"]
  BY <1>3, KeysAre DEF AttrShapes, Numbered, Messages
<1>7. Numbered'
  <2>1. handler["style"].msg \in Nat
    BY <1>3, KeysAre DEF AttrShapes, HandlerStates
  <2> QED
    BY <1>2, <1>3, <1>4, <1>6, <2>1, KeysAre DEF Numbered, Handling
<1>8. ReadsHold'
  BY <1>2, <1>3, <1>4 DEF ReadsHold
<1>9. StyleFollows'
  <2>1. newest < sent'["style"]
    BY <1>3, <1>4 DEF Numbered
  <2>2. newest # sent'["style"]
    BY <2>1, <1>3, <1>4
  <2>3. \A m \in inbox'["style"] : m.no = sent'["style"] => m.value = v
    <3> SUFFICES ASSUME NEW m \in inbox["style"], m.no = sent'["style"] PROVE FALSE
      BY <1>4
    <3> QED
      BY <1>3, <1>4, <1>6
  <2>4. "style" \notin stale' => Has("style", sent["style"])'
    BY <1>4 DEF Has
  <2> QED
    BY <1>2, <1>3, <1>4, <2>2, <2>3, <2>4 DEF StyleFollows, Handling
<1>10. ScoreFollows'
  BY <1>2, <1>3, <1>4 DEF ScoreFollows
<1> QED
  BY <1>5, <1>7, <1>8, <1>9, <1>10 DEF AttrInv

LEMMA NewFundamentalsKeeps ==
  ASSUME AttrInv, NEW b \in BOOLEAN, NewFundamentals(b)
  PROVE  AttrInv'
<1>1. /\ answer' = sent["score"] + 1 /\ sent["score"] < LastScore
      /\ Announced("score", "none") /\ UNCHANGED <<company, handler, attrs, newest>>
  BY AnnounceDoes, KeysAre DEF NewFundamentals, Styles
<1>3. /\ AttrShapes /\ Numbered /\ ReadsHold /\ StyleFollows /\ ScoreFollows
      /\ sent["score"] \in Nat /\ LastScore \in Nat
  BY KeysAre, AttrAssumption DEF AttrInv, AttrShapes
<1>4. /\ sent'["score"] = sent["score"] + 1 /\ sent'["style"] = sent["style"]
      /\ inbox'["style"] = inbox["style"] /\ stale \subseteq stale' /\ ("style" \in stale' => "style" \in stale)
      /\ \A m \in inbox'["score"] : m \in inbox["score"] \/ m.no = sent'["score"]
      /\ "score" \in stale' \/ \E m \in inbox'["score"] : m.no = sent'["score"]
  BY <1>1, KeysAre DEF Announced
<1>5. AttrShapes'
  <2>1. answer' \in 0..LastScore /\ sent'["score"] <= LastScore
    BY <1>1, <1>3, <1>4
  <2> QED
    BY <1>1, <1>3, <2>1 DEF AttrShapes, Announced
<1>6. handler["score"].msg \in Nat /\ \A m \in inbox["score"] : m.no \in Nat
  BY <1>3, KeysAre DEF AttrShapes, HandlerStates, Messages
<1>7. Numbered'
  BY <1>1, <1>3, <1>4, <1>6, KeysAre DEF Numbered, Handling
<1>8. ReadsHold'
  BY <1>1, <1>3, <1>4 DEF ReadsHold
<1>9. StyleFollows'
  BY <1>1, <1>3, <1>4 DEF StyleFollows, Handling, Has
<1>10. ScoreFollows'
  <2>1. Handling("score") => handler["score"].msg < sent'["score"]
    BY <1>3, <1>4, <1>6, KeysAre DEF Numbered
  <2> QED
    BY <1>1, <1>4, <2>1 DEF ScoreFollows, Handling
<1> QED
  BY <1>5, <1>7, <1>8, <1>9, <1>10 DEF AttrInv

LEMMA RestartKeeps ==
  ASSUME AttrInv, FundamentalsRestart
  PROVE  AttrInv'
<1>1. answer' = 0 /\ UNCHANGED <<company, inbox, handler, attrs, sent, newest, stale>>
  BY DEF FundamentalsRestart
<1> QED
  BY <1>1, AttrAssumption DEF AttrInv, AttrShapes, Numbered, ReadsHold, StyleFollows, ScoreFollows,
                              Handling, Has

LEMMA DeliverKeeps ==
  ASSUME AttrInv, NEW k \in Keys, Deliver(k)
  PROVE  AttrInv'
<1>0. /\ AttrShapes /\ Numbered /\ ReadsHold /\ StyleFollows /\ ScoreFollows
      /\ handler[k].pc = "idle"
  BY DEF AttrInv, Deliver
<1>1. PICK m \in inbox[k] :
        /\ handler' = [handler EXCEPT ![k] =
             [IdleHandler EXCEPT !.pc = IF k = "score" THEN "query" ELSE "get",
                                 !.msg = m.no, !.tries = m.tries, !.value = m.value]]
        /\ newest' = IF k = "style" /\ m.no > newest THEN m.no ELSE newest
        /\ stale' = IF k = "style" /\ m.no < newest THEN stale \union {k} ELSE stale
  BY DEF Deliver
<1>2. UNCHANGED <<company, answer, inbox, attrs, sent>>
  BY DEF Deliver
<1> DEFINE h == [IdleHandler EXCEPT !.pc = IF k = "score" THEN "query" ELSE "get",
                                 !.msg = m.no, !.tries = m.tries, !.value = m.value]
<1>3. m \in Messages /\ m.no \in Nat /\ m.value \in Styles /\ m.no <= sent[k]
  BY <1>0 DEF AttrShapes, Messages, Numbered
<1>4. /\ h \in HandlerStates /\ h.pc = IF k = "score" THEN "query" ELSE "get"
      /\ h.msg = m.no /\ h.value = m.value
  BY <1>3, IdleHandlerIsOne DEF HandlerStates, Messages
<1>5. handler' = [handler EXCEPT ![k] = h]
  BY <1>1
<1> HIDE DEF h
<1>6. /\ handler' \in [Keys -> HandlerStates] /\ handler'[k] = h
      /\ \A j \in Keys : j # k => handler'[j] = handler[j]
  BY <1>0, <1>4, <1>5 DEF AttrShapes
<1>7. /\ newest' \in Nat /\ stale' \in SUBSET Keys /\ stale \subseteq stale'
      /\ "score" \in stale' => "score" \in stale
  BY <1>0, <1>1, <1>3 DEF AttrShapes
<1>8. AttrShapes'
  BY <1>0, <1>2, <1>3, <1>4, <1>6, <1>7, KeysAre DEF AttrShapes
<1>9. Numbered'
  <2>1. newest' <= sent["style"]
    BY <1>0, <1>1, <1>3 DEF Numbered
  <2> QED
    BY <1>0, <1>2, <1>3, <1>4, <1>6, <2>1 DEF Numbered, Handling
<1>10. ReadsHold'
  <2>1. h.pc # "set"
    BY <1>4
  <2> QED
    BY <1>0, <1>2, <1>6, <1>7, <2>1, KeysAre DEF ReadsHold
<1>11. StyleFollows'
  <2>1. CASE k = "style"
    <3>1. "style" \notin stale' => m.no >= newest /\ newest' = m.no
      BY <1>0, <1>1, <1>3, <2>1 DEF AttrShapes
    <3>2. ASSUME "style" \notin stale', ~Has("style", sent["style"])
          PROVE  newest' = sent["style"] /\ attrs.style = company
      <4>1. newest = sent["style"] /\ attrs.style = company
        BY <1>0, <1>7, <3>2 DEF StyleFollows
      <4> QED
        BY <4>1, <3>1, <3>2, <1>0, <1>3, <2>1, KeysAre DEF AttrShapes
    <3> QED
      BY <1>0, <1>2, <1>4, <1>6, <1>7, <2>1, <3>1, <3>2 DEF StyleFollows, Handling, Has
  <2>2. CASE k # "style"
    BY <1>0, <1>1, <1>2, <1>6, <2>2, KeysAre DEF StyleFollows, Handling, Has
  <2> QED
    BY <2>1, <2>2
<1>12. ScoreFollows'
  BY <1>0, <1>2, <1>4, <1>6, <1>7, KeysAre DEF ScoreFollows
<1> QED
  BY <1>8, <1>9, <1>10, <1>11, <1>12 DEF AttrInv

\* The message of the handler of k leaves, and the handler is idle.
Leaves(k) ==
  /\ handler' \in [Keys -> HandlerStates] /\ handler'[k].pc = "idle"
  /\ handler'[Other(k)] = handler[Other(k)]
  /\ inbox' \in [Keys -> SUBSET Messages] /\ inbox'[Other(k)] = inbox[Other(k)]
  /\ inbox'[k] = {m \in inbox[k] : m.no # handler[k].msg}
  /\ UNCHANGED <<company, answer, sent, newest>>

LEMMA AcknowledgedLeaves ==
  ASSUME AttrShapes, NEW k \in Keys,
         handler' = [handler EXCEPT ![k] = IdleHandler], inbox' = Acknowledged(k),
         UNCHANGED <<company, answer, sent, newest>>
  PROVE  Leaves(k)
  BY KeysAre, IdleHandlerIsOne DEF AttrShapes, Leaves, Acknowledged

LEMMA QueryKeeps ==
  ASSUME AttrInv, QueryFundamentals
  PROVE  AttrInv'
<1>0. /\ AttrShapes /\ Numbered /\ ReadsHold /\ StyleFollows /\ ScoreFollows
      /\ handler["score"].pc = "query"
  BY DEF AttrInv, QueryFundamentals
<1>1. CASE answer = 0
  <2>1. /\ Leaves("score") /\ stale' = stale \union {"score"} /\ attrs' = attrs
    BY <1>0, <1>1, AcknowledgedLeaves, KeysAre DEF QueryFundamentals
  <2>2. /\ handler'["style"] = handler["style"] /\ handler'["score"].pc = "idle"
        /\ inbox'["style"] = inbox["style"] /\ inbox'["score"] \subseteq inbox["score"]
        /\ inbox' \in [Keys -> SUBSET Messages] /\ handler' \in [Keys -> HandlerStates]
        /\ UNCHANGED <<company, answer, sent, newest>>
    BY <2>1, KeysAre DEF Leaves
  <2>3. AttrShapes'
    BY <1>0, <2>1, <2>2, KeysAre DEF AttrShapes
  <2>4. Numbered' /\ ReadsHold'
    BY <1>0, <2>1, <2>2, KeysAre DEF Numbered, ReadsHold, Handling
  <2>5. StyleFollows' /\ ScoreFollows'
    BY <1>0, <2>1, <2>2 DEF StyleFollows, ScoreFollows, Handling, Has
  <2> QED
    BY <2>3, <2>4, <2>5 DEF AttrInv
<1>2. CASE answer # 0
  <2> DEFINE h == [handler["score"] EXCEPT !.pc = "get", !.value = answer]
  <2>1. /\ handler' = [handler EXCEPT !["score"] = h]
        /\ UNCHANGED <<company, answer, inbox, attrs, sent, newest, stale>>
    BY <1>2 DEF QueryFundamentals
  <2>2. h \in HandlerStates /\ h.pc = "get" /\ h.value = answer /\ h.msg = handler["score"].msg
    BY <1>0, KeysAre DEF AttrShapes, HandlerStates
  <2> HIDE DEF h
  <2>3. /\ handler' \in [Keys -> HandlerStates] /\ handler'["score"] = h
        /\ handler'["style"] = handler["style"]
    BY <1>0, <2>1, <2>2, KeysAre DEF AttrShapes
  <2>4. AttrShapes'
    BY <1>0, <2>1, <2>2, <2>3, KeysAre DEF AttrShapes
  <2>5. Numbered' /\ ReadsHold'
    BY <1>0, <2>1, <2>2, <2>3, KeysAre DEF Numbered, ReadsHold, Handling
  <2>6. StyleFollows' /\ ScoreFollows'
    BY <1>0, <2>1, <2>2, <2>3 DEF StyleFollows, ScoreFollows, Handling, Has
  <2> QED
    BY <2>4, <2>5, <2>6 DEF AttrInv
<1> QED
  BY <1>1, <1>2

LEMMA GetKeeps ==
  ASSUME AttrInv, NEW k \in Keys, GetAttributes(k)
  PROVE  AttrInv'
<1> DEFINE h == [handler[k] EXCEPT !.pc = "set", !.read = attrs]
<1>0. /\ AttrShapes /\ Numbered /\ ReadsHold /\ StyleFollows /\ ScoreFollows
      /\ handler[k].pc = "get"
  BY DEF AttrInv, GetAttributes
<1>1. /\ handler' = [handler EXCEPT ![k] = h]
      /\ stale' = IF handler[Other(k)].pc = "set" THEN stale \union Keys ELSE stale
      /\ UNCHANGED <<company, answer, inbox, attrs, sent, newest>>
  BY DEF GetAttributes
<1>2. /\ h \in HandlerStates /\ h.pc = "set" /\ h.read = attrs
      /\ h.value = handler[k].value /\ h.msg = handler[k].msg
  BY <1>0 DEF AttrShapes, HandlerStates
<1> HIDE DEF h
<1>3. /\ handler' \in [Keys -> HandlerStates] /\ handler'[k] = h
      /\ \A j \in Keys : j # k => handler'[j] = handler[j]
  BY <1>0, <1>1, <1>2 DEF AttrShapes
<1>4. stale' \in SUBSET Keys /\ stale \subseteq stale'
  BY <1>0, <1>1 DEF AttrShapes
<1>5. AttrShapes'
  BY <1>0, <1>1, <1>2, <1>3, <1>4, KeysAre DEF AttrShapes
<1>6. Numbered' /\ ReadsHold'
  <2>1. Numbered'
    BY <1>0, <1>1, <1>2, <1>3, KeysAre DEF Numbered, Handling
  <2>2. AttrBackend = "redis" /\ (handler[Other(k)].pc = "set" => stale' = stale \union Keys)
    BY <1>1 DEF GetAttributes
  <2>3. Other(k) \in Keys /\ Other(k) # k /\ \A j \in Keys : j = k \/ j = Other(k)
    BY KeysAre
  <2>4. Other(Other(k)) = k
    BY KeysAre
  <2>5. /\ handler'[Other(k)] = handler[Other(k)]
        /\ handler[Other(k)].pc = "set" => Keys \subseteq stale'
    BY <1>3, <2>2, <2>3
  <2>6. ReadsHold'
    BY <1>0, <1>1, <1>2, <1>3, <1>4, <2>2, <2>3, <2>4, <2>5 DEF ReadsHold
  <2> QED
    BY <2>1, <2>6
<1>7. StyleFollows'
  BY <1>0, <1>1, <1>2, <1>3, <1>4, KeysAre DEF StyleFollows, Handling, Has
<1>8. ScoreFollows'
  BY <1>0, <1>1, <1>2, <1>3, <1>4, KeysAre DEF ScoreFollows
<1> QED
  BY <1>5, <1>6, <1>7, <1>8 DEF AttrInv

LEMMA PutKeeps ==
  ASSUME AttrInv, NEW k \in Keys, PutAttributes(k)
  PROVE  AttrInv'
<1> DEFINE h == handler[k]
           j == Other(k)
<1>0. /\ AttrShapes /\ Numbered /\ ReadsHold /\ StyleFollows /\ ScoreFollows
      /\ j \in Keys /\ j # k
  BY KeysAre DEF AttrInv
<1>1. /\ h.pc \in {"get", "set"}
      /\ AttrBackend = "redis" => h.pc = "set"
      /\ attrs' = Merged(k, IF AttrBackend = "redis" THEN h.read ELSE attrs, h.value)
      /\ stale' = stale
      /\ Leaves(k)
  <2>1. Leaves(k)
    BY <1>0, AcknowledgedLeaves DEF PutAttributes
  <2> QED
    BY <2>1 DEF PutAttributes
<1>2. /\ k = "score" => h.value \in 0..LastScore
      /\ k = "style" => h.value \in Styles
      /\ h.read \in Records /\ h.msg \in Nat
  BY <1>0, <1>1, KeysAre DEF AttrShapes, HandlerStates
<1>3. /\ attrs' \in Records /\ attrs'[k] = h.value
      /\ attrs'[j] = (IF AttrBackend = "redis" THEN h.read ELSE attrs)[j]
  <2> DEFINE base == IF AttrBackend = "redis" THEN h.read ELSE attrs
  <2>1. base \in Records
    BY <1>0, <1>2 DEF AttrShapes
  <2>2. attrs' = [base EXCEPT ![k] = h.value]
    BY <1>1 DEF Merged
  <2> HIDE DEF base
  <2>3. DOMAIN base = {"score", "style"}
    BY <2>1 DEF Records
  <2>4. attrs' \in Records
    BY <1>2, <2>1, <2>2, KeysAre DEF Records
  <2>5. attrs'[k] = h.value /\ attrs'[j] = base[j]
    BY <1>0, <2>2, <2>3, KeysAre
  <2> QED
    BY <2>4, <2>5 DEF base
<1>4. j \notin stale => attrs'[j] = attrs[j]
  BY <1>0, <1>1, <1>3 DEF ReadsHold
<1>5. /\ handler' \in [Keys -> HandlerStates] /\ handler'[k].pc = "idle" /\ handler'[j] = handler[j]
      /\ inbox' \in [Keys -> SUBSET Messages] /\ inbox'[j] = inbox[j]
      /\ inbox'[k] = {m \in inbox[k] : m.no # h.msg}
      /\ UNCHANGED <<company, answer, sent, newest>>
  BY <1>1 DEF Leaves
<1> HIDE DEF h
<1>6. AttrShapes'
  BY <1>0, <1>1, <1>3, <1>5, KeysAre DEF AttrShapes
<1>7. Numbered'
  BY <1>0, <1>5, KeysAre DEF Numbered, Handling
<1>8. ReadsHold'
  <2> SUFFICES ASSUME handler'[j].pc = "set"
               PROVE  /\ AttrBackend = "redis"
                      /\ k \notin stale => handler[j].read[k] = attrs'[k]
    BY <1>0, <1>1, <1>5, KeysAre DEF ReadsHold
  <2>1. AttrBackend = "redis"
    BY <1>0, <1>5 DEF ReadsHold
  <2>2. h.pc = "set"
    BY <1>1, <2>1
  <2>3. k \in stale
    BY <1>0, <1>5, <2>2, KeysAre DEF ReadsHold, h
  <2> QED
    BY <2>1, <2>3
<1>9. StyleFollows'
  <2>1. CASE k = "style"
    <3>1. ASSUME "style" \notin stale
          PROVE  /\ h.msg = newest
                 /\ newest = sent["style"] => attrs'.style = company
      <4>1. handler["style"].pc # "idle"
        BY <1>1, <2>1 DEF h
      <4> QED
        BY <1>0, <1>3, <2>1, <3>1, <4>1 DEF StyleFollows, Handling, h
    <3>2. ASSUME "style" \notin stale, ~Has("style", sent["style"])'
          PROVE  newest = sent["style"]
      <4>1. CASE ~Has("style", sent["style"])
        BY <1>0, <3>2, <4>1 DEF StyleFollows
      <4>2. CASE Has("style", sent["style"])
        <5>1. PICK m \in inbox["style"] : m.no = sent["style"]
          BY <4>2 DEF Has
        <5>2. m.no = h.msg
          BY <1>5, <2>1, <3>2, <5>1 DEF Has
        <5> QED
          BY <3>1, <3>2, <5>1, <5>2
      <4> QED
        BY <4>1, <4>2
    <3>3. handler'["style"].pc = "idle" /\ \A m \in inbox'["style"] : m \in inbox["style"]
      BY <1>5, <2>1
    <3> QED
      BY <1>0, <1>1, <1>5, <3>1, <3>2, <3>3 DEF StyleFollows, Handling
  <2>2. CASE k = "score"
    <3>1. j = "style"
      BY <2>2, KeysAre
    <3> QED
      BY <1>0, <1>1, <1>4, <1>5, <3>1 DEF StyleFollows, Handling, Has
  <2> QED
    BY <2>1, <2>2, KeysAre
<1>10. ScoreFollows'
  <2>1. CASE k = "style"
    <3>1. j = "score"
      BY <2>1, KeysAre
    <3> QED
      BY <1>0, <1>1, <1>4, <1>5, <3>1 DEF ScoreFollows
  <2>2. CASE k = "score"
    <3>1. ASSUME "score" \notin stale, answer # 0, inbox'["score"] = {}
          PROVE  attrs'.score = answer
      <4>1. h.value = answer \/ \E m \in inbox["score"] : m.no > h.msg
        BY <1>0, <1>1, <2>2, <3>1 DEF ScoreFollows, h
      <4>2. \A m \in inbox["score"] : m.no = h.msg
        BY <1>5, <2>2, <3>1
      <4>3. \A m \in inbox["score"] : ~(m.no > h.msg)
        BY <1>2, <4>2
      <4> QED
        BY <1>3, <2>2, <4>1, <4>3
    <3> QED
      BY <1>1, <1>5, <2>2, <3>1 DEF ScoreFollows
  <2> QED
    BY <2>1, <2>2, KeysAre
<1> QED
  BY <1>6, <1>7, <1>8, <1>9, <1>10 DEF AttrInv

\* A message that comes back keeps its number; one given up spoils its key.
LEMMA ReturnedAre ==
  ASSUME AttrShapes, NEW k \in Keys
  PROVE  /\ Returned(k) \in SUBSET Messages
         /\ \A m \in Returned(k) : /\ m.no = handler[k].msg
                                   /\ \E n \in inbox[k] : n.no = m.no /\ n.value = m.value
         /\ \A n \in inbox[k] : n.no = handler[k].msg => Returned(k) # {}
<1>1. \A n \in inbox[k] : LET m == [n EXCEPT !.tries = @ + 1]
                          IN  m \in Messages /\ m.no = n.no /\ m.value = n.value
  BY DEF AttrShapes, Messages
<1> QED
  BY <1>1 DEF Returned

\* The message of the handler of k comes back, or its key is spoilt.
Returns(k) ==
  /\ inbox'[k] \in SUBSET Messages
  /\ \A m \in inbox'[k] : \E n \in inbox[k] : n.no = m.no /\ n.value = m.value
  /\ k \notin stale' => \A n \in inbox[k] : \E m \in inbox'[k] : n.no = m.no

LEMMA ReturnsInstead ==
  ASSUME AttrShapes, NEW k \in Keys,
         inbox'[k] = {m \in inbox[k] : m.no # handler[k].msg} \union
                     {m \in Returned(k) : m.tries < AttrDeliver},
         k \notin stale' => \/ {m \in Returned(k) : m.tries < AttrDeliver} # {}
                            \/ ~ \E m \in Returned(k) : m.tries >= AttrDeliver,
         AttrDeliver \in Int
  PROVE  Returns(k)
<1>1. inbox[k] \in SUBSET Messages
  BY DEF AttrShapes
<1>2. inbox'[k] \in SUBSET Messages
  BY <1>1, ReturnedAre
<1>3. \A m \in inbox'[k] : \E n \in inbox[k] : n.no = m.no /\ n.value = m.value
  BY ReturnedAre
<1>4. ASSUME k \notin stale', NEW n \in inbox[k]
      PROVE  \E m \in inbox'[k] : n.no = m.no
  <2>1. CASE n.no # handler[k].msg
    BY <2>1
  <2>2. CASE n.no = handler[k].msg
    <3>1. Returned(k) # {} /\ \A m \in Returned(k) : m.tries \in Int
      BY <2>2, ReturnedAre DEF Messages
    <3>2. PICK m \in Returned(k) : m.tries < AttrDeliver
      BY <1>4, <3>1
    <3> QED
      BY <2>2, <3>2, ReturnedAre
  <2> QED
    BY <2>1, <2>2
<1> QED
  BY <1>2, <1>3, <1>4 DEF Returns

\* Handlers stop; what they were handling comes back, or its key is spoilt.
Stopped ==
  /\ handler' \in [Keys -> HandlerStates]
  /\ \A k \in Keys : handler'[k] = handler[k] \/ handler'[k].pc = "idle"
  /\ inbox' \in [Keys -> SUBSET Messages] /\ \A k \in Keys : Returns(k)
  /\ \A k \in Keys : inbox'[k] # inbox[k] => handler'[k].pc = "idle"
  /\ stale' \in SUBSET Keys /\ stale \subseteq stale'
  /\ attrs' \in Records
  /\ attrs' = attrs \/ (Keys \subseteq stale' /\ \A k \in Keys : handler'[k].pc = "idle")
  /\ UNCHANGED <<company, answer, sent, newest>>

LEMMA StoppedKeeps ==
  ASSUME AttrInv, Stopped
  PROVE  AttrInv'
<1>0. /\ AttrShapes /\ Numbered /\ ReadsHold /\ StyleFollows /\ ScoreFollows
      /\ Returns("score") /\ Returns("style")
      /\ UNCHANGED <<company, answer, sent, newest>>
      /\ stale \subseteq stale'
      /\ \A k \in Keys : handler'[k] = handler[k] \/ handler'[k].pc = "idle"
  BY KeysAre DEF AttrInv, Stopped
<1>1. AttrShapes'
  BY <1>0, KeysAre DEF AttrShapes, Stopped
<1>2. Numbered'
  <2>1. \A k \in Keys : \A m \in inbox'[k] : m.no <= sent[k]
    BY <1>0, KeysAre DEF Numbered, Returns
  <2> QED
    BY <1>0, <2>1 DEF Numbered, Handling
<1>3. ReadsHold'
  <2> SUFFICES ASSUME NEW k \in Keys, handler'[k].pc = "set"
               PROVE  /\ AttrBackend = "redis"
                      /\ handler'[Other(k)].pc = "set" => Keys \subseteq stale'
                      /\ Other(k) \notin stale' => handler'[k].read[Other(k)] = attrs'[Other(k)]
    BY DEF ReadsHold
  <2>1. Other(k) \in Keys /\ handler'[k] = handler[k]
    BY <1>0, KeysAre
  <2>2. Other(k) \notin stale' => attrs' = attrs
    BY <2>1 DEF Stopped
  <2>3. handler'[Other(k)].pc = "set" => handler[Other(k)].pc = "set"
    BY <1>0, <2>1
  <2> QED
    BY <1>0, <2>1, <2>2, <2>3 DEF ReadsHold
<1>4. StyleFollows'
  <2>1. "style" \notin stale' => attrs' = attrs
    BY KeysAre DEF Stopped
  <2>2. "style" \notin stale' => (Has("style", sent["style"]) => Has("style", sent["style"])')
    BY <1>0 DEF Returns, Has
  <2>3. \A m \in inbox'["style"] : m.no = sent["style"] /\ "style" \notin stale' => m.value = company
    BY <1>0 DEF StyleFollows, Returns
  <2>4. Handling("style")' => Handling("style") /\ handler'["style"] = handler["style"]
    BY <1>0, KeysAre DEF Handling
  <2> QED
    BY <1>0, <2>1, <2>2, <2>3, <2>4 DEF StyleFollows
<1>5. ScoreFollows'
  <2>1. "score" \notin stale' => attrs' = attrs
    BY KeysAre DEF Stopped
  <2>2. "score" \notin stale' => (inbox'["score"] = {} => inbox["score"] = {})
    BY <1>0 DEF Returns
  <2>3. handler'["score"].pc \in {"get", "set"} =>
          handler'["score"] = handler["score"] /\ inbox'["score"] = inbox["score"]
    BY <1>0, KeysAre DEF Stopped
  <2> QED
    BY <1>0, <2>1, <2>2, <2>3 DEF ScoreFollows
<1> QED
  BY <1>1, <1>2, <1>3, <1>4, <1>5 DEF AttrInv

LEMMA HandlerFailsKeeps ==
  ASSUME AttrInv, NEW k \in Keys, HandlerFails(k)
  PROVE  AttrInv'
<1> DEFINE others == {m \in inbox[k] : m.no # handler[k].msg}
           back == {m \in Returned(k) : m.tries < AttrDeliver}
<1>0. AttrShapes
  BY DEF AttrInv
<1>1. /\ inbox' = [inbox EXCEPT ![k] = others \union back]
      /\ handler' = [handler EXCEPT ![k] = IdleHandler]
      /\ stale' = IF back = {} THEN stale \union {k} ELSE stale
      /\ UNCHANGED <<company, answer, attrs, sent, newest>>
  BY DEF HandlerFails
<1>2. inbox'[k] = others \union back /\ \A i \in Keys : i # k => inbox'[i] = inbox[i]
  BY <1>0, <1>1 DEF AttrShapes
<1>3. k \notin stale' => back # {}
  BY <1>1
<1>4. Returns(k)
  BY <1>0, <1>2, <1>3, ReturnsInstead, AttrAssumption
<1> HIDE DEF others, back
<1>5. /\ handler' \in [Keys -> HandlerStates] /\ handler'[k].pc = "idle"
      /\ \A i \in Keys : i # k => handler'[i] = handler[i]
  BY <1>0, <1>1, IdleHandlerIsOne DEF AttrShapes
<1>6. \A i \in Keys : Returns(i)
  BY <1>0, <1>2, <1>4 DEF Returns, AttrShapes
<1>7. inbox' \in [Keys -> SUBSET Messages]
  <2>1. \A i \in Keys : inbox'[i] \in SUBSET Messages
    BY <1>6 DEF Returns
  <2>2. inbox' = [i \in Keys |-> inbox'[i]]
    BY <1>0, <1>1 DEF AttrShapes
  <2> QED
    BY <2>1, <2>2
<1>8. stale' \in SUBSET Keys /\ stale \subseteq stale' /\ attrs' \in Records
  BY <1>0, <1>1 DEF AttrShapes
<1>9. Stopped
  BY <1>1, <1>2, <1>5, <1>6, <1>7, <1>8 DEF Stopped
<1> QED
  BY <1>9, StoppedKeeps

LEMMA FeatureEngineCrashKeeps ==
  ASSUME AttrInv, FeatureEngineCrash
  PROVE  AttrInv'
<1>0. AttrShapes
  BY DEF AttrInv
<1>1. /\ inbox' = [k \in Keys |-> {m \in inbox[k] : m.no # handler[k].msg} \union
                              {m \in Returned(k) : m.tries < AttrDeliver}]
      /\ stale' = stale \union {k \in Keys : \E m \in Returned(k) : m.tries >= AttrDeliver}
                    \union (IF AttrBackend = "redis" THEN {} ELSE Keys)
      /\ handler' = [k \in Keys |-> IdleHandler]
      /\ attrs' = IF AttrBackend = "redis" THEN attrs ELSE NoAttrs
      /\ UNCHANGED <<company, answer, sent, newest>>
  BY DEF FeatureEngineCrash
<1>2. /\ handler' \in [Keys -> HandlerStates] /\ \A k \in Keys : handler'[k].pc = "idle"
  BY <1>1, IdleHandlerIsOne
<1>3. \A k \in Keys : Returns(k)
  <2> TAKE k \in Keys
  <2>1. inbox'[k] = {m \in inbox[k] : m.no # handler[k].msg} \union
                     {m \in Returned(k) : m.tries < AttrDeliver}
    BY <1>1
  <2>2. k \notin stale' => ~ \E m \in Returned(k) : m.tries >= AttrDeliver
    BY <1>1
  <2> QED
    BY <1>0, <2>1, <2>2, ReturnsInstead, AttrAssumption
<1>4. inbox' \in [Keys -> SUBSET Messages]
  <2>1. \A i \in Keys : inbox'[i] \in SUBSET Messages
    BY <1>3 DEF Returns
  <2>2. inbox' = [i \in Keys |-> inbox'[i]]
    BY <1>1
  <2> QED
    BY <2>1, <2>2
<1>5. /\ stale' \in SUBSET Keys /\ stale \subseteq stale'
      /\ AttrBackend # "redis" => Keys \subseteq stale'
  BY <1>0, <1>1 DEF AttrShapes
<1>6. attrs' \in Records /\ (attrs' = attrs \/ Keys \subseteq stale')
  BY <1>0, <1>1, <1>5, IdleHandlerIsOne DEF AttrShapes
<1>7. Stopped
  BY <1>1, <1>2, <1>3, <1>4, <1>5, <1>6 DEF Stopped
<1> QED
  BY <1>7, StoppedKeeps

LEMMA AttrStepKeeps ==
  ASSUME AttrInv, [AttrNext]_attrVars
  PROVE  AttrInv'
<1>1. CASE UNCHANGED attrVars
  BY <1>1 DEF attrVars, AttrInv, AttrShapes, Numbered, ReadsHold, StyleFollows, ScoreFollows,
              Handling, Has
<1>2. CASE AttrNext
  BY <1>2, ClassifyKeeps, NewFundamentalsKeeps, RestartKeeps, DeliverKeeps, GetKeeps, PutKeeps,
     HandlerFailsKeeps, QueryKeeps, FeatureEngineCrashKeeps DEF AttrNext
<1> QED
  BY <1>1, <1>2

LEMMA AttrInvSuffices == AttrInv => AttrTypeOK /\ AttributesAreCurrent
<1> SUFFICES ASSUME AttrInv PROVE AttrTypeOK /\ AttributesAreCurrent
  OBVIOUS
<1>1. AttrTypeOK
  BY KeysAre DEF AttrInv, AttrShapes, AttrTypeOK, Records, Styles, HandlerStates
<1>2. AttributesAreCurrent
  BY DEF AttrInv, StyleFollows, ScoreFollows, Has, AttributesAreCurrent
<1> QED
  BY <1>1, <1>2

-----------------------------------------------------------------------------
(* The panel, read as of a day and walked day by day                       *)

Visible(S, s, day) == {o \in S : o.series = s /\ o.period <= day /\ o.vintage <= day}

IsBest(b, K) == b \in K /\ \A p \in K \ {b} : Supersedes(b, p)

LEMMA BestIsOne ==
  ASSUME NEW K \in SUBSET Alfred, NEW b, IsBest(b, K)
  PROVE  BestOf(K) = b
<1>1. ASSUME NEW c, IsBest(c, K) PROVE c = b
  <2> SUFFICES ASSUME c # b PROVE FALSE
    OBVIOUS
  <2>1. c \in Alfred /\ b \in Alfred /\ Supersedes(b, c) /\ Supersedes(c, b)
    BY <1>1 DEF IsBest
  <2>2. c.period \in Nat /\ c.vintage \in Nat /\ b.period \in Nat /\ b.vintage \in Nat
    BY <2>1, MacroAssumption
  <2> QED
    BY <2>1, <2>2 DEF Supersedes
<1>2. BestOf(K) = CHOOSE c : IsBest(c, K)
  BY DEF BestOf, IsBest
<1> QED
  BY <1>1, <1>2

\* The rows of a series that are public on a day have one in force.
LEMMA BestExists ==
  ASSUME NEW K \in SUBSET Alfred, K # {}, NEW day \in Nat,
         \A o \in K : o.period <= day /\ o.vintage <= day,
         \A o, p \in K : o.series = p.series
  PROVE  \E b : IsBest(b, K)
<1>0. \A o \in K : o.period \in Nat /\ o.vintage \in Nat
  BY MacroAssumption
<1> DEFINE P == {o.period : o \in K}
<1>1. P \in SUBSET Nat /\ P # {} /\ \A n \in P : n <= day
  BY <1>0
<1>2. PICK m \in P : \A n \in P : m >= n
  <2>1. IsFiniteSet(P)
    BY <1>1, FS_BoundedSetOfNaturals
  <2> QED
    BY <1>1, <2>1, FiniteSetsHaveGreatest DEF HasGreatest
<1>3. \A o \in K : m >= o.period
  BY <1>2
<1>4. PICK q \in K : q.period = m
  OBVIOUS
<1> DEFINE V == {o.vintage : o \in {r \in K : r.period = m}}
<1>5. V \in SUBSET Nat /\ V # {} /\ \A n \in V : n <= day
  BY <1>0, <1>4
<1>6. PICK v \in V : \A n \in V : v >= n
  <2>1. IsFiniteSet(V)
    BY <1>5, FS_BoundedSetOfNaturals
  <2> QED
    BY <1>5, <2>1, FiniteSetsHaveGreatest DEF HasGreatest
<1>7. \A o \in K : o.period = m => v >= o.vintage
  BY <1>6
<1>8. PICK b \in K : b.period = m /\ b.vintage = v
  BY <1>6
<1> HIDE DEF P, V
<1>9. ASSUME NEW p \in K \ {b} PROVE Supersedes(b, p)
  <2>1. p.period # m \/ p.vintage # v
    BY <1>8, <1>9, MacroAssumption
  <2>2. m >= p.period /\ (p.period = m => v >= p.vintage)
    BY <1>3, <1>7
  <2>3. p.period \in Nat /\ p.vintage \in Nat /\ b.period \in Nat /\ b.vintage \in Nat
    BY <1>0
  <2> QED
    BY <1>8, <2>1, <2>2, <2>3 DEF Supersedes
<1> QED
  BY <1>9 DEF IsBest

LEMMA VisibleHasBest ==
  ASSUME NEW S \in SUBSET Alfred, NEW s, NEW day \in Nat, Visible(S, s, day) # {}
  PROVE  IsBest(BestOf(Visible(S, s, day)), Visible(S, s, day))
<1> DEFINE K == Visible(S, s, day)
<1>1. /\ K \in SUBSET Alfred /\ \A o \in K : o.period <= day /\ o.vintage <= day
      /\ \A o, p \in K : o.series = p.series
  BY DEF Visible
<1> HIDE DEF K
<1>2. PICK b : IsBest(b, K)
  BY <1>1, BestExists DEF K
<1>3. IsBest(BestOf(K), K)
  BY <1>1, <1>2, BestIsOne
<1> QED
  BY <1>3 DEF K

\* as_of reads the row in force.
LEMMA AsOfReadsBest ==
  ASSUME NEW S \in SUBSET Alfred, NEW s \in Panel(S), NEW day \in Nat
  PROVE  AsOf(S, day)[s] = IF Visible(S, s, day) = {} THEN Missing
                           ELSE BestOf(Visible(S, s, day)).value
<1> DEFINE K == Visible(S, s, day)
           Reads(o) == o \in K /\ \A p \in K :
                 <<o.period, o.vintage>> = <<p.period, p.vintage>>
                   \/ o.period > p.period \/ (o.period = p.period /\ o.vintage > p.vintage)
<1>1. AsOf(S, day)[s] = IF K = {} THEN Missing ELSE (CHOOSE o : Reads(o)).value
  BY DEF AsOf, Visible
<1>2. ASSUME K # {}
      PROVE  (CHOOSE o : Reads(o)) = BestOf(K)
  <2>1. IsBest(BestOf(K), K)
    BY <1>2, VisibleHasBest
  <2>2. \A o \in K : o \in Alfred /\ o.series = s
    BY DEF Visible
  <2> HIDE DEF K
  <2> DEFINE b == BestOf(K)
  <2>3. Reads(b)
    BY <2>1 DEF IsBest, Supersedes
  <2>4. ASSUME NEW o, Reads(o) PROVE o = b
    <3> SUFFICES ASSUME o # b PROVE FALSE
      OBVIOUS
    <3>1. o \in K /\ b \in K /\ Supersedes(b, o)
      BY <2>1, <2>4 DEF IsBest
    <3>2. o.period # b.period \/ o.vintage # b.vintage
      BY <2>2, <3>1, MacroAssumption
    <3>3. o.period > b.period \/ (o.period = b.period /\ o.vintage > b.vintage)
      BY <2>4, <3>1, <3>2
    <3>4. o.period \in Nat /\ o.vintage \in Nat /\ b.period \in Nat /\ b.vintage \in Nat
      BY <2>2, <3>1, MacroAssumption
    <3> QED
      BY <3>1, <3>3, <3>4 DEF Supersedes
  <2> HIDE DEF b, Reads
  <2>5. (CHOOSE o : Reads(o)) = b
    BY <2>3, <2>4
  <2> QED
    BY <2>5 DEF b
<1> QED
  BY <1>1, <1>2

\* The row in force of each series, as a set of at most one.
InForce(S, s, day) == IF Visible(S, s, day) = {} THEN {} ELSE {BestOf(Visible(S, s, day))}

\* What a day adds to the row in force.
Next1(S, s, day, held) ==
  LET rows == held \union {o \in S : o.series = s /\ VisibleFrom(o) = day}
  IN  IF rows = {} THEN {} ELSE {BestOf(rows)}

Walks(S, W) ==
  W = [day \in 0..MacroDays |->
         IF day = 0 THEN [s \in Panel(S) |-> {}]
         ELSE [s \in Panel(S) |-> Next1(S, s, day, W[day - 1][s])]]

LEMMA NothingOnDayZero ==
  ASSUME NEW S \in SUBSET Alfred, NEW s PROVE InForce(S, s, 0) = {}
  BY MacroAssumption DEF InForce, Visible

LEMMA DayAdds ==
  ASSUME NEW S \in SUBSET Alfred, NEW s, NEW day \in Nat, day > 0
  PROVE  Next1(S, s, day, InForce(S, s, day - 1)) = InForce(S, s, day)
<1> DEFINE Old == Visible(S, s, day - 1)
           New == {o \in S : o.series = s /\ VisibleFrom(o) = day}
           All == Visible(S, s, day)
           rows == InForce(S, s, day - 1) \union New
<1>1. \A o \in S : o.period \in Nat /\ o.vintage \in Nat
  BY MacroAssumption
<1>2. All = Old \union New
  <2>1. \A o \in S : o.period <= day /\ o.vintage <= day
                       <=> (o.period <= day - 1 /\ o.vintage <= day - 1) \/ VisibleFrom(o) = day
    BY <1>1 DEF VisibleFrom
  <2> QED
    BY <2>1 DEF Visible
<1>3. day - 1 \in Nat
  OBVIOUS
<1>4. Old # {} => IsBest(BestOf(Old), Old)
  BY <1>3, VisibleHasBest
<1>5. All # {} => IsBest(BestOf(All), All)
  BY VisibleHasBest
<1>6. All \in SUBSET Alfred /\ Old \in SUBSET Alfred
  BY DEF Visible
<1>7. rows = (IF Old = {} THEN {} ELSE {BestOf(Old)}) \union New
  BY DEF InForce
<1>8. Next1(S, s, day, InForce(S, s, day - 1)) = IF rows = {} THEN {} ELSE {BestOf(rows)}
  BY DEF Next1
<1> HIDE DEF Old, New, All, rows
<1>9. rows = {} <=> All = {}
  BY <1>2, <1>7
<1>10. ASSUME All # {} PROVE BestOf(rows) = BestOf(All)
  <2> DEFINE b == BestOf(All)
  <2>1. IsBest(b, All)
    BY <1>5, <1>10
  <2>2. rows \subseteq All
    BY <1>2, <1>4, <1>7 DEF IsBest
  <2>3. b \in rows
    <3>1. CASE b \in New
      BY <1>7, <3>1
    <3>2. CASE b \in Old
      <4>1. IsBest(b, Old)
        BY <1>2, <2>1, <3>2 DEF IsBest
      <4>2. BestOf(Old) = b
        BY <1>6, <4>1, BestIsOne
      <4> QED
        BY <1>7, <3>2, <4>2
    <3> QED
      BY <1>2, <2>1, <3>1, <3>2 DEF IsBest
  <2> HIDE DEF b
  <2>4. IsBest(b, rows)
    BY <2>1, <2>2, <2>3 DEF IsBest
  <2>5. rows \in SUBSET Alfred
    BY <1>6, <2>2
  <2> QED
    BY <2>4, <2>5, BestIsOne DEF b
<1>11. InForce(S, s, day) = IF All = {} THEN {} ELSE {BestOf(All)}
  BY DEF InForce, All
<1> QED
  BY <1>8, <1>9, <1>10, <1>11

\* The walk carries the row in force, on every day: its least day that did not
\* would follow one that did.
LEMMA WalkCarriesBest ==
  ASSUME NEW S \in SUBSET Alfred, NEW W, Walks(S, W)
  PROVE  \A day \in 0..MacroDays : \A s \in Panel(S) : W[day][s] = InForce(S, s, day)
<1>0. MacroDays \in Nat
  BY MacroAssumption
<1> DEFINE Fails == {d \in 0..MacroDays : \E s \in Panel(S) : W[d][s] # InForce(S, s, d)}
<1> SUFFICES ASSUME Fails # {} PROVE FALSE
  OBVIOUS
<1>1. PICK d \in Fails : \A e \in Fails : d <= e
  <2>1. Fails \in SUBSET Nat
    BY <1>0
  <2> QED
    BY <2>1, LeastNumber
<1>2. PICK s \in Panel(S) : W[d][s] # InForce(S, s, d)
  BY <1>1
<1>3. d \in 0..MacroDays /\ d \in Nat
  BY <1>0
<1>4. CASE d = 0
  <2>1. W[0][s] = {}
    BY <1>3, <1>4 DEF Walks
  <2> QED
    BY <1>2, <1>4, <2>1, NothingOnDayZero
<1>5. CASE d # 0
  <2>1. d > 0 /\ d - 1 \in 0..MacroDays /\ d - 1 \notin Fails
    BY <1>0, <1>1, <1>3, <1>5
  <2>2. W[d - 1][s] = InForce(S, s, d - 1)
    BY <2>1
  <2>3. W[d] = [t \in Panel(S) |-> Next1(S, t, d, W[d - 1][t])]
    BY <1>3, <1>5 DEF Walks
  <2> QED
    BY <1>2, <1>3, <2>1, <2>2, <2>3, DayAdds
<1> QED
  BY <1>4, <1>5

LEMMA SomethingWalks ==
  ASSUME NEW S \in SUBSET Alfred PROVE \E W : Walks(S, W)
<1> DEFINE W == [day \in 0..MacroDays |-> [s \in Panel(S) |-> InForce(S, s, day)]]
<1>0. MacroDays \in Nat
  BY MacroAssumption
<1>1. ASSUME NEW day \in 0..MacroDays
      PROVE  W[day] = IF day = 0 THEN [s \in Panel(S) |-> {}]
                      ELSE [s \in Panel(S) |-> Next1(S, s, day, W[day - 1][s])]
  <2>1. CASE day = 0
    BY <2>1, NothingOnDayZero
  <2>2. CASE day # 0
    <3>1. day \in Nat /\ day > 0 /\ day - 1 \in 0..MacroDays
      BY <1>0, <2>2
    <3>2. \A s \in Panel(S) : W[day - 1][s] = InForce(S, s, day - 1)
      BY <3>1
    <3>3. \A s \in Panel(S) : Next1(S, s, day, W[day - 1][s]) = InForce(S, s, day)
      BY <3>1, <3>2, DayAdds
    <3> QED
      BY <2>2, <3>3
  <2> QED
    BY <2>1, <2>2
<1>2. Walks(S, W)
  BY <1>1 DEF Walks
<1> QED
  BY <1>2

\* regime_history answers for a day what as_of does.
LEMMA HistoryIsAsOf ==
  ASSUME NEW S \in SUBSET Alfred, NEW day \in 1..MacroDays
  PROVE  RegimeHistory(S)[day] = RegimeOn(S, day)
<1> DEFINE W == CHOOSE W : Walks(S, W)
           ValueOf(held) == IF held = {} THEN Missing ELSE (CHOOSE o \in held : TRUE).value
<1>0. MacroDays \in Nat /\ day \in Nat /\ day \in 0..MacroDays
  BY MacroAssumption
<1>1. RegimeHistory(S) = [d \in 1..MacroDays |-> RegimeOf([s \in Panel(S) |-> ValueOf(W[d][s])])]
  BY Zenon DEF RegimeHistory, Walks, Next1
<1>2. Walks(S, W)
  <2>1. \E V : Walks(S, V)
    BY SomethingWalks
  <2> QED
    BY <2>1, Zenon
<1> HIDE DEF W
<1>3. \A s \in Panel(S) : W[day][s] = InForce(S, s, day)
  BY <1>0, <1>2, WalkCarriesBest
<1>4. \A s \in Panel(S) : ValueOf(W[day][s]) = AsOf(S, day)[s]
  <2> TAKE s \in Panel(S)
  <2>1. CASE Visible(S, s, day) = {}
    BY <1>0, <1>3, <2>1, AsOfReadsBest DEF InForce
  <2>2. CASE Visible(S, s, day) # {}
    <3>1. W[day][s] = {BestOf(Visible(S, s, day))}
      BY <1>3, <2>2 DEF InForce
    <3>2. ValueOf(W[day][s]) = BestOf(Visible(S, s, day)).value
      BY <3>1
    <3> QED
      BY <1>0, <2>2, <3>2, AsOfReadsBest
  <2> QED
    BY <2>1, <2>2
<1>5. AsOf(S, day) = [s \in Panel(S) |-> AsOf(S, day)[s]]
  BY DEF AsOf
<1>6. [s \in Panel(S) |-> ValueOf(W[day][s])] = AsOf(S, day)
  BY <1>4, <1>5
<1>7. RegimeHistory(S)[day] = RegimeOf([s \in Panel(S) |-> ValueOf(W[day][s])])
  BY <1>1
<1> QED
  BY <1>6, <1>7 DEF RegimeOn

-----------------------------------------------------------------------------
(* The backfill                                                            *)

\* Of the series being fetched, what the windows behind it held; once the last
\* one answered, everything public that day.
FetchedSoFar ==
  LET b == backfill
      cur == SeriesOrder[b.series]
  IN  /\ b.pc # "idle" => b.series \in 1..Len(SeriesOrder)
      /\ b.pc = "fetch" =>
           /\ b.slice \in 1..Len(Slices)
           /\ \A i \in 1..(b.slice - 1) : \A o \in Alfred :
                o.series = cur /\ o.vintage # Never /\ InWindow(o, Slices[i]) => o \in b.rows
      /\ b.pc = "save" =>
           /\ b.through \in 1..macroDay
           /\ Visible(Alfred, cur, b.through) \subseteq b.rows

\* A series is stored whole up to the day its last window was fetched.
StoredWhole ==
  /\ DOMAIN filledTo = AllSeries
  /\ \A s \in AllSeries : /\ filledTo[s] \in 0..macroDay
                          /\ Visible(Alfred, s, filledTo[s]) \subseteq panel

FillInv == MacroShapes /\ FetchedSoFar /\ StoredWhole

LEMMA DaysAreNumbers ==
  ASSUME MacroShapes
  PROVE  macroDay \in Nat \ {0} /\ macroDay < Never /\ MacroDays \in Nat /\ Never \in Nat
  BY MacroAssumption DEF MacroShapes, Never

LEMMA FillInitInv == MacroInit => FillInv
<1> SUFFICES ASSUME MacroInit PROVE FillInv
  OBVIOUS
<1>1. MacroShapes
  BY MacroInitInv DEF MacroInv
<1>2. FetchedSoFar
  BY DEF MacroInit, NoBackfill, FetchedSoFar
<1>3. \A s \in AllSeries : Visible(Alfred, s, 0) = {}
  BY MacroAssumption DEF Visible
<1>4. StoredWhole
  BY <1>3 DEF MacroInit, StoredWhole
<1> QED
  BY <1>1, <1>2, <1>4 DEF FillInv

\* A backfill that starts a series, or none.
LEMMA FreshBackfillHolds ==
  ASSUME NEW n \in 1..Len(SeriesOrder),
         \/ backfill' = NoBackfill
         \/ backfill'.pc = "fetch" /\ backfill'.series = n /\ backfill'.slice = 1
  PROVE  FetchedSoFar'
<1>1. CASE backfill' = NoBackfill
  BY <1>1 DEF NoBackfill, FetchedSoFar
<1>2. CASE backfill'.pc = "fetch" /\ backfill'.series = n /\ backfill'.slice = 1
  <2>1. 1 \in 1..Len(Slices) /\ 1..(1 - 1) = {}
    BY MacroAssumption
  <2> QED
    BY <1>2, <2>1 DEF FetchedSoFar
<1> QED
  BY <1>1, <1>2

LEMMA NextSeriesHolds ==
  ASSUME FillInv, backfill.pc # "idle", backfill' = NextSeries
  PROVE  FetchedSoFar'
<1>1. backfill.series \in 1..Len(SeriesOrder) /\ 1 \in 1..Len(SeriesOrder)
  BY MacroAssumption DEF FillInv, FetchedSoFar
<1>2. CASE backfill.series = Len(SeriesOrder)
  BY <1>1, <1>2, FreshBackfillHolds DEF NextSeries
<1>3. CASE backfill.series # Len(SeriesOrder)
  <2>1. backfill.series + 1 \in 1..Len(SeriesOrder)
    BY <1>1, <1>3, MacroAssumption
  <2>2. backfill'.pc = "fetch" /\ backfill'.series = backfill.series + 1 /\ backfill'.slice = 1
    BY <1>3 DEF NextSeries, NoBackfill
  <2> QED
    BY <2>1, <2>2, FreshBackfillHolds
<1> QED
  BY <1>2, <1>3

LEMMA FetchHolds ==
  ASSUME FillInv, FetchSlice
  PROVE  FetchedSoFar'
<1> DEFINE b == backfill
           cur == SeriesOrder[b.series]
<1>0. MacroShapes /\ FetchedSoFar /\ b.pc = "fetch" /\ macroDay' = macroDay
  BY DEF FillInv, FetchSlice
<1>1. PICK page :
        /\ backfill' = [backfill EXCEPT !.rows = @ \union page, !.slice = @ + 1, !.through = macroDay,
                               !.pc = IF backfill.slice = Len(Slices) THEN "save" ELSE "fetch"]
        /\ page = {o \in Alfred : /\ o.series = SeriesOrder[backfill.series]
                                  /\ o.vintage = Never \/ o.vintage <= macroDay
                                  /\ o.period <= macroDay
                                  /\ IF o.vintage = Never THEN backfill.slice = 1
                                     ELSE InWindow(o, Slices[backfill.slice])}
  BY Zenon DEF FetchSlice
<1>2. /\ backfill'.rows = b.rows \union page /\ backfill'.slice = b.slice + 1
      /\ backfill'.through = macroDay /\ backfill'.series = b.series
      /\ backfill'.pc = IF b.slice = Len(Slices) THEN "save" ELSE "fetch"
  BY <1>0, <1>1 DEF MacroShapes, Backfills
<1>3. /\ b.series \in 1..Len(SeriesOrder) /\ b.slice \in 1..Len(Slices)
      /\ \A i \in 1..(b.slice - 1) : \A o \in Alfred :
           o.series = cur /\ o.vintage # Never /\ InWindow(o, Slices[i]) => o \in b.rows
  BY <1>0 DEF FetchedSoFar
<1>4. ASSUME NEW o \in Alfred, o.series = cur, o.vintage # Never, o.vintage <= macroDay,
             o.period <= macroDay, InWindow(o, Slices[b.slice])
      PROVE  o \in page
  BY <1>1, <1>4
<1>5. macroDay \in Nat \ {0} /\ macroDay < Never /\ Len(Slices) \in Nat
  BY <1>0, DaysAreNumbers, MacroAssumption
<1> HIDE DEF b, cur
<1>6. CASE b.slice # Len(Slices)
  <2>1. b.slice \in 1..(Len(Slices) - 1) /\ b.slice + 1 \in 1..Len(Slices)
    BY <1>3, <1>5, <1>6
  <2>2. ASSUME NEW i \in 1..b.slice, NEW o \in Alfred, o.series = cur, o.vintage # Never,
               InWindow(o, Slices[i])
        PROVE  o \in b.rows \union page
    <3>1. CASE i # b.slice
      <4>1. i \in 1..(b.slice - 1)
        BY <1>3, <1>5, <3>1
      <4> QED
        BY <1>3, <2>2, <4>1
    <3>2. CASE i = b.slice
      <4>1. o.vintage <= 1 /\ o.period <= 1
        BY <2>1, <2>2, <3>2, MacroAssumption
      <4>2. o.vintage <= macroDay /\ o.period <= macroDay
        BY <1>5, <4>1, MacroAssumption
      <4> QED
        BY <1>4, <2>2, <3>2, <4>2
    <3> QED
      BY <3>1, <3>2
  <2>3. (b.slice + 1) - 1 = b.slice
    BY <2>1
  <2> QED
    BY <1>2, <1>3, <1>6, <2>1, <2>2, <2>3 DEF FetchedSoFar, b, cur
<1>7. CASE b.slice = Len(Slices)
  <2>1. ASSUME NEW o \in Visible(Alfred, cur, macroDay)
        PROVE  o \in b.rows \union page
    <3>1. o \in Alfred /\ o.series = cur /\ o.period <= macroDay /\ o.vintage <= macroDay
      BY DEF Visible
    <3>2. o.vintage # Never
      BY <1>5, <3>1, MacroAssumption
    <3>3. PICK i \in 1..Len(Slices) : InWindow(o, Slices[i])
      BY <3>1, <3>2, MacroAssumption
    <3>4. CASE i = b.slice
      BY <1>4, <3>1, <3>2, <3>3, <3>4
    <3>5. CASE i # b.slice
      <4>1. i \in 1..(b.slice - 1)
        BY <1>3, <1>5, <1>7, <3>5
      <4> QED
        BY <1>3, <3>1, <3>2, <3>3, <4>1
    <3> QED
      BY <3>4, <3>5
  <2>2. macroDay \in 1..macroDay
    BY <1>5
  <2> QED
    BY <1>0, <1>2, <1>3, <1>7, <2>1, <2>2 DEF FetchedSoFar, b, cur
<1> QED
  BY <1>6, <1>7

LEMMA SaveHolds ==
  ASSUME FillInv, SaveSeries
  PROVE  StoredWhole'
<1> DEFINE rows == backfill.rows
           cur == SeriesOrder[backfill.series]
           t == backfill.through
<1>1. /\ MacroShapes /\ StoredWhole /\ backfill.pc = "save" /\ macroDay' = macroDay
      /\ rows \in SUBSET Alfred /\ panel \in SUBSET Alfred
      /\ t \in 1..macroDay /\ Visible(Alfred, cur, t) \subseteq rows
  BY DEF FillInv, SaveSeries, MacroShapes, Backfills, FetchedSoFar
<1>2. cur \in AllSeries
  BY <1>1, MacroAssumption DEF FillInv, FetchedSoFar, AllSeries
<1>3. /\ panel' = {o \in panel : \A p \in rows : ~SameKey(o, p)} \union rows
      /\ filledTo' = [filledTo EXCEPT ![cur] = t]
  BY DEF SaveSeries
<1> HIDE DEF rows, cur, t
<1>4. \A o \in panel : \A p \in rows : SameKey(o, p) => o = p
  BY <1>1, MacroAssumption DEF SameKey
<1>5. panel \subseteq panel' /\ rows \subseteq panel'
  BY <1>3, <1>4
<1>6. /\ DOMAIN filledTo' = AllSeries /\ filledTo'[cur] = t
      /\ \A s \in AllSeries : s # cur => filledTo'[s] = filledTo[s]
  BY <1>1, <1>2, <1>3 DEF StoredWhole
<1>7. t \in 0..macroDay
  BY <1>1, DaysAreNumbers
<1> QED
  BY <1>1, <1>5, <1>6, <1>7 DEF StoredWhole

LEMMA FillStepKeeps ==
  ASSUME MacroInv, FillInv, [MacroNext]_macroVars
  PROVE  FillInv'
<1>0. /\ MacroShapes' /\ MacroShapes /\ FetchedSoFar /\ StoredWhole
      /\ 1 \in 1..Len(SeriesOrder)
  BY MacroStepKeeps, MacroAssumption DEF MacroInv, FillInv
<1>1. ASSUME UNCHANGED <<backfill, macroDay>> PROVE FetchedSoFar'
  BY <1>0, <1>1 DEF FetchedSoFar
<1>2. ASSUME UNCHANGED <<panel, filledTo, macroDay>> PROVE StoredWhole'
  BY <1>0, <1>2 DEF StoredWhole
<1>3. ASSUME MacroTick PROVE FetchedSoFar' /\ StoredWhole'
  <2>1. macroDay' = macroDay + 1 /\ UNCHANGED <<panel, backfill, filledTo>>
    BY <1>3 DEF MacroTick
  <2>2. \A n \in 0..macroDay : n \in 0..macroDay'
    BY <1>0, <2>1, DaysAreNumbers
  <2>3. \A n \in 1..macroDay : n \in 1..macroDay'
    BY <1>0, <2>1, DaysAreNumbers
  <2> QED
    BY <1>0, <2>1, <2>2, <2>3 DEF FetchedSoFar, StoredWhole
<1>4. ASSUME PostBackfill PROVE FetchedSoFar'
  <2>1. backfill'.pc = "fetch" /\ backfill'.series = 1 /\ backfill'.slice = 1
    BY <1>4 DEF PostBackfill, NoBackfill
  <2> QED
    BY <1>0, <2>1, FreshBackfillHolds
<1>5. ASSUME SliceFails \/ SaveSeries PROVE FetchedSoFar'
  BY <1>5, NextSeriesHolds DEF SliceFails, SaveSeries
<1>6. ASSUME SaveSeriesFails \/ MacroCrash PROVE FetchedSoFar'
  BY <1>0, <1>6, FreshBackfillHolds DEF SaveSeriesFails, MacroCrash
<1>7. FetchedSoFar'
  BY <1>1, <1>3, <1>4, <1>5, <1>6, FetchHolds
     DEF MacroNext, macroVars, macroState, BeginRefresh, Reclassify, PublishMacroUpdated,
         PublishRegimeChanged, RefreshFails
<1>8. StoredWhole'
  BY <1>2, <1>3, SaveHolds
     DEF MacroNext, macroVars, macroState, PostBackfill, FetchSlice, SliceFails, SaveSeriesFails,
         BeginRefresh, Reclassify, PublishMacroUpdated, PublishRegimeChanged, RefreshFails, MacroCrash
<1> QED
  BY <1>0, <1>7, <1>8 DEF FillInv

LEMMA PanelIsHonestThen == FillInv => PanelIsHonest
<1> SUFFICES ASSUME FillInv, NEW s \in AllSeries, NEW day \in 1..filledTo[s]
             PROVE  AsOf(panel, day)[s] = AsOf({o \in Alfred : o.series = s}, day)[s]
  BY DEF PanelIsHonest
<1> DEFINE S == {o \in Alfred : o.series = s}
<1>1. panel \in SUBSET Alfred /\ S \in SUBSET Alfred
  BY DEF FillInv, MacroShapes
<1>2. filledTo[s] \in Nat /\ day \in Nat /\ day <= filledTo[s]
  BY DaysAreNumbers DEF FillInv, StoredWhole
<1>3. Visible(Alfred, s, day) \subseteq Visible(Alfred, s, filledTo[s])
  <2> SUFFICES ASSUME NEW o \in Alfred, o.period <= day, o.vintage <= day
               PROVE  o.period <= filledTo[s] /\ o.vintage <= filledTo[s]
    BY DEF Visible
  <2> QED
    BY <1>2, MacroAssumption
<1>4. Visible(Alfred, s, day) \subseteq panel
  BY <1>3 DEF FillInv, StoredWhole
<1>5. Visible(panel, s, day) = Visible(S, s, day)
  BY <1>1, <1>4 DEF Visible
<1>6. s \in Panel(panel) /\ s \in Panel(S)
  BY DEF Panel
<1> QED
  BY <1>1, <1>2, <1>5, <1>6, AsOfReadsBest

-----------------------------------------------------------------------------
(* What a statement rests on                                               *)

Dated(x) == x \in Nat \union {Missing}

LEMMA KnownDates == \A x : Dated(x) /\ Known(x) => x \in Nat
  BY DEF Dated, Known

\* The one fact a field of a statement is read from.
LEMMA ObservedIsAFact ==
  ASSUME NEW facts \in SUBSET Facts, NEW field, NEW p,
         {f \in facts : f.field = field /\ f.period = p} # {}
  PROVE  \E o \in facts : o.field = field /\ o.period = p /\ Observed(facts, field, p) = {o}
<1> DEFINE reports == {f \in facts : f.field = field /\ f.period = p}
           best == {f \in reports : \A g \in reports : f.tag <= g.tag}
           dated == {f \in best : Known(f.filed)}
           X == IF dated = {} THEN best ELSE dated
<1>1. Observed(facts, field, p) = {FirstKnown(X)}
  BY DEF Observed
<1>2. best # {}
  <2> DEFINE T == {f.tag : f \in reports}
  <2>1. T \in SUBSET Nat /\ T # {}
    BY FundAssumption
  <2>2. PICK n \in T : \A m \in T : n <= m
    BY <2>1, LeastNumber
  <2>3. PICK f \in reports : f.tag = n
    OBVIOUS
  <2>4. f \in best
    BY <2>2, <2>3
  <2> QED
    BY <2>4
<1>3. X # {} /\ X \subseteq reports
  BY <1>2
<1>4. \E f \in X : \A g \in X : Known(f.filed) /\ Known(g.filed) => f.filed <= g.filed
  <2>1. CASE dated = {}
    BY <1>3, <2>1
  <2>2. CASE dated # {}
    <3> DEFINE D == {f.filed : f \in dated}
    <3>1. D \in SUBSET Nat /\ D # {}
      BY <2>2, FundAssumption, KnownDates DEF Dated
    <3>2. PICK n \in D : \A m \in D : n <= m
      BY <3>1, LeastNumber
    <3>3. PICK f \in dated : f.filed = n
      OBVIOUS
    <3>4. \A g \in dated : f.filed <= g.filed
      BY <3>2, <3>3
    <3> QED
      BY <2>2, <3>3, <3>4
  <2> QED
    BY <2>1, <2>2
<1> HIDE DEF X
<1>5. FirstKnown(X) \in X
  BY <1>4 DEF FirstKnown
<1> QED
  BY <1>1, <1>3, <1>5

LEMMA NothingObserved ==
  ASSUME NEW facts, NEW field, NEW p, {f \in facts : f.field = field /\ f.period = p} = {}
  PROVE  Observed(facts, field, p) = {}
  BY DEF Observed

LEMMA StatementParts ==
  ASSUME NEW facts, NEW p
  PROVE  LET s == StatementOf(facts, p)
         IN  /\ s.period = p /\ s.score = Missing
             /\ s.filed = StatementFiledAt(UNION {Observed(facts, f, p) : f \in Fields})
             /\ \A f \in Fields : s.v[f] = IF Observed(facts, f, p) = {} THEN Missing
                                           ELSE (CHOOSE o \in Observed(facts, f, p) : TRUE).value
             /\ DOMAIN s = DOMAIN NoStatement
<1> DEFINE obs == [f \in Fields |-> Observed(facts, f, p)]
<1>1. {obs[f] : f \in Fields} = {Observed(facts, f, p) : f \in Fields}
  OBVIOUS
<1> QED
  BY <1>1 DEF StatementOf, NoStatement

\* Every number of the statement was filed by its date.
NotEarly(s) ==
  Known(s.filed) =>
    \A f \in Fields : Known(s.v[f]) =>
      \E x \in Facts : /\ x.period = s.period /\ x.field = f /\ x.value = s.v[f]
                       /\ Known(x.filed) /\ x.filed <= s.filed

\* What is public today dates a statement of it at the latest today.
LEMMA StatementIsDated ==
  ASSUME FundShapes, NEW p, \E f \in PublicFacts : f.period = p
  PROVE  LET s == StatementOf(PublicFacts, p)
         IN  Dated(s.filed) /\ (Known(s.filed) => s.filed <= fundDay) /\ NotEarly(s)
<1> DEFINE s == StatementOf(PublicFacts, p)
           obs == UNION {Observed(PublicFacts, f, p) : f \in Fields}
           D == {o.filed : o \in obs}
<1>1. PublicFacts \in SUBSET Facts
  BY DEF PublicFacts
<1>2. \A f \in Fields : Observed(PublicFacts, f, p) = {} \/
        \E o \in PublicFacts : o.field = f /\ o.period = p /\ Observed(PublicFacts, f, p) = {o}
  BY <1>1, ObservedIsAFact, NothingObserved
<1>3. \A o \in obs : o \in PublicFacts
  BY <1>2
<1>4. s.filed = StatementFiledAt(obs)
  BY StatementParts
<1>5. CASE Missing \in D
  <2>1. s.filed = Missing
    BY <1>4, <1>5 DEF StatementFiledAt
  <2> QED
    BY <2>1 DEF Dated, Known, NotEarly
<1>6. CASE Missing \notin D
  <2>1. fundDay \in Nat
    BY FundAssumption DEF FundShapes
  <2>2. \A o \in obs : o.filed \in Nat /\ o.filed <= fundDay /\ Known(o.filed)
    <3> TAKE o \in obs
    <3>1. o \in Facts /\ o.filed # Missing
      BY <1>1, <1>3, <1>6
    <3> QED
      BY <1>3, <3>1, FundAssumption DEF PublicFacts, Known
  <2>3. obs # {}
    <3>1. PICK x \in PublicFacts : x.period = p
      OBVIOUS
    <3>2. x.field \in Fields /\ {f \in PublicFacts : f.field = x.field /\ f.period = p} # {}
      BY <1>1, <3>1, FundAssumption
    <3>3. Observed(PublicFacts, x.field, p) # {}
      BY <1>1, <3>2, ObservedIsAFact
    <3> QED
      BY <3>2, <3>3
  <2>4. D \in SUBSET Nat /\ D # {} /\ \A n \in D : n <= fundDay
    BY <2>2, <2>3
  <2>5. IsFiniteSet(D)
    BY <2>1, <2>4, FS_BoundedSetOfNaturals
  <2>6. \E x \in D : \A y \in D : x >= y
    BY <2>4, <2>5, FiniteSetsHaveGreatest DEF HasGreatest
  <2>7. s.filed = MaxOf(D)
    BY <1>4, <1>6 DEF StatementFiledAt
  <2> HIDE DEF D, obs
  <2>8. s.filed \in D /\ \A y \in D : s.filed >= y
    BY <2>6, <2>7 DEF MaxOf
  <2>9. s.filed \in Nat /\ s.filed <= fundDay
    BY <2>4, <2>8
  <2>10. NotEarly(s)
    <3> SUFFICES ASSUME NEW f \in Fields, Known(s.v[f])
                 PROVE  \E x \in Facts : /\ x.period = s.period /\ x.field = f /\ x.value = s.v[f]
                                         /\ Known(x.filed) /\ x.filed <= s.filed
      BY DEF NotEarly
    <3>1. /\ s.period = p
          /\ s.v[f] = IF Observed(PublicFacts, f, p) = {} THEN Missing
                      ELSE (CHOOSE o \in Observed(PublicFacts, f, p) : TRUE).value
      BY DEF StatementOf
    <3>2. Observed(PublicFacts, f, p) # {}
      BY <3>1 DEF Known
    <3>3. PICK o \in PublicFacts : o.field = f /\ o.period = p /\ Observed(PublicFacts, f, p) = {o}
      BY <1>2, <3>2
    <3>4. o \in obs /\ o.filed \in D
      BY <3>3 DEF obs, D
    <3>5. s.v[f] = o.value
      BY <3>1, <3>3
    <3>6. o.filed \in Nat /\ o.filed <= s.filed
      BY <2>2, <2>8, <2>9, <3>4
    <3> QED
      BY <1>1, <2>2, <3>1, <3>3, <3>4, <3>5, <3>6
  <2> QED
    BY <2>9, <2>10 DEF Dated
<1> QED
  BY <1>5, <1>6

\* A statement reads the facts of its period and no others.
LEMMA StatementReads ==
  ASSUME NEW facts, NEW others, NEW p,
         {f \in facts : f.period = p} = {f \in others : f.period = p}
  PROVE  StatementOf(facts, p) = StatementOf(others, p)
<1>1. \A field : {f \in facts : f.field = field /\ f.period = p}
                   = {f \in others : f.field = field /\ f.period = p}
  OBVIOUS
<1>2. \A field : Observed(facts, field, p) = Observed(others, field, p)
  BY <1>1 DEF Observed
<1> DEFINE obs(X) == [f \in Fields |-> Observed(X, f, p)]
           Built(o) == [period |-> p, score |-> Missing,
                        filed |-> StatementFiledAt(UNION {o[f] : f \in Fields}),
                        v |-> [f \in Fields |-> IF o[f] = {} THEN Missing
                                                ELSE (CHOOSE x \in o[f] : TRUE).value]]
<1>3. obs(facts) = obs(others)
  BY <1>2
<1>4. StatementOf(facts, p) = Built(obs(facts)) /\ StatementOf(others, p) = Built(obs(others))
  BY Zenon DEF StatementOf
<1> HIDE DEF obs, Built
<1> QED
  BY <1>3, <1>4

-----------------------------------------------------------------------------
(* What a score rests on                                                   *)

LEMMA ScoreReadsNumbers ==
  ASSUME NEW s, NEW t, s.v = t.v, NEW p
  PROVE  ComputeFScore(s, p) = ComputeFScore(t, p)
<1>1. \A a, b : /\ Improves(s, p, a, b) <=> Improves(t, p, a, b)
                /\ Eases(s, p, a, b) <=> Eases(t, p, a, b)
  BY DEF Improves, Eases, BothHave
<1>2. FScoreSignals(s, p) = FScoreSignals(t, p)
  BY <1>1 DEF FScoreSignals
<1> QED
  BY <1>2 DEF ComputeFScore

\* The statement of the year before, as all the facts there will be give it.
Predecessor(p) ==
  LET below == {f.period : f \in {g \in Facts : g.period < p}}
  IN  IF below = {} THEN NoStatement ELSE StatementOf(Facts, MaxOf(below))

\* The cut at count years leaves the year before p.
KeepsPrior(facts, count, p) ==
  \A q \in {f.period : f \in facts} :
    q < p /\ (\A r \in {f.period : f \in facts} : r < p => q >= r)
      => Cardinality({r \in {f.period : f \in facts} : r > q}) < count

\* Once every fact of the years before is among them, a set of facts that keeps
\* the last of those years gives the predecessor.
LEMMA PriorIsPredecessor ==
  ASSUME NEW facts \in SUBSET Facts, NEW count, NEW p \in Nat, NEW s, s.period = p,
         {f \in facts : f.period < p} = {f \in Facts : f.period < p},
         KeepsPrior(facts, count, p)
  PROVE  PriorOf(LatestStatements(facts, count), s) = Predecessor(p)
<1> DEFINE P == {f.period : f \in facts}
           Kept == {q \in P : Cardinality({r \in P : r > q}) < count}
           LS == LatestStatements(facts, count)
           older == {t \in LS : t.period < p}
           below == {f.period : f \in {g \in Facts : g.period < p}}
<1>1. LS = {StatementOf(facts, q) : q \in Kept}
  BY DEF LatestStatements
<1>2. below = {q \in P : q < p}
  <2>1. below = {f.period : f \in {g \in facts : g.period < p}}
    OBVIOUS
  <2> QED
    BY <2>1
<1>3. \A q : StatementOf(facts, q).period = q
  BY StatementPeriod
<1>4. P \in SUBSET Nat
  BY FundAssumption
<1>5. below \in SUBSET Nat /\ IsFiniteSet(below)
  <2>1. below \in SUBSET Periods
    BY FundAssumption
  <2> QED
    BY <2>1, FundAssumption, FS_Subset
<1>6. \A q \in P : q < p /\ (\A r \in P : r < p => q >= r) => q \in Kept
  BY DEF KeepsPrior
<1>7. PriorOf(LS, s) = IF older = {} THEN NoStatement
                       ELSE CHOOSE t \in older : \A u \in older : t.period >= u.period
  BY DEF PriorOf
<1>8. Predecessor(p) = IF below = {} THEN NoStatement ELSE StatementOf(Facts, MaxOf(below))
  BY DEF Predecessor
<1>9. Kept \subseteq P
  OBVIOUS
<1>10. \A q \in below : {f \in facts : f.period = q} = {f \in Facts : f.period = q}
  OBVIOUS
<1>13. \A t : t \in older <=> t \in LS /\ t.period < p
  OBVIOUS
<1> HIDE DEF P, Kept, LS, below, older
<1>11. CASE below = {}
  <2>1. older = {}
    BY <1>1, <1>2, <1>3, <1>9, <1>11, <1>13
  <2> QED
    BY <1>7, <1>8, <1>11, <2>1 DEF LS
<1>12. CASE below # {}
  <2> DEFINE m == MaxOf(below)
  <2>1. m \in below /\ \A q \in below : m >= q
    BY <1>5, <1>12, FiniteSetsHaveGreatest DEF HasGreatest, MaxOf
  <2> HIDE DEF m
  <2> DEFINE b == StatementOf(facts, m)
  <2>2. m \in Kept /\ m < p
    BY <1>2, <1>6, <2>1
  <2>3. b \in LS /\ b.period = m
    BY <1>1, <1>3, <2>2
  <2>4. b \in older
    BY <1>13, <2>2, <2>3
  <2>5. \A t \in older : t.period \in below /\ t = StatementOf(facts, t.period)
    BY <1>1, <1>2, <1>3, <1>9, <1>13
  <2> HIDE DEF b
  <2>6. \A u \in older : b.period >= u.period
    BY <2>1, <2>3, <2>5
  <2>7. \A t \in older : (\A u \in older : t.period >= u.period) => t.period = m
    <3> TAKE t \in older
    <3> HAVE \A u \in older : t.period >= u.period
    <3>1. t.period >= m /\ m >= t.period
      BY <2>1, <2>3, <2>4, <2>5
    <3>2. t.period \in Nat /\ m \in Nat
      BY <1>5, <2>1, <2>5
    <3> QED
      BY <3>1, <3>2
  <2>8. \A t \in older : (\A u \in older : t.period >= u.period) => t = b
    BY <2>5, <2>7 DEF b
  <2>9. PriorOf(LS, s) = b
    BY <1>7, <2>4, <2>6, <2>8
  <2>10. b = StatementOf(Facts, m)
    BY <1>10, <2>1, StatementReads DEF b
  <2> QED
    BY <1>8, <1>12, <2>9, <2>10 DEF m, LS
<1> QED
  BY <1>11, <1>12

\* Every fact of the years before was filed by the statement's date.
Settled(s) == \A f \in Facts : f.period < s.period => Known(f.filed) /\ f.filed <= s.filed

\* A filer of more than 24 fiscal years is scored without the year before its
\* oldest kept one.
ScoreHolds(s) ==
  Cardinality(Periods) <= 24 /\ Known(s.filed) /\ Known(s.score) /\ Settled(s)
    => s.score = ComputeFScore(s, Predecessor(s.period))

Sound(s) == NotEarly(s) /\ ScoreHolds(s)

LEMMA ScoredParts ==
  ASSUME NEW s, DOMAIN s = DOMAIN NoStatement, NEW prior
  PROVE  LET x == Scored(s, prior)
         IN  /\ x.period = s.period /\ x.filed = s.filed /\ x.v = s.v
             /\ x.score = ComputeFScore(s, prior)
  BY DEF Scored, NoStatement

\* No more than 24 years, and the cut at 24 leaves them all.
LEMMA FewerYearsKeepPrior ==
  ASSUME NEW facts \in SUBSET Facts, NEW p, Cardinality(Periods) <= 24
  PROVE  KeepsPrior(facts, 24, p)
<1> DEFINE P == {f.period : f \in facts}
<1>1. P \subseteq Periods
  BY FundAssumption
<1>2. ASSUME NEW q \in P PROVE Cardinality({r \in P : r > q}) < 24
  <2> DEFINE R == {r \in P : r > q}
  <2>1. R \subseteq Periods \ {q} /\ q \in Periods
    <3>1. P \subseteq Nat
      BY <1>1, FundAssumption
    <3>2. q \in Nat /\ ~(q > q)
      BY <1>2, <3>1
    <3>3. q \notin R
      BY <3>2
    <3> QED
      BY <1>1, <3>3
  <2>2. IsFiniteSet(Periods \ {q}) /\ Cardinality(Periods \ {q}) = Cardinality(Periods) - 1
        /\ Cardinality(Periods) \in Nat
    BY <2>1, FundAssumption, FS_RemoveElement, FS_CardinalityType
  <2>3. Cardinality(R) <= Cardinality(Periods \ {q}) /\ Cardinality(R) \in Nat
    BY <2>1, <2>2, FS_Subset, FS_CardinalityType
  <2> QED
    BY <2>2, <2>3
<1> QED
  BY <1>2 DEF KeepsPrior

\* The two newest years hold the one before the newest.
LEMMA NewestKeepsPrior ==
  ASSUME NEW facts \in SUBSET Facts, LatestStatements(facts, 2) # {}
  PROVE  KeepsPrior(facts, 2, Newest(LatestStatements(facts, 2)).period)
<1> DEFINE P == {f.period : f \in facts}
           Kept == {q \in P : Cardinality({r \in P : r > q}) < 2}
           S == LatestStatements(facts, 2)
           p == Newest(S).period
<1>1. P \in SUBSET Nat /\ IsFiniteSet(P)
  <2>1. P \in SUBSET Periods
    BY FundAssumption
  <2> QED
    BY <2>1, FundAssumption, FS_Subset
<1>2. S = {StatementOf(facts, q) : q \in Kept}
  BY DEF LatestStatements
<1>3. Newest(S) \in S /\ \A t \in S : p >= t.period
  BY LatestAreYearly, NewestIsOne
<1>4. Kept \subseteq P
  OBVIOUS
<1> HIDE DEF P, Kept, S
<1>5. p \in Kept /\ p \in P
  BY <1>2, <1>3, <1>4, StatementPeriod
<1>6. PICK m \in P : \A n \in P : m >= n
  BY <1>1, <1>5, FiniteSetsHaveGreatest DEF HasGreatest
<1>7. m \in Kept
  <2>0. \A r \in P : ~(r > m)
    BY <1>1, <1>6
  <2>1. {r \in P : r > m} = {}
    BY <2>0
  <2>2. Cardinality({r \in P : r > m}) = 0
    BY <2>1, FS_EmptySet
  <2> QED
    BY <1>6, <2>2 DEF Kept
<1>8. p = m
  <2>1. StatementOf(facts, m) \in S /\ StatementOf(facts, m).period = m
    BY <1>2, <1>7, StatementPeriod
  <2>2. p >= m /\ m >= p
    BY <1>3, <1>5, <1>6, <2>1
  <2> HIDE DEF p
  <2>3. p \in Nat /\ m \in Nat
    BY <1>1, <1>5, <1>6
  <2> QED
    BY <2>2, <2>3
<1>9. ASSUME NEW q \in P, q < p, \A r \in P : r < p => q >= r
      PROVE  Cardinality({r \in P : r > q}) < 2
  <2> HIDE DEF p
  <2>1. \A r \in P : r > q <=> r = p
    <3> TAKE r \in P
    <3>1. r \in Nat /\ q \in Nat /\ p \in Nat /\ p >= r
      BY <1>1, <1>5, <1>6, <1>8, <1>9
    <3> QED
      BY <1>9, <3>1
  <2>2. {r \in P : r > q} = {p}
    BY <1>5, <2>1
  <2>3. Cardinality({p}) = 1
    BY FS_Singleton
  <2> QED
    BY <2>2, <2>3
<1> QED
  BY <1>9 DEF KeepsPrior, P, S

\* A statement of what is public, scored against the year before it there, is
\* neither early itself nor scored on anything but that year.
LEMMA ScoredIsSound ==
  ASSUME FundShapes, NEW count, NEW p \in {f.period : f \in PublicFacts},
         Cardinality(Periods) <= 24 => KeepsPrior(PublicFacts, count, p)
  PROVE  LET s == StatementOf(PublicFacts, p)
             x == Scored(s, PriorOf(LatestStatements(PublicFacts, count), s))
         IN  Dated(x.filed) /\ Sound(x)
<1> DEFINE s == StatementOf(PublicFacts, p)
           prior == PriorOf(LatestStatements(PublicFacts, count), s)
           x == Scored(s, prior)
<1>1. Dated(s.filed) /\ (Known(s.filed) => s.filed <= fundDay) /\ NotEarly(s)
  BY StatementIsDated
<1>2. DOMAIN s = DOMAIN NoStatement /\ s.period = p
  BY StatementParts
<1>3. PublicFacts \in SUBSET Facts /\ p \in Nat
  BY FundAssumption DEF PublicFacts
<1>4. ASSUME Cardinality(Periods) <= 24, Known(s.filed), Settled(s)
      PROVE  prior = Predecessor(p)
  <2>1. \A f \in Facts : f.period < p => f \in PublicFacts
    <3> TAKE f \in Facts
    <3> HAVE f.period < p
    <3>1. f.filed \in Nat /\ f.filed <= s.filed /\ s.filed \in Nat /\ s.filed <= fundDay
          /\ fundDay \in Nat
      BY <1>1, <1>2, <1>4, KnownDates, FundAssumption DEF Settled, FundShapes, Known
    <3> HIDE DEF s
    <3>2. f.filed <= fundDay
      BY <3>1
    <3> QED
      BY <3>2 DEF PublicFacts
  <2>2. {f \in PublicFacts : f.period < p} = {f \in Facts : f.period < p}
    BY <1>3, <2>1
  <2> HIDE DEF s
  <2> QED
    BY <1>2, <1>3, <1>4, <2>2, PriorIsPredecessor
<1> HIDE DEF s, prior
<1>5. x.period = p /\ x.filed = s.filed /\ x.v = s.v /\ x.score = ComputeFScore(s, prior)
  BY <1>2, ScoredParts
<1> HIDE DEF x
<1>6. Dated(x.filed) /\ NotEarly(x)
  BY <1>1, <1>2, <1>5 DEF NotEarly
<1>7. ScoreHolds(x)
  <2> SUFFICES ASSUME Cardinality(Periods) <= 24, Known(x.filed), Settled(x)
               PROVE  x.score = ComputeFScore(x, Predecessor(x.period))
    BY DEF ScoreHolds
  <2>1. prior = Predecessor(p)
    BY <1>2, <1>4, <1>5 DEF Settled
  <2> QED
    BY <1>5, <2>1, ScoreReadsNumbers
<1> QED
  BY <1>6, <1>7 DEF Sound, x, s, prior

-----------------------------------------------------------------------------
(* What a session is answered                                              *)

\* Rows of fiscal years, dated or not.
Rows(S) == \A s \in S : s.period \in Periods /\ Dated(s.filed)

LEMMA PublicIsDated ==
  ASSUME NEW S, Rows(S), NEW day \in Nat
  PROVE  \A s \in PublicBefore(S, day) : s \in S /\ Known(s.filed) /\ s.filed \in Nat /\ s.filed < day
  BY KnownDates DEF PublicBefore, Rows

\* Of finitely many years a set of statements has a last one.
LEMMA LastYear ==
  ASSUME NEW S, S # {}, \A s \in S : s.period \in Periods
  PROVE  \E s \in S : \A o \in S : s.period >= o.period
<1> DEFINE P == {s.period : s \in S}
<1>1. P \in SUBSET Periods /\ P # {}
  OBVIOUS
<1>2. P \in SUBSET Nat /\ IsFiniteSet(P)
  BY <1>1, FundAssumption, FS_Subset
<1>3. PICK m \in P : \A n \in P : m >= n
  BY <1>1, <1>2, FiniteSetsHaveGreatest DEF HasGreatest
<1>4. PICK s \in S : s.period = m
  OBVIOUS
<1> QED
  BY <1>3, <1>4

LEMMA LatestIsPublic ==
  ASSUME NEW S, Rows(S), NEW day \in Nat, LatestAvailableBefore(S, day) # NoStatement
  PROVE  LatestAvailableBefore(S, day) \in PublicBefore(S, day)
<1> DEFINE E == PublicBefore(S, day)
           D == {s.filed : s \in E}
           Last(s) == \A o \in E : s.filed > o.filed \/ (s.filed = o.filed /\ s.period >= o.period)
<1>1. E # {}
  BY DEF LatestAvailableBefore
<1>2. \A s \in E : s \in S /\ s.filed \in Nat /\ s.filed < day
  BY PublicIsDated
<1>3. LatestAvailableBefore(S, day) = CHOOSE s \in E : Last(s)
  BY <1>1 DEF LatestAvailableBefore
<1> HIDE DEF E
<1>4. D \in SUBSET Nat /\ D # {} /\ \A n \in D : n <= day
  BY <1>1, <1>2
<1>5. PICK d \in D : \A n \in D : d >= n
  <2>1. IsFiniteSet(D)
    BY <1>4, FS_BoundedSetOfNaturals
  <2> QED
    BY <1>4, <2>1, FiniteSetsHaveGreatest DEF HasGreatest
<1> DEFINE F == {s \in E : s.filed = d}
<1>6. F # {} /\ \A s \in F : s.period \in Periods
  BY <1>2, <1>5 DEF Rows
<1>7. PICK s \in F : \A o \in F : s.period >= o.period
  <2> HIDE DEF F
  <2> QED
    BY <1>6, LastYear
<1>8. Last(s)
  <2> TAKE o \in E
  <2>1. d >= o.filed /\ d \in Nat /\ o.filed \in Nat
    BY <1>2, <1>4, <1>5
  <2>2. CASE o.filed = d
    BY <1>7, <2>2
  <2>3. CASE o.filed # d
    <3>1. d > o.filed
      BY <2>1, <2>3
    <3> QED
      BY <1>7, <3>1
  <2> QED
    BY <2>2, <2>3
<1>9. s \in E
  BY <1>7
<1> HIDE DEF Last
<1> QED
  BY <1>3, <1>8, <1>9 DEF E

LEMMA PriorIsPublic ==
  ASSUME NEW S, Rows(S), NEW day \in Nat, NEW current,
         PriorAvailableBefore(S, day, current) # NoStatement
  PROVE  PriorAvailableBefore(S, day, current) \in PublicBefore(S, day)
<1> DEFINE E == {s \in PublicBefore(S, day) : s.period < current.period}
<1>1. E # {} /\ PriorAvailableBefore(S, day, current)
                  = CHOOSE s \in E : \A o \in E : s.period >= o.period
  BY DEF PriorAvailableBefore
<1>2. \A s \in E : s.period \in Periods
  BY PublicIsDated DEF Rows
<1>3. E \subseteq PublicBefore(S, day)
  OBVIOUS
<1> HIDE DEF E
<1>4. \E s \in E : \A o \in E : s.period >= o.period
  BY <1>1, <1>2, LastYear
<1> QED
  BY <1>1, <1>3, <1>4

-----------------------------------------------------------------------------
(* Sound statements are all that is saved                                  *)

\* Every row is of its year, dated, and, unless a user posted it, sound.
RowsAreSound ==
  \A p \in Periods : LET s == fundRows[p]
                     IN  \/ s = NoStatement
                         \/ /\ s.period = p /\ Dated(s.filed)
                            /\ p \notin fundPosted => Sound(s)

Saves(save, manual) == \A s \in save : Dated(s.filed) /\ (~manual => Sound(s))

SavesAreSound ==
  \A c \in FundCallers : fundTask[c].pc = "save" => Saves(fundTask[c].save, fundTask[c].manual)

EarlyInv == FundInv /\ RowsAreSound /\ SavesAreSound

LEMMA EarlyInitInv == FundInit => EarlyInv
<1> SUFFICES ASSUME FundInit PROVE EarlyInv
  OBVIOUS
<1>1. \A c \in FundCallers : fundTask[c].pc = "idle"
  BY IdleFundIsIdle DEF FundInit
<1>2. RowsAreSound
  BY DEF FundInit, RowsAreSound
<1>3. SavesAreSound
  BY <1>1 DEF SavesAreSound
<1> QED
  BY <1>2, <1>3, FundInitInv DEF EarlyInv

\* A request has fetched what it will save.
Brings(c, save, manual) ==
  /\ \E n : fundTask' = [fundTask EXCEPT ![c] =
                           [pc |-> "save", save |-> save, announce |-> n, manual |-> manual]]
  /\ UNCHANGED <<fundRows, fundPosted>>

LEMMA BringsSound ==
  ASSUME EarlyInv, NEW c \in FundCallers, NEW save, NEW manual, Brings(c, save, manual),
         Saves(save, manual)
  PROVE  RowsAreSound' /\ SavesAreSound'
<1>1. PICK n : fundTask' = [fundTask EXCEPT ![c] =
                           [pc |-> "save", save |-> save, announce |-> n, manual |-> manual]]
  BY DEF Brings
<1>2. /\ fundTask'[c].save = save /\ fundTask'[c].manual = manual
      /\ \A d \in FundCallers : d # c => fundTask'[d] = fundTask[d]
  BY <1>1 DEF EarlyInv, FundInv, FundShapes
<1>3. SavesAreSound'
  BY <1>2 DEF EarlyInv, SavesAreSound, Saves
<1>4. RowsAreSound'
  BY DEF Brings, EarlyInv, RowsAreSound
<1> QED
  BY <1>3, <1>4

LEMMA LatestAreStatements ==
  ASSUME NEW facts, NEW count, NEW t \in LatestStatements(facts, count)
  PROVE  /\ t.period \in {f.period : f \in facts}
         /\ t = StatementOf(facts, t.period) /\ t.score = Missing
<1>1. PICK p \in {f.period : f \in facts} : t = StatementOf(facts, p)
  BY DEF LatestStatements
<1>2. t.period = p /\ t.score = Missing
  BY <1>1 DEF StatementOf
<1> QED
  BY <1>1, <1>2

LEMMA RefreshBringsSound ==
  ASSUME EarlyInv, NEW c \in FundCallers, RefreshFundamentals(c)
  PROVE  RowsAreSound' /\ SavesAreSound'
<1> DEFINE S == LatestStatements(PublicFacts, 2)
           save == IF S = {} THEN {} ELSE StatementsOfRefresh(S)
           current == Newest(S)
           x == Scored(current, PriorOf(S, current))
           P == {f.period : f \in PublicFacts}
<1>0. FundShapes /\ PublicFacts \in SUBSET Facts
  BY PublicAreFacts DEF EarlyInv, FundInv
<1>1. FetchFilings(c, save) /\ save # {} /\ S # {}
  BY DEF RefreshFundamentals, FetchFilings
<1>2. Brings(c, save, FALSE)
  BY <1>1 DEF FetchFilings, Brings
<1>3. \A t \in S : t.period \in P /\ t = StatementOf(PublicFacts, t.period) /\ t.score = Missing
  BY LatestAreStatements
<1>4. current \in S
  BY <1>0, <1>1, LatestAreYearly, NewestIsOne
<1>5. Dated(x.filed) /\ Sound(x)
  <2>1. KeepsPrior(PublicFacts, 2, current.period)
    BY <1>0, <1>1, NewestKeepsPrior
  <2>2. current.period \in P /\ current = StatementOf(PublicFacts, current.period)
    BY <1>3, <1>4
  <2> HIDE DEF current
  <2> QED
    BY <1>0, <2>1, <2>2, ScoredIsSound
<1>6. ASSUME NEW t \in S PROVE Dated(t.filed) /\ Sound(t)
  <2>1. Dated(t.filed) /\ NotEarly(t)
    <3>1. \E f \in PublicFacts : f.period = t.period
      BY <1>3
    <3>2. t = StatementOf(PublicFacts, t.period)
      BY <1>3
    <3> HIDE DEF S
    <3> QED
      BY <1>0, <3>1, <3>2, StatementIsDated
  <2>2. ScoreHolds(t)
    BY <1>3 DEF ScoreHolds, Known
  <2> QED
    BY <2>1, <2>2 DEF Sound
<1>7. save = {x} \union (S \ {current})
  BY <1>1 DEF StatementsOfRefresh
<1> HIDE DEF save, x, S, current
<1>8. Saves(save, FALSE)
  BY <1>5, <1>6, <1>7 DEF Saves
<1> QED
  BY <1>2, <1>8, BringsSound

LEMMA BackfillBringsSound ==
  ASSUME EarlyInv, BackfillFundamentals
  PROVE  RowsAreSound' /\ SavesAreSound'
<1> DEFINE S == LatestStatements(PublicFacts, 24)
           save == StatementsOfHistory(S)
<1>0. FundShapes /\ PublicFacts \in SUBSET Facts
  BY PublicAreFacts DEF EarlyInv, FundInv
<1>1. Brings("http", save, FALSE)
  BY DEF BackfillFundamentals, FetchFilings, Brings
<1>2. ASSUME NEW t \in S
      PROVE  LET x == Scored(t, PriorOf(S, t)) IN Dated(x.filed) /\ Sound(x)
  <2>1. t.period \in {f.period : f \in PublicFacts} /\ t = StatementOf(PublicFacts, t.period)
    BY LatestAreStatements
  <2>2. Cardinality(Periods) <= 24 => KeepsPrior(PublicFacts, 24, t.period)
    BY <1>0, FewerYearsKeepPrior
  <2> QED
    BY <1>0, <2>1, <2>2, ScoredIsSound
<1>3. save = {Scored(t, PriorOf(S, t)) : t \in S}
  BY DEF StatementsOfHistory
<1> HIDE DEF save, S
<1>4. Saves(save, FALSE)
  BY <1>2, <1>3 DEF Saves
<1> QED
  BY <1>1, <1>4, BringsSound DEF FundCallers

LEMMA IngestBringsSound ==
  ASSUME EarlyInv, NEW s \in Manual, IngestStatement(s)
  PROVE  RowsAreSound' /\ SavesAreSound'
<1> DEFINE x == Scored(s, NoStatement)
<1>1. Brings("http", {x}, TRUE)
  BY DEF IngestStatement, Brings
<1>2. x.filed = s.filed /\ Dated(s.filed)
  BY ScoredParts, FundAssumption DEF Dated
<1> HIDE DEF x
<1>3. Saves({x}, TRUE)
  BY <1>2 DEF Saves
<1> QED
  BY <1>1, <1>3, BringsSound DEF FundCallers

LEMMA SaveStoresSound ==
  ASSUME EarlyInv, NEW c \in FundCallers, SaveFilings(c)
  PROVE  RowsAreSound' /\ SavesAreSound'
<1> DEFINE t == fundTask[c]
           written == {s.period : s \in t.save}
<1>0. FundShapes /\ RowsAreSound /\ Filings(t.save) /\ Saves(t.save, t.manual) /\ t.pc = "save"
  BY DEF EarlyInv, FundInv, FundShapes, SavesAreSound, SaveFilings
<1>1. /\ fundRows' = [p \in Periods |-> IF p \in written
                        THEN CHOOSE s \in t.save : s.period = p ELSE fundRows[p]]
      /\ fundTask' = [fundTask EXCEPT ![c].pc = "publish"]
      /\ fundPosted' = IF t.manual THEN fundPosted \union written ELSE fundPosted \ written
  BY DEF SaveFilings
<1>2. SavesAreSound'
  <2>1. fundTask'[c].pc = "publish" /\ \A d \in FundCallers : d # c => fundTask'[d] = fundTask[d]
    BY <1>0, <1>1 DEF FundShapes, IdleFund
  <2> QED
    BY <2>1 DEF EarlyInv, SavesAreSound, Saves
<1>3. RowsAreSound'
  <2> SUFFICES ASSUME NEW p \in Periods
               PROVE  \/ fundRows'[p] = NoStatement
                      \/ /\ fundRows'[p].period = p /\ Dated(fundRows'[p].filed)
                         /\ p \notin fundPosted' => Sound(fundRows'[p])
    BY DEF RowsAreSound
  <2>1. CASE p \in written
    <3>1. PICK s \in t.save : s.period = p
      BY <2>1
    <3>2. fundRows'[p] = s
      BY <1>0, <1>1, <2>1, <3>1 DEF Filings
    <3>3. p \notin fundPosted' => ~t.manual
      BY <1>1, <2>1
    <3> QED
      BY <1>0, <3>1, <3>2, <3>3 DEF Saves
  <2>2. CASE p \notin written
    <3>1. fundRows'[p] = fundRows[p] /\ (p \in fundPosted' <=> p \in fundPosted)
      BY <1>1, <2>2
    <3> QED
      BY <1>0, <3>1 DEF RowsAreSound
  <2> QED
    BY <2>1, <2>2
<1> QED
  BY <1>2, <1>3

LEMMA EarlyStepKeeps ==
  ASSUME EarlyInv, [FundNext]_fundVars
  PROVE  EarlyInv'
<1>0. SUFFICES RowsAreSound' /\ SavesAreSound'
  BY FundStepKeeps DEF EarlyInv
<1>1. CASE UNCHANGED <<fundRows, fundTask, fundPosted>>
  BY <1>1 DEF EarlyInv, RowsAreSound, SavesAreSound, Saves
<1>2. ASSUME UNCHANGED <<fundRows, fundPosted>>,
             \A d \in FundCallers : fundTask'[d] = fundTask[d] \/ fundTask'[d].pc = "idle"
      PROVE  RowsAreSound' /\ SavesAreSound'
  BY <1>2 DEF EarlyInv, RowsAreSound, SavesAreSound, Saves
<1>3. CASE FundCrash
  <2>1. UNCHANGED <<fundRows, fundPosted>> /\ \A d \in FundCallers : fundTask'[d].pc = "idle"
    BY <1>3, IdleFundIsIdle DEF FundCrash, fundHistory
  <2> QED
    BY <1>2, <2>1
<1>4. ASSUME NEW c \in FundCallers, PublishFundamentals(c) \/ FundFails(c)
      PROVE  RowsAreSound' /\ SavesAreSound'
  <2>1. /\ UNCHANGED <<fundRows, fundPosted>>
        /\ \A d \in FundCallers : fundTask'[d] = fundTask[d] \/ fundTask'[d].pc = "idle"
    BY <1>4, IdleFundIsIdle DEF PublishFundamentals, FundFails, fundHistory, EarlyInv, FundInv,
       FundShapes
  <2> QED
    BY <1>2, <2>1
<1>5. CASE FundTick
  BY <1>1, <1>5 DEF FundTick, fundHistory, EarlyInv, RowsAreSound, SavesAreSound, Saves
<1>6. CASE FundNext
  BY <1>3, <1>4, <1>5, <1>6, RefreshBringsSound, BackfillBringsSound, IngestBringsSound,
     SaveStoresSound DEF FundNext
<1>7. CASE UNCHANGED fundVars
  BY <1>1, <1>7 DEF fundVars, fundHistory, EarlyInv, RowsAreSound, SavesAreSound, Saves
<1> QED
  BY <1>6, <1>7

LEMMA RowsOfPanel ==
  ASSUME EarlyInv
  PROVE  /\ Rows(PanelRows)
         /\ \A s \in PanelRows : s.period \notin fundPosted => Sound(s)
  BY DEF EarlyInv, RowsAreSound, PanelRows, Rows

LEMMA EarlyInvSuffices ==
  ASSUME EarlyInv
  PROVE  NoLookAhead /\ (Cardinality(Periods) <= 24 => NothingIsKnownEarly)
<1> USE RowsOfPanel
<1>0. FundDays \in Nat
  BY FundAssumption
<1>1. NoLookAhead
  <2> SUFFICES ASSUME NEW day \in 1..FundDays + 1, NEW s, s = AsOfSession(day),
                      NEW x \in {s, PriorAvailableBefore(PanelRows, day, s)},
                      x # NoStatement, x.period \notin fundPosted
               PROVE  PublishedBefore(x, day)
    BY DEF NoLookAhead, SessionCutoff
  <2>0. day \in Nat
    BY <1>0
  <2>1. x \in PublicBefore(PanelRows, day)
    BY <2>0, LatestIsPublic, PriorIsPublic DEF AsOfSession, SessionCutoff
  <2>2. x \in PanelRows /\ Known(x.filed) /\ x.filed \in Nat /\ x.filed < day
    BY <2>0, <2>1, PublicIsDated
  <2>3. NotEarly(x)
    BY <2>2 DEF Sound
  <2>4. ASSUME NEW y \in Facts, Known(y.filed), y.filed <= x.filed
        PROVE  y.filed < day
    <3>1. y.filed \in Nat
      BY <2>4, FundAssumption DEF Known
    <3> QED
      BY <2>0, <2>2, <2>4, <3>1
  <2> QED
    BY <2>2, <2>3, <2>4 DEF NotEarly, PublishedBefore
<1>2. Cardinality(Periods) <= 24 => ScoreIsKnowable
  <2> SUFFICES ASSUME Cardinality(Periods) <= 24,
                      NEW day \in 1..FundDays + 1, NEW s, s = AsOfSession(day),
                      s # NoStatement, s.period \notin fundPosted, Known(s.score), Settled(s)
               PROVE  LET then == {f \in Facts : Known(f.filed) /\ f.filed < day}
                      IN  s.score = ComputeFScore(s, PriorOf(LatestStatements(then, 24), s))
    BY DEF ScoreIsKnowable, Settled
  <2> DEFINE then == {f \in Facts : Known(f.filed) /\ f.filed < day}
  <2>0. day \in Nat
    BY <1>0
  <2>1. s \in PublicBefore(PanelRows, day)
    BY <2>0, LatestIsPublic DEF AsOfSession, SessionCutoff
  <2>2. s \in PanelRows /\ Known(s.filed) /\ s.filed \in Nat /\ s.filed < day
    BY <2>0, <2>1, PublicIsDated
  <2>3. s.score = ComputeFScore(s, Predecessor(s.period))
    BY <2>2 DEF Sound, ScoreHolds
  <2>4. \A f \in Facts : f.period < s.period => f \in then
    <3> SUFFICES ASSUME NEW f \in Facts, f.period < s.period
                 PROVE  Known(f.filed) /\ f.filed < day
      OBVIOUS
    <3>1. Known(f.filed) /\ f.filed <= s.filed /\ f.filed \in Nat
      BY FundAssumption DEF Settled, Known
    <3> QED
      BY <2>0, <2>2, <3>1
  <2>5. then \in SUBSET Facts /\ {f \in then : f.period < s.period} = {f \in Facts : f.period < s.period}
    BY <2>4
  <2>6. s.period \in Nat
    BY <2>2, FundAssumption DEF Rows
  <2> HIDE DEF then
  <2>7. PriorOf(LatestStatements(then, 24), s) = Predecessor(s.period)
    BY <2>5, <2>6, FewerYearsKeepPrior, PriorIsPredecessor
  <2> QED
    BY <2>3, <2>7 DEF then
<1> QED
  BY <1>1, <1>2 DEF NothingIsKnownEarly

-----------------------------------------------------------------------------
(* Steps of notification: what is not open any more was tried, and what is  *)
(* still open had at most one delivery per restart.                        *)

Sending == [pc : {"send"}, notice : Notices, open : SUBSET Channels]

\* The alert its subject's handler is sending is n.
InHandNow(n) == dispatch[n.subject].pc = "send" /\ dispatch[n.subject].notice = n

NoticeShapes ==
  /\ crashes \in Nat
  /\ DOMAIN stream \subseteq Notices /\ acked \subseteq Notices
  /\ DOMAIN stream \intersect acked = {}
  /\ dispatch \in [Subjects -> {IdleDispatch} \union Sending]
  /\ told \in [Notices -> [Channels -> Nat]]
  /\ tried \in [Notices -> SUBSET Channels]

\* An alert in hand is unacknowledged; its closed channels were tried.
SendInv ==
  \A s \in Subjects : dispatch[s].pc = "send" =>
    LET n == dispatch[s].notice
    IN  /\ n \in DOMAIN stream /\ n.subject = s
        /\ Channels \ dispatch[s].open \subseteq tried[n]
        /\ \A c \in dispatch[s].open : told[n][c] <= crashes

\* An alert nobody handles now reached a channel at most once per restart.
WaitInv ==
  \A n \in Notices \ acked : InHandNow(n) \/ \A c \in Channels : told[n][c] <= crashes

\* recent is a bounded queue.
RecentInv == recent \in Seq(Notices) /\ Len(recent) <= RecentMax

NoticeInv == NoticeShapes /\ SendInv /\ WaitInv /\ NoRepeatWithoutCrash /\ AckedAlertsWereTried

-----------------------------------------------------------------------------
LEMMA SubjectOf == \A n \in Notices : n.subject \in Subjects
  BY DEF Subjects

LEMMA IdleSendsNothing == IdleDispatch.pc = "idle" /\ IdleDispatch.open = {}
  BY DEF IdleDispatch

\* A halt is never below the threshold, whatever string configures it.
LEMMA HaltIsNotSuppressed ==
  ASSUME NEW n, n.subject = "risk.circuit_breaker", n.level \in {"red", "black"}, NEW t
  PROVE  ~(Rank(Severity(n)) < Rank(t))
<1>1. Severity(n) = "critical"
  BY DEF Severity
<1>2. Rank("critical") = 2 /\ Rank(t) \in {0, 1, 2}
  BY DEF Rank
<1> QED
  BY <1>1, <1>2

LEMMA NoticeInitInv == NoticeInit => NoticeInv
<1> SUFFICES ASSUME NoticeInit PROVE NoticeInv
  OBVIOUS
<1> USE DEF NoticeInit
<1>1. NoticeShapes
  BY DEF NoticeShapes
<1>2. \A s \in Subjects : dispatch[s].pc = "idle"
  BY IdleSendsNothing
<1>3. \A n \in Notices : \A c \in Channels : told[n][c] = 0
  OBVIOUS
<1>4. SendInv /\ WaitInv /\ NoRepeatWithoutCrash /\ AckedAlertsWereTried
  BY <1>2, <1>3 DEF SendInv, WaitInv, NoRepeatWithoutCrash, AckedAlertsWereTried
<1> QED
  BY <1>1, <1>4 DEF NoticeInv

LEMMA PublishKeeps ==
  ASSUME NoticeInv, NEW n \in Notices, PublishNotice(n)
  PROVE  NoticeInv'
<1>1. /\ DOMAIN stream' = DOMAIN stream \union {n} /\ n \notin acked
      /\ UNCHANGED <<threshold, dispatch, crashes, told, tried, acked>>
  BY DEF PublishNotice
<1> QED
  BY <1>1 DEF NoticeInv, NoticeShapes, SendInv, WaitInv, InHandNow, NoRepeatWithoutCrash, AckedAlertsWereTried

LEMMA HandleKeeps ==
  ASSUME NoticeInv, NEW n \in DOMAIN stream, HandleNotice(n)
  PROVE  NoticeInv'
<1> DEFINE s == n.subject
<1>1. /\ n \in Notices /\ s \in Subjects /\ dispatch[s].pc = "idle" /\ n \notin acked
      /\ UNCHANGED <<threshold, crashes, told, tried>>
  BY SubjectOf DEF NoticeInv, NoticeShapes, HandleNotice
<1>2. \A c \in Channels : told[n][c] <= crashes
  BY <1>1 DEF NoticeInv, WaitInv, InHandNow
<1>3. CASE Rank(Severity(n)) < Rank(threshold)
  <2>1. /\ DOMAIN stream' = DOMAIN stream \ {n} /\ acked' = acked \union {n}
        /\ UNCHANGED dispatch
    BY <1>3 DEF HandleNotice, Without
  <2>2. \A t \in Subjects : dispatch[t].pc = "send" => dispatch[t].notice # n
    BY <1>1 DEF NoticeInv, SendInv
  <2>3. ~(n.subject = "risk.circuit_breaker" /\ n.level \in {"red", "black"})
    BY <1>3, HaltIsNotSuppressed
  <2>4. NoticeShapes' /\ SendInv'
    BY <1>1, <2>1, <2>2 DEF NoticeInv, NoticeShapes, SendInv
  <2>5. WaitInv' /\ NoRepeatWithoutCrash'
    BY <1>1, <2>1 DEF NoticeInv, WaitInv, InHandNow, NoRepeatWithoutCrash
  <2>6. AckedAlertsWereTried'
    BY <1>1, <1>3, <2>1, <2>3 DEF NoticeInv, AckedAlertsWereTried
  <2> QED
    BY <2>4, <2>5, <2>6 DEF NoticeInv
<1>4. CASE ~(Rank(Severity(n)) < Rank(threshold))
  <2> DEFINE d == [pc |-> "send", notice |-> n, open |-> Channels]
  <2>1. dispatch' = [dispatch EXCEPT ![s] = d] /\ UNCHANGED <<stream, acked>>
    BY <1>4 DEF HandleNotice
  <2>2. d \in Sending /\ d.pc = "send" /\ d.notice = n /\ d.open = Channels
    BY <1>1 DEF Sending
  <2> HIDE DEF d
  <2>3. dispatch'[s] = d /\ \A t \in Subjects \ {s} : dispatch'[t] = dispatch[t]
    BY <1>1, <2>1 DEF NoticeInv, NoticeShapes
  <2>4. NoticeShapes'
    BY <1>1, <2>1, <2>2 DEF NoticeInv, NoticeShapes
  <2>5. SendInv'
    BY <1>1, <1>2, <2>1, <2>2, <2>3 DEF NoticeInv, SendInv
  <2>6. WaitInv'
    BY <1>1, <1>2, <2>1, <2>3, SubjectOf DEF NoticeInv, WaitInv, InHandNow
  <2>7. NoRepeatWithoutCrash' /\ AckedAlertsWereTried'
    BY <1>1, <2>1 DEF NoticeInv, NoRepeatWithoutCrash, AckedAlertsWereTried
  <2> QED
    BY <2>4, <2>5, <2>6, <2>7 DEF NoticeInv
<1> QED
  BY <1>3, <1>4

\* A channel answers, well or badly: it is open no more, and was tried.
LEMMA AnswerKeeps ==
  ASSUME NoticeInv, NEW s \in Subjects, NEW c \in Channels, Sent(s, c) \/ SendFails(s, c)
  PROVE  NoticeInv'
<1> DEFINE n == dispatch[s].notice
           open == dispatch[s].open
<1>1. /\ c \in open
      /\ dispatch' = [dispatch EXCEPT ![s].open = @ \ {c}]
      /\ tried' = [tried EXCEPT ![n] = @ \union {c}]
      /\ \/ told' = [told EXCEPT ![n][c] = @ + 1]
         \/ told' = told
      /\ UNCHANGED <<threshold, stream, crashes, acked>>
  BY DEF Sent, SendFails
<1>2. dispatch[s] \in Sending
  BY <1>1, IdleSendsNothing DEF NoticeInv, NoticeShapes
<1>3. /\ dispatch[s].pc = "send" /\ n \in Notices /\ n \in DOMAIN stream /\ n.subject = s
      /\ n \notin acked /\ open \subseteq Channels
      /\ Channels \ open \subseteq tried[n]
      /\ \A e \in open : told[n][e] <= crashes
  BY <1>2 DEF NoticeInv, NoticeShapes, SendInv, Sending
<1> DEFINE d == [dispatch[s] EXCEPT !.open = @ \ {c}]
<1>4. d \in Sending /\ d.pc = "send" /\ d.notice = n /\ d.open = open \ {c}
  BY <1>2 DEF Sending
<1>5. dispatch' = [dispatch EXCEPT ![s] = d]
  BY <1>1
<1> HIDE DEF n, open, d
<1>6. dispatch'[s] = d /\ \A t \in Subjects \ {s} : dispatch'[t] = dispatch[t]
  BY <1>5 DEF NoticeInv, NoticeShapes
<1>7. /\ told' \in [Notices -> [Channels -> Nat]]
      /\ \A m \in Notices : \A e \in Channels :
           told'[m][e] = IF told' # told /\ m = n /\ e = c THEN told[m][e] + 1 ELSE told[m][e]
  BY <1>1, <1>3 DEF NoticeInv, NoticeShapes
<1>8. /\ tried' \in [Notices -> SUBSET Channels]
      /\ \A m \in Notices : tried'[m] = IF m = n THEN tried[m] \union {c} ELSE tried[m]
  BY <1>1, <1>3 DEF NoticeInv, NoticeShapes
<1>9. NoticeShapes'
  <2>1. dispatch' \in [Subjects -> {IdleDispatch} \union Sending]
    BY <1>4, <1>5 DEF NoticeInv, NoticeShapes
  <2> QED
    BY <1>1, <1>7, <1>8, <2>1 DEF NoticeInv, NoticeShapes
<1>10. SendInv'
  <2> SUFFICES ASSUME NEW t \in Subjects, dispatch'[t].pc = "send"
               PROVE  LET m == dispatch'[t].notice
                      IN  /\ m \in DOMAIN stream' /\ m.subject = t
                          /\ Channels \ dispatch'[t].open \subseteq tried'[m]
                          /\ \A e \in dispatch'[t].open : told'[m][e] <= crashes'
    BY DEF SendInv
  <2>1. CASE t = s
    <3>1. dispatch'[t].notice = n /\ dispatch'[t].open = open \ {c}
      BY <1>4, <1>6, <2>1
    <3>2. Channels \ (open \ {c}) \subseteq tried'[n]
      BY <1>3, <1>8
    <3>3. \A e \in open \ {c} : told'[n][e] = told[n][e]
      BY <1>3, <1>7
    <3> QED
      BY <1>1, <1>3, <2>1, <3>1, <3>2, <3>3
  <2>2. CASE t # s
    <3> DEFINE m == dispatch[t].notice
    <3>1. dispatch[t] \in Sending /\ dispatch'[t] = dispatch[t]
      BY <1>6, <2>2, IdleSendsNothing DEF NoticeInv, NoticeShapes
    <3>2. /\ m \in DOMAIN stream /\ m.subject = t /\ m \in Notices
          /\ Channels \ dispatch[t].open \subseteq tried[m]
          /\ dispatch[t].open \subseteq Channels
          /\ \A e \in dispatch[t].open : told[m][e] <= crashes
      BY <3>1 DEF NoticeInv, SendInv, Sending
    <3>3. m # n
      BY <1>3, <2>2, <3>2
    <3>4. tried'[m] = tried[m] /\ \A e \in Channels : told'[m][e] = told[m][e]
      BY <1>7, <1>8, <3>2, <3>3
    <3> QED
      BY <1>1, <3>1, <3>2, <3>4
  <2> QED
    BY <2>1, <2>2
<1>11. WaitInv'
  <2> SUFFICES ASSUME NEW m \in Notices \ acked
               PROVE  \/ dispatch'[m.subject].pc = "send" /\ dispatch'[m.subject].notice = m
                      \/ \A e \in Channels : told'[m][e] <= crashes
    BY <1>1 DEF WaitInv, InHandNow
  <2>1. CASE m = n
    BY <1>3, <1>4, <1>6, <2>1
  <2>2. CASE m # n
    <3>1. told'[m] = told[m] \/ \A e \in Channels : told'[m][e] = told[m][e]
      BY <1>7, <2>2
    <3>2. InHandNow(m) => m.subject # s
      BY <2>2 DEF InHandNow, n
    <3> QED
      BY <1>6, <3>1, <3>2, SubjectOf DEF NoticeInv, WaitInv, InHandNow
  <2> QED
    BY <2>1, <2>2
<1>12. NoRepeatWithoutCrash'
  <2> SUFFICES ASSUME NEW m \in Notices, NEW e \in Channels
               PROVE  told'[m][e] <= 1 + crashes
    BY <1>1 DEF NoRepeatWithoutCrash
  <2>1. told[m][e] \in Nat /\ crashes \in Nat /\ told[m][e] <= 1 + crashes
    BY DEF NoticeInv, NoticeShapes, NoRepeatWithoutCrash
  <2> QED
    BY <1>1, <1>3, <1>7, <2>1 DEF open
<1>13. AckedAlertsWereTried'
  BY <1>1, <1>3, <1>8 DEF NoticeInv, NoticeShapes, AckedAlertsWereTried
<1> QED
  BY <1>9, <1>10, <1>11, <1>12, <1>13 DEF NoticeInv

LEMMA AcknowledgeKeeps ==
  ASSUME NoticeInv, NEW s \in Subjects, Acknowledge(s)
  PROVE  NoticeInv'
<1> DEFINE n == dispatch[s].notice
<1>1. /\ dispatch[s].pc = "send" /\ dispatch[s].open = {}
      /\ DOMAIN stream' = DOMAIN stream \ {n}
      /\ acked' = acked \union {n}
      /\ dispatch' = [dispatch EXCEPT ![s] = IdleDispatch]
      /\ UNCHANGED <<threshold, crashes, told, tried>>
  BY DEF Acknowledge, Without
<1>2. /\ n \in Notices /\ n.subject = s /\ tried[n] = Channels
      /\ \A t \in Subjects \ {s} : dispatch[t].pc = "send" => dispatch[t].notice # n
  <2>1. n \in DOMAIN stream /\ n.subject = s /\ Channels \ {} \subseteq tried[n]
    BY <1>1 DEF NoticeInv, SendInv
  <2>2. n \in Notices /\ tried[n] \subseteq Channels
    BY <2>1 DEF NoticeInv, NoticeShapes
  <2>3. \A t \in Subjects \ {s} : dispatch[t].pc = "send" => dispatch[t].notice # n
    BY <2>1 DEF NoticeInv, SendInv
  <2> QED
    BY <2>1, <2>2, <2>3
<1>3. /\ dispatch'[s].pc = "idle"
      /\ \A t \in Subjects \ {s} : dispatch'[t] = dispatch[t]
  BY <1>1, IdleSendsNothing DEF NoticeInv, NoticeShapes
<1>4. NoticeShapes'
  BY <1>1, <1>2 DEF NoticeInv, NoticeShapes
<1>5. SendInv'
  BY <1>1, <1>2, <1>3 DEF NoticeInv, SendInv
<1>6. WaitInv'
  <2> SUFFICES ASSUME NEW m \in Notices \ acked, m # n
               PROVE  \/ dispatch'[m.subject].pc = "send" /\ dispatch'[m.subject].notice = m
                      \/ \A e \in Channels : told[m][e] <= crashes
    BY <1>1 DEF WaitInv, InHandNow
  <2>1. InHandNow(m) => m.subject # s
    BY DEF InHandNow
  <2> QED
    BY <1>3, <2>1, SubjectOf DEF NoticeInv, WaitInv, InHandNow
<1>7. NoRepeatWithoutCrash' /\ AckedAlertsWereTried'
  BY <1>1, <1>2 DEF NoticeInv, NoRepeatWithoutCrash, AckedAlertsWereTried
<1> QED
  BY <1>4, <1>5, <1>6, <1>7 DEF NoticeInv

LEMMA CrashKeeps ==
  ASSUME NoticeInv, NoticeCrash
  PROVE  NoticeInv'
<1>1. /\ crashes' = crashes + 1 /\ crashes \in Nat
      /\ DOMAIN stream' \subseteq DOMAIN stream
      /\ dispatch' = [s \in Subjects |-> IdleDispatch]
      /\ UNCHANGED <<threshold, told, tried, acked>>
  BY DEF NoticeCrash, NoticeInv, NoticeShapes
<1>2. \A s \in Subjects : dispatch'[s].pc = "idle"
  BY <1>1, IdleSendsNothing
<1>3. \A n \in Notices : \A c \in Channels : told[n][c] \in Nat /\ told[n][c] <= crashes'
  BY <1>1 DEF NoticeInv, NoticeShapes, NoRepeatWithoutCrash
<1>4. NoticeShapes'
  BY <1>1 DEF NoticeInv, NoticeShapes
<1>5. SendInv' /\ WaitInv' /\ AckedAlertsWereTried'
  BY <1>1, <1>2, <1>3 DEF NoticeInv, SendInv, WaitInv, AckedAlertsWereTried
<1>6. NoRepeatWithoutCrash'
  BY <1>1, <1>3 DEF NoRepeatWithoutCrash
<1> QED
  BY <1>4, <1>5, <1>6 DEF NoticeInv

LEMMA NoticeStepKeeps ==
  ASSUME NoticeInv, [NoticeNext]_noticeVars
  PROVE  NoticeInv'
<1>1. CASE UNCHANGED noticeVars
  BY <1>1 DEF noticeVars, NoticeInv, NoticeShapes, SendInv, WaitInv, InHandNow, NoRepeatWithoutCrash,
              AckedAlertsWereTried
<1>2. CASE NoticeNext
  BY <1>2, PublishKeeps, HandleKeeps, AnswerKeeps, AcknowledgeKeeps, CrashKeeps DEF NoticeNext
<1> QED
  BY <1>1, <1>2

LEMMA NoticeInitRecent == NoticeInit => RecentInv
<1>1. <<>> \in Seq(Notices) /\ Len(<<>>) = 0
  OBVIOUS
<1> QED
  BY <1>1, NoticeAssumption DEF NoticeInit, RecentInv

LEMMA RecentStepKeeps ==
  ASSUME NoticeInv, RecentInv, [NoticeNext]_noticeVars
  PROVE  RecentInv'
<1>1. CASE UNCHANGED recent
  BY <1>1 DEF RecentInv
<1>2. CASE recent' = <<>>
  <2>1. <<>> \in Seq(Notices) /\ Len(<<>>) = 0
    OBVIOUS
  <2> QED
    BY <1>2, <2>1, NoticeAssumption DEF RecentInv
<1>3. ASSUME NEW n \in DOMAIN stream, HandleNotice(n), ~ UNCHANGED recent
      PROVE  RecentInv'
  <2> DEFINE all == Append(recent, n)
             i == IF Len(all) > RecentMax THEN 2 ELSE 1
  <2>1. n \in Notices
    BY DEF NoticeInv, NoticeShapes
  <2>2. all \in Seq(Notices) /\ Len(all) = Len(recent) + 1 /\ Len(all) \in Nat
    BY <2>1 DEF RecentInv
  <2>3. recent' = SubSeq(all, i, Len(all))
    BY <1>3 DEF HandleNotice, Remembered
  <2> HIDE DEF all
  <2>4. i \in {1, 2} /\ Len(all) >= 1 /\ Len(all) - i + 1 <= RecentMax /\ Len(all) - i + 1 >= 0
    BY <2>2, NoticeAssumption DEF RecentInv
  <2> HIDE DEF i
  <2>5. SubSeq(all, i, Len(all)) \in Seq(Notices)
    BY <2>2, <2>4
  <2>6. Len(SubSeq(all, i, Len(all))) = Len(all) - i + 1
    BY <2>2, <2>4
  <2> QED
    BY <2>3, <2>4, <2>5, <2>6 DEF RecentInv
<1>4. CASE NoticeNext
  BY <1>1, <1>2, <1>3, <1>4 DEF NoticeNext, PublishNotice, Sent, SendFails, Acknowledge, NoticeCrash
<1> QED
  BY <1>1, <1>4 DEF noticeVars

LEMMA NoticeInvSuffices == NoticeInv /\ RecentInv => NoticeTypeOK /\ AlertsReachEveryChannelOnce
<1> SUFFICES ASSUME NoticeInv, RecentInv PROVE NoticeTypeOK
  BY DEF NoticeInv, AlertsReachEveryChannelOnce
<1>1. \A s \in Subjects : dispatch[s].open \subseteq Channels
  BY IdleSendsNothing DEF NoticeInv, NoticeShapes, Sending
<1> QED
  BY <1>1 DEF NoticeInv, NoticeShapes, RecentInv, NoticeTypeOK

-----------------------------------------------------------------------------
\* An alert reaches every channel before it leaves the stream, and each once per
\* life of the process: dispatch() waits for every channel, whatever one of them
\* raises, and only a restart brings an alert back (service.py, subscriber.py).
THEOREM EveryChannelOnce == NoticeSpec => []AlertsReachEveryChannelOnce
<1>1. NoticeInit => NoticeInv /\ RecentInv
  BY NoticeInitInv, NoticeInitRecent
<1>2. NoticeInv /\ RecentInv /\ [NoticeNext]_noticeVars => (NoticeInv /\ RecentInv)'
  BY NoticeStepKeeps, RecentStepKeeps
<1> QED
  BY <1>1, <1>2, NoticeInvSuffices, PTL DEF NoticeSpec

\* A step of the run is a step of one service, and the others stand still.
LEMMA OneServiceSteps ==
  [RefNext]_refVars =>
    [MacroNext]_macroVars /\ [FundNext]_fundVars /\ [AttrNext]_attrVars /\ [NoticeNext]_noticeVars
<1> SUFFICES ASSUME [RefNext]_refVars
             PROVE  [MacroNext]_macroVars /\ [FundNext]_fundVars /\ [AttrNext]_attrVars
                      /\ [NoticeNext]_noticeVars
  OBVIOUS
<1>1. CASE UNCHANGED refVars
  BY <1>1 DEF refVars
<1>2. CASE RefNext
  BY <1>2 DEF RefNext
<1> QED
  BY <1>1, <1>2

\* Whoever keeps a copy of reference data keeps the owner's: the regime the
\* consumers of RegimeChanged believe (macro-data's service.py), the statement
\* GET /fundamentals answers beside its panel (fundamental-data's service.py)
\* and the attributes feature-engine merges into its vectors (attributes.py),
\* each with the exceptions its invariant names.
THEOREM ConsumersKeepUp == RefSpec => []ConsumersAreCurrent
<1> DEFINE Inv == MacroInv /\ FundInv /\ AttrInv /\ NoticeInv /\ RecentInv
<1>1. RefInit => Inv
  BY MacroInitInv, FundInitInv, AttrInitInv, NoticeInitInv, NoticeInitRecent DEF RefInit
<1>2. Inv /\ [RefNext]_refVars => Inv'
  BY OneServiceSteps, MacroStepKeeps, FundStepKeeps, AttrStepKeeps, NoticeStepKeeps, RecentStepKeeps
<1>3. Inv => ConsumersAreCurrent
  BY MacroInvSuffices, FundInvSuffices, AttrInvSuffices, NoticeInvSuffices
     DEF ConsumersAreCurrent, TypeOK
<1> HIDE DEF Inv
<1> QED
  BY <1>1, <1>2, <1>3, PTL DEF RefSpec

\* Whatever part of the vintages was backfilled, and wherever a backfill broke
\* off, a day is answered with what was public on it, by the single read and by
\* the history walk alike (macro-data's panel.py, service.py, fred_client.py).
THEOREM PanelAnswers == RefSpec => []PanelAnswersForTheDay
<1>1. RefInit => MacroInv /\ FillInv
  BY MacroInitInv, FillInitInv DEF RefInit
<1>2. MacroInv /\ FillInv /\ [RefNext]_refVars => (MacroInv /\ FillInv)'
  BY OneServiceSteps, MacroStepKeeps, FillStepKeeps
<1>3. FillInv => PanelAnswersForTheDay
  <2> SUFFICES ASSUME FillInv PROVE PanelAnswersForTheDay
    OBVIOUS
  <2>1. panel \in SUBSET Alfred
    BY DEF FillInv, MacroShapes
  <2>2. HistoryAgreesWithAsOf
    BY <2>1, HistoryIsAsOf DEF HistoryAgreesWithAsOf
  <2> QED
    BY <2>2, PanelIsHonestThen DEF PanelAnswersForTheDay
<1> QED
  BY <1>1, <1>2, <1>3, PTL DEF RefSpec

LEMMA EarlyHolds == RefSpec => [](NoLookAhead /\ (Cardinality(Periods) <= 24 => NothingIsKnownEarly))
<1>1. RefInit => EarlyInv
  BY EarlyInitInv DEF RefInit
<1>2. EarlyInv /\ [RefNext]_refVars => EarlyInv'
  BY OneServiceSteps, EarlyStepKeeps
<1>3. EarlyInv => NoLookAhead /\ (Cardinality(Periods) <= 24 => NothingIsKnownEarly)
  BY EarlyInvSuffices
<1> QED
  BY <1>1, <1>2, <1>3, PTL DEF RefSpec

\* What the panel of fundamentals answers for a session holds no number first
\* filed on that session or later, whatever the filer restated, moved to another
\* tag or left undated (fundamental-data's edgar_client.py, fundamentals.py).
THEOREM NoNumberIsEarly == RefSpec => []NoLookAhead
<1>1. NoLookAhead /\ (Cardinality(Periods) <= 24 => NothingIsKnownEarly) => NoLookAhead
  OBVIOUS
<1> QED
  BY <1>1, EarlyHolds, PTL

\* Nor is its F-score another than the filings public before the session give,
\* for a filer of as many fiscal years as refresh_history asks for: a longer
\* history loses the year before its oldest kept one (service.py).
THEOREM NothingEarly == Cardinality(Periods) <= 24 => (RefSpec => []NothingIsKnownEarly)
<1> SUFFICES ASSUME Cardinality(Periods) <= 24 PROVE RefSpec => []NothingIsKnownEarly
  OBVIOUS
<1>1. NoLookAhead /\ (Cardinality(Periods) <= 24 => NothingIsKnownEarly) => NothingIsKnownEarly
  OBVIOUS
<1> QED
  BY <1>1, EarlyHolds, PTL
=============================================================================
