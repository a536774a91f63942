---------------------------- MODULE MCReference ----------------------------
EXTENDS MacroData, Fundamentals, Attributes, Notification

Row(s, p, v, x) == [series |-> s, period |-> p, vintage |-> v, value |-> x]
MCAlfred == {Row("DGS10", 1, 1, 300), Row("DGS10", 1, 3, 100), Row("DGS10", 2, 2, 200),
             Row("DGS2", 1, 2, 150), Row("DGS2", 1, Never, 900), Row("BAA", 1, 1, 350)}
MCOverrides == {[k \in IndicatorKeys |-> IF k = "pmi" THEN p ELSE Missing] : p \in {Missing, 4700, 5600}}
MCSeries == <<"DGS10", "DGS2", "BAA">>
MCSlices == <<<<1, 1>>, <<2, 9998>>>>
MCFred == {"treasury_10y", "treasury_2y", "corporate_baa", "unemployment_rate", "fed_funds_rate"}

Fact(p, f, t, x, d) == [period |-> p, field |-> f, tag |-> t, value |-> x, filed |-> d]
MCFacts == {Fact(1, "net_income", 1, 10, 1), Fact(1, "total_assets", 1, 100, 1),
            Fact(1, "revenue", 1, 50, 3), Fact(2, "revenue", 1, 40, 2),
            Fact(2, "net_income", 1, 20, 2), Fact(2, "net_income", 1, 15, 4),
            Fact(2, "total_assets", 2, 100, 2), Fact(2, "total_assets", 1, 120, 3)}
MCManual == {[NoStatement EXCEPT !.period = 2, !.v["net_income"] = 25]}

NoMetrics == [revenue |-> Missing, earnings |-> Missing, pe |-> Missing, pb |-> Missing,
              dividend |-> Missing]
MCProfiles == {[sector |-> "Energy", cap |-> 5000, metrics |-> NoMetrics],
               [sector |-> "Energy", cap |-> 5000, metrics |-> [NoMetrics EXCEPT !.pe = 300]]}

MCNotices == {[id |-> 1, subject |-> "risk.circuit_breaker", level |-> "red"],
              [id |-> 2, subject |-> "risk.circuit_breaker", level |-> "yellow"],
              [id |-> 3, subject |-> "ml.drift_detected", level |-> "unheard of"]}

\* The services of this run share no state: each behaviour runs one of them.
VARIABLE running
refVars == <<running, macroVars, fundVars, attrVars, noticeVars>>
RefInit ==
  /\ running \in {"macro", "fundamentals", "attributes", "notification"}
  /\ MacroInit /\ FundInit /\ AttrInit /\ NoticeInit
  /\ running # "notification" => threshold = "loud"
RefNext ==
  /\ UNCHANGED running
  /\ \/ running = "macro" /\ MacroNext /\ UNCHANGED <<fundVars, attrVars, noticeVars>>
     \/ running = "fundamentals" /\ FundNext /\ UNCHANGED <<macroVars, attrVars, noticeVars>>
     \/ running = "attributes" /\ AttrNext /\ UNCHANGED <<macroVars, fundVars, noticeVars>>
     \/ running = "notification" /\ NoticeNext /\ UNCHANGED <<macroVars, fundVars, attrVars>>
RefSpec == RefInit /\ [][RefNext]_refVars

TypeOK == MacroTypeOK /\ FundTypeOK /\ AttrTypeOK /\ NoticeTypeOK

\* Who keeps a copy of reference data keeps the owner's: what the consumers of
\* RegimeChanged believe, what the endpoint of fundamental-data answers beside
\* its panel, and what feature-engine merges into its vectors.
ConsumersAreCurrent == TypeOK /\ RegimeIsHeard /\ MemoryMatchesPanel /\ AttributesAreCurrent
=============================================================================
