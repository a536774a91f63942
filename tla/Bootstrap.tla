----------------------------- MODULE Bootstrap -----------------------------
(***************************************************************************)
(* scripts/bootstrap-universe.py, run and rerun: it fetches the bars of a  *)
(* universe symbol by symbol, keeping a progress file a later run resumes  *)
(* from, reads back what is stored, runs the stages asked for one after    *)
(* the other, and writes its report and exit code at the very end.  It may *)
(* be killed at any moment.                                                *)
(***************************************************************************)
EXTENDS Integers, Sequences, FiniteSets

CONSTANTS
  Tickers,       \* the symbols of every plan
  Plans,         \* command lines: [symbols, years, resume, skip, stages]
  Unknown,       \* tickers no provider serves
  MaxBootRuns,   \* bound: times the script is started
  MaxBootFaults  \* bound: replies lost, failed stages and kills, together

StageOrder == <<"fundamentals", "target_study", "sector_study", "cpcv", "alpha_decay",
                "cost_study", "capacity_probe", "tune", "train">>
Stages == {StageOrder[i] : i \in DOMAIN StageOrder}

ASSUME BootstrapAssumption ==
  /\ Unknown \subseteq Tickers
  /\ \A p \in Plans : p.symbols \subseteq Tickers /\ p.stages \subseteq Stages /\ p.years \in Nat

VARIABLES
  depth,       \* market-data: per symbol, the years of history stored
  progress,    \* the progress file: [years, rows], rows the symbols it lists
  boot,        \* the run in progress
  bootRuns, bootFaults

bootVars == <<depth, progress, boot, bootRuns, bootFaults>>

NoProgress == [years |-> 0, rows |-> {}]
NoRun == [pc |-> "idle", plan |-> [symbols |-> {}, years |-> 0, resume |-> FALSE,
                                   skip |-> FALSE, stages |-> {}],
          rows |-> {}, tried |-> {}, covered |-> {}, stage |-> 0, failed |-> {},
          code |-> 0, used |-> {}]

BootInit ==
  /\ depth = [t \in Tickers |-> 0] /\ progress = NoProgress
  /\ boot = NoRun /\ bootRuns = 0 /\ bootFaults = 0

BootFault == bootFaults < MaxBootFaults /\ bootFaults' = bootFaults + 1

-----------------------------------------------------------------------------
(* The progress file                                                       *)

\* A mutant of LoadProgress: the depth asked for is not compared.
LoadProgressOfAnyDepth(plan) == IF plan.resume THEN progress.rows ELSE {}

\* Another depth is another backfill.
LoadProgress(plan) ==
  IF plan.resume /\ progress.years = plan.years THEN progress.rows ELSE {}

\* Written after every symbol, and replaced atomically; not with --no-resume.
ProgressSaved(plan, rows) ==
  IF plan.resume THEN [years |-> plan.years, rows |-> rows] ELSE progress

-----------------------------------------------------------------------------
(* The backfill                                                            *)

StartRun(plan) ==
  /\ boot.pc \in {"idle", "finished"} /\ bootRuns < MaxBootRuns
  /\ bootRuns' = bootRuns + 1
  /\ boot' = [NoRun EXCEPT !.pc = "fetching", !.plan = plan,
                           !.rows = IF plan.skip THEN {} ELSE LoadProgress(plan)]
  /\ UNCHANGED <<depth, progress, bootFaults>>

\* market-data upserts, so a deeper history stays.
Stored(t) == [depth EXCEPT ![t] = IF @ < boot.plan.years THEN boot.plan.years ELSE @]

\* One POST /fetch: stored and noted, refused, or its connection lost, the
\* bars stored or not.  Symbols the progress file lists are skipped.
FetchSymbol(t) ==
  /\ boot.pc = "fetching" /\ ~boot.plan.skip
  /\ t \in boot.plan.symbols \ (boot.rows \union boot.tried)
  /\ \/ /\ t \notin Unknown
        /\ depth' = Stored(t)
        /\ boot' = [boot EXCEPT !.rows = @ \union {t}]
        /\ progress' = ProgressSaved(boot.plan, boot.rows \union {t})
        /\ UNCHANGED bootFaults
     \/ /\ t \in Unknown
        /\ boot' = [boot EXCEPT !.tried = @ \union {t}]
        /\ UNCHANGED <<depth, progress, bootFaults>>
     \/ /\ BootFault
        /\ boot' = [boot EXCEPT !.tried = @ \union {t}]
        /\ depth' \in {depth} \union {Stored(u) : u \in {t} \ Unknown}
        /\ UNCHANGED progress

\* Everything the backfill lists is read back, the symbols of earlier runs
\* included; a read that fails counts as nothing stored.
ReadCoverage ==
  /\ boot.pc = "fetching"
  /\ boot.plan.skip \/ boot.plan.symbols \subseteq boot.rows \union boot.tried
  /\ LET toCheck == IF boot.plan.skip THEN boot.plan.symbols ELSE boot.rows
         stored  == {t \in toCheck : depth[t] > 0}
     IN  \/ /\ boot' = [boot EXCEPT !.pc = "stages", !.covered = stored, !.stage = 1,
                          !.code = IF boot.plan.symbols \subseteq stored THEN 0 ELSE 1]
            /\ UNCHANGED bootFaults
         \/ /\ stored # {} /\ BootFault
            /\ \E t \in stored :
                 boot' = [boot EXCEPT !.pc = "stages", !.covered = stored \ {t}, !.stage = 1,
                            !.code = IF boot.plan.symbols \subseteq stored \ {t} THEN 0 ELSE 1]
  /\ UNCHANGED <<depth, progress, bootRuns>>

-----------------------------------------------------------------------------
(* The stages.  Each posts its operation and waits (MlRuns); a 200, also   *)
(* one recovered after a timeout, is its report and code 0, anything else  *)
(* an error entry and code 1.                                              *)

\* TrainRequest: a cross-section has two names or more.
TrainRequest(symbols) == Cardinality(symbols) >= 2

\* _post_operation over the symbols, answered or not, and what it leaves in
\* the report: the body, or an error under a key of its own.
Study(symbols, answered, key) ==
  IF TrainRequest(symbols) /\ answered THEN [code |-> 0, key |-> key]
  ELSE [code |-> 1, key |-> key \o "_error"]

\* One POST per symbol, each failing on its own; no symbol with a filing is a
\* failure, some without are not.
FundamentalsStage(symbols, answered) ==
  [code |-> IF symbols # {} /\ answered THEN 0 ELSE 1, key |-> "fundamentals_backfill"]

RunTargetStudy(symbols, answered)   == Study(symbols, answered, "target_study")
RunSectorStudy(symbols, answered)   == Study(symbols, answered, "sector_study")
RunCpcv(symbols, answered)          == Study(symbols, answered, "cpcv")
RunAlphaDecay(symbols, answered)    == Study(symbols, answered, "alpha_decay")
RunCostStudy(symbols, answered)     == Study(symbols, answered, "cost_study")
RunCapacityProbe(symbols, answered) == Study(symbols, answered, "capacity_probe")
RunSweep(symbols, answered)         == Study(symbols, answered, "sweep")
\* A gate that failed, or a version that was not logged, is a result.
RunTraining(symbols, answered)      == Study(symbols, answered, "training")

StageResult(stage, symbols, answered) ==
  CASE stage = "fundamentals"   -> FundamentalsStage(symbols, answered)
    [] stage = "target_study"   -> RunTargetStudy(symbols, answered)
    [] stage = "sector_study"   -> RunSectorStudy(symbols, answered)
    [] stage = "cpcv"           -> RunCpcv(symbols, answered)
    [] stage = "alpha_decay"    -> RunAlphaDecay(symbols, answered)
    [] stage = "cost_study"     -> RunCostStudy(symbols, answered)
    [] stage = "capacity_probe" -> RunCapacityProbe(symbols, answered)
    [] stage = "tune"           -> RunSweep(symbols, answered)
    [] stage = "train"          -> RunTraining(symbols, answered)

Worst(code, next) == IF next > code THEN next ELSE code

\* The next stage, if asked for; the fundamentals stage takes the requested
\* symbols that have bars, every other stage all that have.
RunStage ==
  /\ boot.pc = "stages" /\ boot.stage <= Len(StageOrder)
  /\ LET s == StageOrder[boot.stage]
         trainable == IF s = "fundamentals" THEN boot.covered \cap boot.plan.symbols
                      ELSE boot.covered
     IN  \/ /\ s \notin boot.plan.stages
            /\ boot' = [boot EXCEPT !.stage = @ + 1]
            /\ UNCHANGED bootFaults
         \/ /\ s \in boot.plan.stages
            /\ \E answered \in BOOLEAN :
                 LET r == StageResult(s, trainable, answered)
                 IN  /\ IF answered THEN UNCHANGED bootFaults ELSE BootFault
                     /\ boot' = [boot EXCEPT !.stage = @ + 1, !.code = Worst(@, r.code),
                          !.failed = IF r.code = 0 THEN @ ELSE @ \union {r.key},
                          !.used = IF r.code = 0 THEN @ \union trainable ELSE @]
         \/ /\ s \in boot.plan.stages \ {"fundamentals"} /\ BootFault   \* sys.exit
            /\ boot' = NoRun
  /\ UNCHANGED <<depth, progress, bootRuns>>

WriteReport ==
  /\ boot.pc = "stages" /\ boot.stage > Len(StageOrder)
  /\ boot' = [boot EXCEPT !.pc = "finished"]
  /\ UNCHANGED <<depth, progress, bootRuns, bootFaults>>

Kill ==
  /\ boot.pc \in {"fetching", "stages"} /\ BootFault
  /\ boot' = NoRun
  /\ UNCHANGED <<depth, progress, bootRuns>>

BootNext ==
  \/ \E plan \in Plans : StartRun(plan)
  \/ \E t \in Tickers : FetchSymbol(t) /\ UNCHANGED bootRuns
  \/ ReadCoverage \/ RunStage \/ WriteReport \/ Kill

BootSpec == BootInit /\ [][BootNext]_bootVars

-----------------------------------------------------------------------------
(* Properties                                                              *)

\* Every variable has its type.
BootTypeOK ==
  /\ \A t \in Tickers : depth[t] \in Nat
  /\ progress.rows \subseteq Tickers
  /\ boot.pc \in {"idle", "fetching", "stages", "finished"}
  /\ boot.rows \intersect boot.tried = {} /\ boot.code \in {0, 1}

\* A symbol the progress file lists has its whole history stored, however the
\* runs were killed and whatever depth they asked for, so a resumed run may
\* skip it (bootstrap-universe.py:294-305).
ListedIsStored ==
  \A t \in progress.rows : depth[t] >= progress.years

\* "Exit code 0 when every requested symbol backfilled and training, if
\* requested, completed" (bootstrap-universe.py:27): every requested symbol is
\* stored and no stage failed, whichever came last.
ExitCodeIsHonest ==
  boot.pc = "finished" /\ boot.code = 0 =>
    boot.failed = {} /\ \A t \in boot.plan.symbols : depth[t] > 0

\* The stages of a run use symbols with bars, and none it was not asked for
\* unless a progress file it resumed listed them (bootstrap-universe.py:1711).
TrainsOnStored ==
  /\ \A t \in boot.used : depth[t] > 0
  /\ boot.plan.skip \/ ~boot.plan.resume => boot.used \subseteq boot.plan.symbols

\* A resumed run neither skips what is not stored nor trains on it nor reports
\* success without it (bootstrap-universe.py:294, 1711, 1789).
ResumeIsSound == BootTypeOK /\ ListedIsStored /\ TrainsOnStored /\ ExitCodeIsHonest
=============================================================================
