---------------------------- MODULE MCMlPipeline ----------------------------
EXTENDS MlServing, MlRuns, Bootstrap

MCBase == <<100, 0>>
MCOutcome == [d \in 1..3 |-> [up |-> d # 2, after |-> 1]]

Plan(s, y, r, k, t) == [symbols |-> s, years |-> y, resume |-> r, skip |-> k, stages |-> t]
MCPlans == {Plan({"A", "B", "C"}, 2, TRUE, FALSE, Stages),
            Plan({"A", "X"}, 1, TRUE, FALSE, {"target_study", "train"}),
            Plan({"A", "B"}, 2, FALSE, FALSE, {"train"}),
            Plan({"C"}, 2, TRUE, FALSE, {"fundamentals", "sector_study"}),
            Plan({"A", "B"}, 2, TRUE, TRUE, {"cpcv", "train"})}

\* Serving, the long operations and the script share no state here: each
\* behaviour runs one of them.
VARIABLE part
mlVars == <<part, servingVars, runVars, bootVars>>
MlInit == part \in {"serving", "runs", "bootstrap"} /\ ServingInit /\ RunsInit /\ BootInit
MlNext ==
  /\ UNCHANGED part
  /\ \/ part = "serving" /\ ServingNext /\ UNCHANGED <<runVars, bootVars>>
     \/ part = "runs" /\ RunsNext /\ UNCHANGED <<servingVars, bootVars>>
     \/ part = "bootstrap" /\ BootNext /\ UNCHANGED <<servingVars, runVars>>
MlSpec == MlInit /\ [][MlNext]_mlVars

TypeOK == ServingTypeOK /\ RunsTypeOK /\ BootTypeOK
=============================================================================
