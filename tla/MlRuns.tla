------------------------------- MODULE MlRuns -------------------------------
(***************************************************************************)
(* ml-pipeline's long operations and the script that waits for them.  A    *)
(* POST builds a dataset, fits on a worker thread, leaving a checkpoint    *)
(* per fold, and records its report, on disk and in memory, before it      *)
(* answers.  The caller whose socket timed out polls GET /runs for a       *)
(* report it has not seen.  Reports are known by their completed_at, here  *)
(* a stamp that grows; 0 is no report.                                     *)
(***************************************************************************)
EXTENDS Integers, Sequences, FiniteSets

CONSTANTS
  Operations,    \* "train", "tune", ...
  Checkpointing, \* those that checkpoint a pass: train
  RunCallers,    \* runs of the bootstrap script, and other callers
  Durable,       \* RUN_REPORT_DIR names a usable directory
  Folds,         \* checkpoints of a pass
  MaxPasses,     \* bound: operations posted
  MaxRunMishaps  \* bound: failed reads, failed writes and crashes, together

ASSUME RunsAssumption ==
  Checkpointing \subseteq Operations /\ Durable \in BOOLEAN /\ Folds \in Nat

VARIABLES
  serverUp,
  disk,        \* FileRunStore: per operation, the report's stamp
  checkpoint,  \* FileRunStore: per operation, the pass whose progress it holds
  memory,      \* MLPipelineService._runs
  passes,      \* every operation posted: [op, pc, folds, stamp]
  caller,      \* per caller: [pc, op, previous, pass, answer]
  stamp,       \* the clock of completed_at
  runMishaps

VARIABLES      \* history
  since,       \* per caller: the clock when its call began
  blind,       \* callers whose first look at /runs failed
  shared       \* callers during whose call another's pass of the operation ran

runStore == <<disk, checkpoint, memory>>
runHist  == <<since, blind, shared>>
runVars  == <<serverUp, runStore, passes, caller, stamp, runMishaps, runHist>>

Waiting == [pc |-> "idle", op |-> "none", previous |-> 0, pass |-> 0, answer |-> 0]

RunsInit ==
  /\ serverUp = TRUE
  /\ disk = [o \in Operations |-> 0] /\ checkpoint = disk /\ memory = disk
  /\ passes = <<>> /\ stamp = 0 /\ runMishaps = 0
  /\ caller = [c \in RunCallers |-> Waiting]
  /\ since = [c \in RunCallers |-> 0] /\ blind = {} /\ shared = {}

RunMishap == runMishaps < MaxRunMishaps /\ runMishaps' = runMishaps + 1

InFlight(p) == passes[p].pc \in {"dataset", "fitting", "recording"}
\* Nothing else runs on the event loop until a report is recorded.
LoopFree == serverUp /\ \A p \in DOMAIN passes : passes[p].pc # "recording"

\* last_run: memory, else disk.
LastRun(op) == IF memory[op] # 0 THEN memory[op] ELSE disk[op]

-----------------------------------------------------------------------------
(* The caller, _post_operation                                             *)

Overlapping(op, c) ==
  {d \in RunCallers \ {c} : /\ caller[d].op = op
                            /\ caller[d].pc \in {"asking", "waiting", "polling"}}

\* What is there before the call; a failed read is suppressed.
LookFirst(c, op) ==
  /\ caller[c].pc = "idle"
  /\ \/ /\ LoopFree
        /\ caller' = [caller EXCEPT ![c] = [Waiting EXCEPT !.pc = "asking", !.op = op,
                                                           !.previous = LastRun(op)]]
        /\ UNCHANGED <<runMishaps, blind>>
     \/ /\ RunMishap
        /\ caller' = [caller EXCEPT ![c] = [Waiting EXCEPT !.pc = "asking", !.op = op]]
        /\ blind' = blind \union {c}
  /\ since' = [since EXCEPT ![c] = stamp]
  /\ shared' = IF \/ Overlapping(op, c) # {}
                  \/ \E p \in DOMAIN passes : InFlight(p) /\ passes[p].op = op
                 THEN shared \union {c} \union Overlapping(op, c) ELSE shared
  /\ UNCHANGED <<serverUp, runStore, passes, stamp>>

\* A refused connection is taken for a timeout like any other.
PostOperation(c) ==
  /\ caller[c].pc = "asking"
  /\ IF serverUp
       THEN /\ LoopFree /\ Len(passes) < MaxPasses
            /\ passes' = Append(passes, [op |-> caller[c].op, pc |-> "dataset", folds |-> 0,
                                         stamp |-> 0])
            /\ caller' = [caller EXCEPT ![c].pc = "waiting", ![c].pass = Len(passes) + 1]
       ELSE caller' = [caller EXCEPT ![c].pc = "polling"] /\ UNCHANGED passes
  /\ UNCHANGED <<serverUp, runStore, stamp, runMishaps, runHist>>

\* The client gives its socket up; the server does not notice.
ReadTimeout(c) ==
  /\ caller[c].pc = "waiting"
  /\ caller' = [caller EXCEPT ![c].pc = "polling"]
  /\ UNCHANGED <<serverUp, runStore, passes, stamp, runMishaps, runHist>>

\* A mutant of PollRuns: any report will do.
PollRunsForAny(c) ==
  /\ caller[c].pc = "polling"
  /\ \/ /\ LoopFree /\ LastRun(caller[c].op) # 0
        /\ caller' = [caller EXCEPT ![c].pc = "recovered",
                                    ![c].answer = LastRun(caller[c].op)]
     \/ caller' = [caller EXCEPT ![c].pc = "failed"]
  /\ UNCHANGED <<serverUp, runStore, passes, stamp, runMishaps, runHist>>

\* A report other than the one seen first, or the deadline.
PollRuns(c) ==
  /\ caller[c].pc = "polling"
  /\ \/ /\ LoopFree /\ LastRun(caller[c].op) \notin {0, caller[c].previous}
        /\ caller' = [caller EXCEPT ![c].pc = "recovered",
                                    ![c].answer = LastRun(caller[c].op)]
     \/ caller' = [caller EXCEPT ![c].pc = "failed"]
  /\ UNCHANGED <<serverUp, runStore, passes, stamp, runMishaps, runHist>>

-----------------------------------------------------------------------------
(* The service                                                             *)

\* The caller still on the line of pass p hears how it ended.
Answered(p, pc, answer) ==
  [c \in RunCallers |-> IF caller[c].pc = "waiting" /\ caller[c].pass = p
                          THEN [caller[c] EXCEPT !.pc = pc, !.answer = answer] ELSE caller[c]]

\* Bars, panel and contract: the data suffice, or the answer is a 4xx or 5xx.
BuildDataset(p) ==
  /\ LoopFree /\ passes[p].pc = "dataset"
  /\ \/ passes' = [passes EXCEPT ![p].pc = "fitting"] /\ UNCHANGED caller
     \/ passes' = [passes EXCEPT ![p].pc = "failed"] /\ caller' = Answered(p, "failed", 0)
  /\ UNCHANGED <<serverUp, runStore, stamp, runMishaps, runHist>>

\* On the worker thread, so at any moment; a failed write is only logged.
SaveProgress(p) ==
  /\ serverUp /\ passes[p].pc = "fitting"
  /\ passes[p].op \in Checkpointing /\ passes[p].folds < Folds
  /\ passes' = [passes EXCEPT ![p].folds = @ + 1]
  /\ \/ checkpoint' = [checkpoint EXCEPT ![passes[p].op] = IF Durable THEN p ELSE 0]
        /\ UNCHANGED runMishaps
     \/ RunMishap /\ UNCHANGED checkpoint
  /\ UNCHANGED <<serverUp, disk, memory, caller, stamp, runHist>>

ClearProgress(op) == [checkpoint EXCEPT ![op] = 0]

\* The fit is over: its checkpoint goes, the version and baseline are made.
FinishFit(p) ==
  /\ LoopFree /\ passes[p].pc = "fitting"
  /\ checkpoint' = IF passes[p].op \in Checkpointing THEN ClearProgress(passes[p].op)
                   ELSE checkpoint
  /\ \/ passes' = [passes EXCEPT ![p].pc = "recording"] /\ UNCHANGED <<caller, runMishaps>>
     \/ /\ RunMishap
        /\ passes' = [passes EXCEPT ![p].pc = "failed"] /\ caller' = Answered(p, "failed", 0)
  /\ UNCHANGED <<serverUp, disk, memory, stamp, runHist>>

\* save, then the copy in memory, then the checkpoint; a report that cannot
\* be written fails the request.
RecordRun(p) ==
  /\ serverUp /\ passes[p].pc = "recording"
  /\ stamp' = stamp + 1
  /\ \/ /\ disk' = IF Durable THEN [disk EXCEPT ![passes[p].op] = stamp'] ELSE disk
        /\ memory' = [memory EXCEPT ![passes[p].op] = stamp']
        /\ checkpoint' = ClearProgress(passes[p].op)
        /\ passes' = [passes EXCEPT ![p].pc = "done", ![p].stamp = stamp']
        /\ caller' = Answered(p, "answered", stamp')
        /\ UNCHANGED runMishaps
     \/ /\ Durable /\ RunMishap
        /\ passes' = [passes EXCEPT ![p].pc = "failed"] /\ caller' = Answered(p, "failed", 0)
        /\ UNCHANGED runStore
  /\ UNCHANGED <<serverUp, runHist>>

\* The writes are atomic, so a crash leaves old files or new ones; the
\* callers on the line see a reset, and poll.
ServerCrash ==
  /\ serverUp /\ RunMishap /\ serverUp' = FALSE
  /\ memory' = [o \in Operations |-> 0]
  /\ passes' = [p \in DOMAIN passes |->
                  IF InFlight(p) THEN [passes[p] EXCEPT !.pc = "died"] ELSE passes[p]]
  /\ caller' = [c \in RunCallers |-> IF caller[c].pc = "waiting"
                  THEN [caller[c] EXCEPT !.pc = "polling"] ELSE caller[c]]
  /\ UNCHANGED <<disk, checkpoint, stamp, runHist>>

ServerRestart ==
  /\ ~serverUp /\ serverUp' = TRUE
  /\ UNCHANGED <<runStore, passes, caller, stamp, runMishaps, runHist>>

RunsNext ==
  \/ \E c \in RunCallers : \/ \E op \in Operations : LookFirst(c, op)
                           \/ PostOperation(c) \/ ReadTimeout(c) \/ PollRuns(c)
  \/ \E p \in DOMAIN passes : \/ BuildDataset(p) \/ SaveProgress(p) \/ FinishFit(p)
                              \/ RecordRun(p)
  \/ ServerCrash \/ ServerRestart

RunsSpec == RunsInit /\ [][RunsNext]_runVars

-----------------------------------------------------------------------------
(* Properties                                                              *)

\* Every variable has its type; a report in memory is the one on disk.
RunsTypeOK ==
  /\ \A o \in Operations : /\ {disk[o], memory[o]} \subseteq 0..stamp
                           /\ checkpoint[o] \in 0..Len(passes)
                           /\ Durable => memory[o] \in {0, disk[o]}
  /\ \A c \in RunCallers : /\ caller[c].pass \in 0..Len(passes)
                           /\ caller[c].pc \in {"idle", "asking", "waiting", "polling",
                                                "answered", "recovered", "failed"}
  /\ \A p \in DOMAIN passes : passes[p].folds \in 0..Folds

\* "Only a report that did not exist before this call is accepted"
\* (bootstrap-universe.py:242), over restarts too, when the first look at
\* /runs succeeded.
RecoveredIsFresh ==
  \A c \in RunCallers :
    caller[c].pc = "recovered" => caller[c].answer > since[c] \/ c \in blind

\* The same without the exception.
OnlyNewReportsAreAccepted ==
  \A c \in RunCallers : caller[c].pc = "recovered" => caller[c].answer > since[c]

\* The report recovered is the caller's own, unless another's pass of the same
\* operation ran during the call: one key holds the reports of all callers.
RecoveredIsOwn ==
  \A c \in RunCallers :
    caller[c].pc = "recovered" /\ c \notin blind \union shared =>
      caller[c].pass # 0 /\ passes[caller[c].pass].stamp = caller[c].answer

\* "Its presence next to a completed run of the same operation always means
\* this one did not finish" (routes.py:201): a checkpoint is never of a pass
\* that was recorded.
ProgressIsOfUnfinished ==
  \A o \in Operations : checkpoint[o] # 0 => passes[checkpoint[o]].pc # "done"

\* A report handed to a caller is on disk, so the next container has it or a
\* later one (service.py:135-140).
AnsweredIsDurable ==
  Durable => \A c \in RunCallers :
               caller[c].pc \in {"answered", "recovered"} =>
                 disk[caller[c].op] >= caller[c].answer

\* A caller that gave up waiting gets its own report or none, one that is on
\* disk, and a checkpoint is left only by a run that did not finish.
ReportsAreTheCallers ==
  /\ RunsTypeOK /\ RecoveredIsFresh /\ RecoveredIsOwn
  /\ ProgressIsOfUnfinished /\ AnsweredIsDurable
=============================================================================
