----------------------------- MODULE EdgeAudit -----------------------------
(***************************************************************************)
(* EdgeAuditStore (edge/audit.py): the evidence of a pipeline run, kept as *)
(* files in a directory per run id with a directory per stage.  As in the  *)
(* server's store every write may fail, before or after its rename; unlike *)
(* there, begin, start_stage, complete_stage and fail write several files  *)
(* and change the store's own fields between them.                         *)
(***************************************************************************)
EXTENDS Integers

CONSTANTS Runs, NoRun,   \* run ids
          NumStages,     \* planned skills of a run: one, or the fixed four
          MaxLines       \* bound: lines of one rollout.jsonl

ASSUME EdgeAuditAssumption ==
    /\ NoRun \notin Runs
    /\ NumStages \in Nat \ {0}
    /\ MaxLines \in Nat

VARIABLES activeRun,         \* run id of EdgeAuditStore._active, or NoRun
          completedStages,   \* _active.completed_stages
          stageActive,       \* _active.active_stage_directory is not None: it
                             \* is then the directory of stage completedStages
          runs               \* runs[r]: the directory of run r

edgeVars == <<activeRun, completedStages, stageActive, runs>>

Stages == 0 .. NumStages - 1

PipelineStates == {"CREATED", "PREFLIGHT", "RESETTING", "PREPARING_POLICY",
                   "READY_TO_ROLLOUT", "ROLLOUT", "JOINT_GATE", "CHECKING",
                   "HANDOFF", "COMPLETED", "SAFE_STOP", "FAILED"}

\* ABSENT: no directory.  EMPTY: a directory without its json file.
StageDir == [evidence : {"ABSENT", "EMPTY", "ACTIVE", "COMPLETED"},
             failure  : BOOLEAN,       \* stage_failure.json
             lines    : Nat]           \* rollout.jsonl

RunDir == [manifest  : {"ABSENT", "EMPTY", "ACTIVE", "FAILED", "COMPLETED"},
           pipeline  : PipelineStates,
           completed : 0 .. NumStages,
           stages    : [Stages -> StageDir]]

NoStageDir == [evidence |-> "ABSENT", failure |-> FALSE, lines |-> 0]
NoRunDir   == [manifest |-> "ABSENT", pipeline |-> "CREATED", completed |-> 0,
               stages |-> [i \in Stages |-> NoStageDir]]

EdgeTypeOK == /\ activeRun \in Runs \cup {NoRun}
              /\ completedStages \in 0 .. NumStages
              /\ stageActive \in BOOLEAN
              /\ runs \in [Runs -> RunDir]

EdgeInit == /\ activeRun = NoRun
            /\ completedStages = 0
            /\ stageActive = FALSE
            /\ runs = [r \in Runs |-> NoRunDir]

-----------------------------------------------------------------------------
\* What a call leaves in the directory of the active run.
Manifest(dir, status, state, n) ==
    [dir EXCEPT !.manifest = status, !.pipeline = state, !.completed = n]
InStage(i, file, value) ==
    CASE file = "evidence" -> [runs[activeRun] EXCEPT !.stages[i].evidence = value]
      [] file = "failure"  -> [runs[activeRun] EXCEPT !.stages[i].failure = value]
      [] file = "lines"    -> [runs[activeRun] EXCEPT !.stages[i].lines = @ + value]
WriteRun(r, dir) == runs' = [runs EXCEPT ![r] = dir]
Fields           == UNCHANGED <<activeRun, completedStages, stageActive>>
Released         == activeRun' = NoRun /\ completedStages' = 0 /\ stageActive' = FALSE

\* Mutant of RunIsNew: mkdir(exist_ok=True).
RunMayExist(r) == r \in Runs

RunIsNew(r) == runs[r].manifest = "ABSENT"

Begun(r) == Manifest(runs[r], "ACTIVE", "CREATED", 0)

\* begin: mkdir(exist_ok=False), _active, the ACTIVE manifest.
EdgeBegin(r) ==
    /\ activeRun = NoRun
    /\ RunIsNew(r)
    /\ activeRun' = r
    /\ WriteRun(r, Begun(r))
    /\ UNCHANGED <<completedStages, stageActive>>

\* begin fails: refused, or after _active was set, with or without manifest.
EdgeBeginFails(r) ==
    \/ UNCHANGED edgeVars
    \/ /\ activeRun = NoRun
       /\ RunIsNew(r)
       /\ activeRun' = r
       /\ \/ WriteRun(r, [runs[r] EXCEPT !.manifest = "EMPTY"])
          \/ WriteRun(r, Begun(r))
       /\ UNCHANGED <<completedStages, stageActive>>

Reporting(state) == Manifest(runs[activeRun], "ACTIVE", state, completedStages)

SetPipelineState(state) ==
    /\ activeRun # NoRun
    /\ WriteRun(activeRun, Reporting(state))
    /\ Fields

SetPipelineStateFails(state) ==
    /\ Fields
    /\ \/ UNCHANGED runs
       \/ activeRun # NoRun /\ WriteRun(activeRun, Reporting(state))

\* Mutant of CanStart: a stage that is not the next one may start.
CanStartAny(i) == /\ activeRun # NoRun
                  /\ ~stageActive
                  /\ i \in Stages
                  /\ runs[activeRun].stages[i].evidence = "ABSENT"

\* start_stage takes the next planned stage only, in a new directory.
CanStart(i) == /\ activeRun # NoRun
               /\ ~stageActive
               /\ i = completedStages
               /\ i \in Stages
               /\ runs[activeRun].stages[i].evidence = "ABSENT"

StartStage(i) ==
    /\ CanStart(i)
    /\ stageActive' = TRUE
    /\ WriteRun(activeRun, InStage(i, "evidence", "ACTIVE"))
    /\ UNCHANGED <<activeRun, completedStages>>

\* start_stage fails: refused, or once the stage is active, with or without
\* its file.
StartStageFails(i) ==
    \/ UNCHANGED edgeVars
    \/ /\ CanStart(i)
       /\ stageActive' = TRUE
       /\ \E e \in {"EMPTY", "ACTIVE"} : WriteRun(activeRun, InStage(i, "evidence", e))
       /\ UNCHANGED <<activeRun, completedStages>>

RecordRollout ==
    /\ stageActive
    /\ WriteRun(activeRun, InStage(completedStages, "lines", 1))
    /\ Fields

\* The line may be in the file when its fsync fails.
RecordRolloutFails == (UNCHANGED runs /\ Fields) \/ RecordRollout

-----------------------------------------------------------------------------
\* StageEvidence, without its constant exit code and end reason.
StageEvidence == [joint_gate   : {"PASSED", "FAILED"},
                  checker      : {"PASSED", "NOT_REQUIRED", "FAILED"},
                  server_audit : {"PASSED", "FAILED"},
                  edge_audit   : {"PASSED", "FAILED"}]

Completed(e) == /\ e.joint_gate = "PASSED"
                /\ e.checker \in {"PASSED", "NOT_REQUIRED"}
                /\ e.server_audit = "PASSED"
                /\ e.edge_audit = "PASSED"

CanComplete(e) == Completed(e) /\ stageActive

\* Mutant of CountStage: active_stage_directory is not cleared.
CountStageKeepingDirectory ==
    completedStages' = completedStages + 1 /\ UNCHANGED stageActive

CountStage == completedStages' = completedStages + 1 /\ stageActive' = FALSE

StageCompleted == InStage(completedStages, "evidence", "COMPLETED")
HandedOff == Manifest(StageCompleted, "ACTIVE", "HANDOFF", completedStages + 1)

\* complete_stage: stage_evidence.json, the count, the manifest.
CompleteStage(e) ==
    /\ CanComplete(e)
    /\ CountStage
    /\ WriteRun(activeRun, HandedOff)
    /\ UNCHANGED activeRun

CompleteStageFails(e) ==
    \/ UNCHANGED edgeVars
    \/ CanComplete(e) /\ WriteRun(activeRun, StageCompleted) /\ Fields
    \/ /\ CanComplete(e)
       /\ CountStage
       /\ WriteRun(activeRun, StageCompleted) \/ WriteRun(activeRun, HandedOff)
       /\ UNCHANGED activeRun

-----------------------------------------------------------------------------
\* Mutant of StageFailed: the last stage is marked even when it was completed.
LastStageFailed ==
    InStage(IF stageActive \/ completedStages = 0 THEN completedStages
            ELSE completedStages - 1, "failure", TRUE)

\* stage_failure.json in the active stage, if there is one.
StageFailed == IF stageActive THEN InStage(completedStages, "failure", TRUE)
               ELSE runs[activeRun]
RunFailed(state) == Manifest(StageFailed, "FAILED", state, completedStages)

EdgeFail(state) ==
    /\ activeRun # NoRun
    /\ WriteRun(activeRun, RunFailed(state))
    /\ Released

\* fail raises between or after its files; the run stays active.
EdgeFailFails(state) ==
    \/ UNCHANGED edgeVars
    \/ activeRun # NoRun /\ WriteRun(activeRun, StageFailed) /\ Fields
    \/ /\ activeRun # NoRun
       /\ stageActive' = FALSE
       /\ WriteRun(activeRun, StageFailed) \/ WriteRun(activeRun, RunFailed(state))
       /\ UNCHANGED <<activeRun, completedStages>>

\* Mutant of CanCompleteRun: only the open stage is looked at.
CanCompleteAnyRun == activeRun # NoRun /\ ~stageActive

CanCompleteRun == /\ activeRun # NoRun
                  /\ ~stageActive
                  /\ completedStages = NumStages

RunCompleted == Manifest(runs[activeRun], "COMPLETED", "COMPLETED", completedStages)

EdgeComplete == CanCompleteRun /\ WriteRun(activeRun, RunCompleted) /\ Released

EdgeCompleteFails ==
    /\ Fields
    /\ UNCHANGED runs \/ (CanCompleteRun /\ WriteRun(activeRun, RunCompleted))

\* The process ends or dies: _active is lost, the files stay.
EdgeExit == Released /\ UNCHANGED runs

-----------------------------------------------------------------------------
\* The store alone, called in any order its interface allows; it does not
\* look at the pipeline state it is given, so one is enough.
EdgeNext ==
    \/ \E r \in Runs : EdgeBegin(r) \/ EdgeBeginFails(r)
    \/ SetPipelineState("PREFLIGHT") \/ SetPipelineStateFails("PREFLIGHT")
    \/ \E i \in Stages : StartStage(i) \/ StartStageFails(i)
    \/ /\ stageActive
       /\ runs[activeRun].stages[completedStages].lines < MaxLines
       /\ RecordRollout \/ RecordRolloutFails
    \/ \E e \in StageEvidence : CompleteStage(e) \/ CompleteStageFails(e)
    \/ EdgeFail("FAILED") \/ EdgeFailFails("FAILED")
    \/ EdgeComplete \/ EdgeCompleteFails
    \/ EdgeExit

EdgeSpec == EdgeInit /\ [][EdgeNext]_edgeVars

-----------------------------------------------------------------------------
HasCompleted(r, i) == runs[r].stages[i].evidence = "COMPLETED"

\* S-013: a stage has a directory only after all earlier ones have complete
\* evidence, and the manifest never counts a stage that has not
\* (start_stage, complete_stage and every way they fail).
StagesCompleteInOrder ==
    \A r \in Runs : \A i \in Stages :
        /\ runs[r].stages[i].evidence # "ABSENT" =>
              \A j \in 0 .. i - 1 : HasCompleted(r, j)
        /\ i < runs[r].completed => HasCompleted(r, i)

\* S-013: the manifest of a run says COMPLETED only when every planned stage
\* has complete evidence (complete).
CompletedRunIsWhole ==
    \A r \in Runs : runs[r].manifest = "COMPLETED" =>
        \A i \in Stages : HasCompleted(r, i)

\* One directory in order: S-013 as above, and nothing in an unused one.
RunInOrder(dir) ==
    /\ \A i \in Stages :
          /\ dir.stages[i].evidence # "ABSENT" =>
                \A j \in 0 .. i - 1 : dir.stages[j].evidence = "COMPLETED"
          /\ i < dir.completed => dir.stages[i].evidence = "COMPLETED"
    /\ dir.manifest = "COMPLETED" =>
          \A i \in Stages : dir.stages[i].evidence = "COMPLETED"
    /\ dir.manifest = "ABSENT" =>
          dir.completed = 0 /\ \A i \in Stages : dir.stages[i].evidence = "ABSENT"

\* The directory of the held run with n stages counted: those have their
\* evidence, and only stage n may have a directory beside them.
HeldInOrder(dir, n) ==
    /\ \A j \in Stages : j < n => dir.stages[j].evidence = "COMPLETED"
    /\ \A j \in Stages : j > n => dir.stages[j].evidence = "ABSENT"
    /\ dir.completed <= n
    /\ dir.manifest # "ABSENT"

\* The strengthening the proofs rest on: what the fields of the store say of
\* the directory it holds, through every failure (ActiveEdgeRun).
EdgeIInv ==
    /\ EdgeTypeOK
    /\ stageActive => activeRun # NoRun /\ completedStages \in Stages
    /\ activeRun = NoRun => completedStages = 0
    /\ activeRun # NoRun => HeldInOrder(runs[activeRun], completedStages)
    /\ \A r \in Runs : RunInOrder(runs[r])

\* The store as an EvidenceLedger, as for TrialAudit.
RunVerdict(r) ==
    CASE r = activeRun                                    -> "open"
      [] r # activeRun /\ runs[r].manifest = "ABSENT"     -> "unused"
      [] r # activeRun /\ runs[r].manifest \in {"EMPTY", "ACTIVE"} -> "unfinished"
      [] OTHER                                            -> runs[r].manifest

RunLedger == INSTANCE EvidenceLedger
               WITH Ids <- Runs, NoId <- NoRun, Sealed <- {"FAILED", "COMPLETED"},
                    current <- activeRun,
                    verdict <- [r \in Runs |-> RunVerdict(r)]

\* S-014: a run id is used once, one run is open, and no call touches the
\* verdict of a run the store has let go of.
EdgeImplementsLedger == RunLedger!LedgerSpec
=============================================================================
