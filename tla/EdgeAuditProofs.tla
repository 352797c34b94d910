-------------------------- MODULE EdgeAuditProofs --------------------------
(***************************************************************************)
(* Stages of a pipeline run complete in order, for any number of runs and  *)
(* stages and whichever write of the edge store fails.                     *)
(***************************************************************************)
EXTENDS EdgeAudit, TLAPS

\* An empty store is in order (EdgeAuditStore.__init__).
LEMMA EdgeInitIInv == EdgeInit => EdgeIInv
<1> SUFFICES ASSUME EdgeInit PROVE EdgeIInv
  OBVIOUS
<1>1. NoRunDir \in RunDir
  BY EdgeAuditAssumption
  DEF NoRunDir, NoStageDir, RunDir, StageDir, PipelineStates, Stages
<1>2. RunInOrder(NoRunDir)
  BY EdgeAuditAssumption DEF RunInOrder, NoRunDir, NoStageDir, Stages
<1>3. EdgeTypeOK
  <2>1. 0 \in 0 .. NumStages
    BY EdgeAuditAssumption
  <2>2. QED
    BY <1>1, <2>1, Zenon DEF EdgeInit, EdgeTypeOK
<1>4. ~stageActive /\ activeRun = NoRun /\ completedStages = 0
  BY DEF EdgeInit
<1>5. \A r \in Runs : RunInOrder(runs[r])
  BY <1>2 DEF EdgeInit
<1>6. QED
  BY <1>3, <1>4, <1>5 DEF EdgeIInv

\* Replacing one directory by one that is in order keeps all in order.
LEMMA WriteInOrder ==
  ASSUME EdgeIInv, NEW r \in Runs, NEW dir \in RunDir, RunInOrder(dir),
         WriteRun(r, dir)
  PROVE  /\ runs' \in [Runs -> RunDir]
         /\ runs'[r] = dir
         /\ \A q \in Runs : RunInOrder(runs'[q])
<1>1. /\ runs' \in [Runs -> RunDir]
      /\ runs'[r] = dir
      /\ \A q \in Runs : q # r => runs'[q] = runs[q]
  BY DEF EdgeIInv, EdgeTypeOK, WriteRun
<1>2. ASSUME NEW q \in Runs PROVE RunInOrder(runs'[q])
  <2>1. CASE q = r
    BY <1>1, <2>1
  <2>2. CASE q # r
    BY <1>1, <2>2 DEF EdgeIInv
  <2>3. QED BY <2>1, <2>2
<1>3. QED BY <1>1, <1>2

\* A manifest that counts no more than the completed stages, and says
\* COMPLETED only when all are, keeps a held directory in order.
LEMMA ManifestInOrder ==
  ASSUME NEW n \in 0 .. NumStages, NEW dir \in RunDir,
         RunInOrder(dir), HeldInOrder(dir, n),
         NEW status \in {"ACTIVE", "FAILED", "COMPLETED"},
         status = "COMPLETED" => n = NumStages,
         NEW state \in PipelineStates
  PROVE  /\ Manifest(dir, status, state, n) \in RunDir
         /\ RunInOrder(Manifest(dir, status, state, n))
         /\ HeldInOrder(Manifest(dir, status, state, n), n)
<1> DEFINE new == Manifest(dir, status, state, n)
<1>1. /\ new \in RunDir
      /\ new.stages = dir.stages
      /\ new.completed = n
      /\ new.manifest = status
  BY DEF RunDir, Manifest
<1>2. \A i \in Stages : i < n => dir.stages[i].evidence = "COMPLETED"
  BY DEF HeldInOrder
<1>3. n = NumStages => \A i \in Stages : i < n
  BY EdgeAuditAssumption DEF Stages
<1> HIDE DEF new
<1>4. RunInOrder(new)
  BY <1>1, <1>2, <1>3 DEF RunInOrder
<1>5. HeldInOrder(new, n)
  BY <1>1 DEF HeldInOrder
<1>6. QED BY <1>1, <1>4, <1>5 DEF new

\* Writing the evidence of the next stage keeps a held directory in order.
LEMMA EvidenceInOrder ==
  ASSUME NEW n \in Stages, NEW dir \in RunDir,
         RunInOrder(dir), HeldInOrder(dir, n),
         NEW e \in {"EMPTY", "ACTIVE", "COMPLETED"},
         dir.stages[n].evidence = "ABSENT" \/ e = "COMPLETED",
         NEW new, new = [dir EXCEPT !.stages[n].evidence = e]
  PROVE  /\ new \in RunDir
         /\ RunInOrder(new)
         /\ HeldInOrder(new, n)
         /\ e = "COMPLETED" => HeldInOrder(new, n + 1)
<1>1. /\ new \in RunDir
      /\ new.completed = dir.completed
      /\ new.manifest = dir.manifest
      /\ new.stages[n].evidence = e
      /\ \A i \in Stages : i # n => new.stages[i] = dir.stages[i]
  BY DEF RunDir, StageDir
<1>2. \A i \in Stages : i # n => i < n \/ i > n
  BY EdgeAuditAssumption DEF Stages
<1>3. /\ \A j \in Stages : j < n => new.stages[j].evidence = "COMPLETED"
      /\ \A j \in Stages : j > n => new.stages[j].evidence = "ABSENT"
  BY <1>1, <1>2, EdgeAuditAssumption DEF HeldInOrder, Stages
<1>4. HeldInOrder(new, n)
  BY <1>1, <1>3 DEF HeldInOrder
<1>5. RunInOrder(new)
  <2>1. \A i \in Stages : new.stages[i].evidence # "ABSENT" =>
           \A j \in 0 .. i - 1 : new.stages[j].evidence = "COMPLETED"
    BY <1>2, <1>3, EdgeAuditAssumption DEF Stages
  <2>2. \A i \in Stages : i < new.completed => new.stages[i].evidence = "COMPLETED"
    BY <1>1, <1>3, EdgeAuditAssumption DEF HeldInOrder, Stages, RunDir
  <2>3. new.manifest = "COMPLETED" =>
           \A i \in Stages : new.stages[i].evidence = "COMPLETED"
    BY <1>1 DEF RunInOrder
  <2>4. QED BY <2>1, <2>2, <2>3, <1>1 DEF RunInOrder, HeldInOrder
<1>6. e = "COMPLETED" => HeldInOrder(new, n + 1)
  BY <1>1, <1>2, <1>3, EdgeAuditAssumption DEF HeldInOrder, Stages, RunDir
<1>7. QED BY <1>1, <1>4, <1>5, <1>6

\* A failure file or a rollout line does not touch the order.
LEMMA OtherFilesInOrder ==
  ASSUME NEW n \in Stages, NEW k \in 0 .. NumStages, NEW dir \in RunDir,
         RunInOrder(dir), HeldInOrder(dir, k),
         NEW new,
         \/ new = [dir EXCEPT !.stages[n].failure = TRUE]
         \/ new = [dir EXCEPT !.stages[n].lines = @ + 1]
  PROVE  new \in RunDir /\ RunInOrder(new) /\ HeldInOrder(new, k)
<1>1. /\ new \in RunDir
      /\ new.completed = dir.completed
      /\ new.manifest = dir.manifest
      /\ \A i \in Stages : new.stages[i].evidence = dir.stages[i].evidence
  <2>1. CASE new = [dir EXCEPT !.stages[n].failure = TRUE]
    <3> DEFINE stage == [dir.stages[n] EXCEPT !.failure = TRUE]
    <3>1. dir.stages \in [Stages -> StageDir]
      BY DEF RunDir
    <3>2. stage \in StageDir
      BY <3>1, Zenon DEF StageDir
    <3>3. stage.evidence = dir.stages[n].evidence
      BY <3>1 DEF StageDir
    <3>4. new = [dir EXCEPT !.stages = [dir.stages EXCEPT ![n] = stage]]
      BY <2>1
    <3> HIDE DEF stage
    <3>5. QED BY <3>1, <3>2, <3>3, <3>4 DEF RunDir
  <2>2. CASE new = [dir EXCEPT !.stages[n].lines = @ + 1]
    BY <2>2 DEF RunDir, StageDir
  <2>3. QED BY <2>1, <2>2
<1>2. \A i \in Stages : \A j \in 0 .. i - 1 : j \in Stages
  BY EdgeAuditAssumption DEF Stages
<1>3. RunInOrder(new)
  BY <1>1, <1>2 DEF RunInOrder
<1>4. HeldInOrder(new, k)
  BY <1>1 DEF HeldInOrder
<1>5. QED BY <1>1, <1>3, <1>4

\* What the invariant says of the run the store holds.
LEMMA Held ==
  ASSUME EdgeIInv, activeRun # NoRun
  PROVE  /\ activeRun \in Runs
         /\ runs[activeRun] \in RunDir
         /\ RunInOrder(runs[activeRun])
         /\ HeldInOrder(runs[activeRun], completedStages)
  BY DEF EdgeIInv, EdgeTypeOK

\* begin, successful or not, keeps the store in order.
LEMMA BeginStep ==
  ASSUME EdgeIInv, NEW r \in Runs, EdgeBegin(r) \/ EdgeBeginFails(r)
  PROVE  EdgeIInv'
<1>1. CASE UNCHANGED edgeVars
  BY <1>1 DEF EdgeIInv, EdgeTypeOK, edgeVars, HeldInOrder, RunInOrder
<1>2. ASSUME activeRun = NoRun, RunIsNew(r), activeRun' = r,
             NEW dir, WriteRun(r, dir), UNCHANGED <<completedStages, stageActive>>,
             dir = [runs[r] EXCEPT !.manifest = "EMPTY"] \/ dir = Begun(r)
      PROVE  EdgeIInv'
  <2>1. /\ runs[r] \in RunDir
        /\ RunInOrder(runs[r])
        /\ runs[r].completed = 0
        /\ \A i \in Stages : runs[r].stages[i].evidence = "ABSENT"
    BY <1>2 DEF EdgeIInv, EdgeTypeOK, RunIsNew, RunInOrder
  <2>2. /\ dir \in RunDir
        /\ dir.completed = 0
        /\ dir.stages = runs[r].stages
        /\ dir.manifest \in {"EMPTY", "ACTIVE"}
    BY <1>2, <2>1, EdgeAuditAssumption DEF Begun, Manifest, RunDir, PipelineStates
  <2>3. RunInOrder(dir) /\ HeldInOrder(dir, 0)
    BY <2>1, <2>2, EdgeAuditAssumption DEF RunInOrder, HeldInOrder, Stages
  <2>4. /\ runs' \in [Runs -> RunDir]
        /\ runs'[r] = dir
        /\ \A q \in Runs : RunInOrder(runs'[q])
    BY <1>2, <2>2, <2>3, WriteInOrder
  <2>5. completedStages = 0 /\ stageActive = FALSE
    BY <1>2 DEF EdgeIInv, EdgeTypeOK
  <2>6. QED
    BY <1>2, <2>3, <2>4, <2>5, EdgeAuditAssumption DEF EdgeIInv, EdgeTypeOK
<1>3. QED
  BY <1>1, <1>2 DEF EdgeBegin, EdgeBeginFails

\* One write into the held directory, the run still being held.
LEMMA HeldStep ==
  ASSUME EdgeIInv, activeRun # NoRun, UNCHANGED activeRun,
         NEW dir \in RunDir, RunInOrder(dir), WriteRun(activeRun, dir),
         completedStages' \in 0 .. NumStages,
         HeldInOrder(dir, completedStages'),
         stageActive' \in BOOLEAN,
         stageActive' => completedStages' \in Stages
  PROVE  EdgeIInv'
<1>1. /\ runs' \in [Runs -> RunDir]
      /\ runs'[activeRun] = dir
      /\ \A q \in Runs : RunInOrder(runs'[q])
  BY Held, WriteInOrder
<1>2. QED
  BY <1>1 DEF EdgeIInv, EdgeTypeOK

\* set_pipeline_state, successful or not, keeps the store in order.
LEMMA SetStateStep ==
  ASSUME EdgeIInv, NEW state \in PipelineStates,
         SetPipelineState(state) \/ SetPipelineStateFails(state)
  PROVE  EdgeIInv'
<1>1. CASE UNCHANGED edgeVars
  BY <1>1 DEF EdgeIInv, EdgeTypeOK, edgeVars, HeldInOrder, RunInOrder
<1>2. CASE activeRun # NoRun /\ WriteRun(activeRun, Reporting(state)) /\ Fields
  <2>1. /\ Reporting(state) \in RunDir
        /\ RunInOrder(Reporting(state))
        /\ HeldInOrder(Reporting(state), completedStages)
    BY <1>2, Held, ManifestInOrder DEF Reporting, EdgeIInv, EdgeTypeOK
  <2>2. QED
    BY <1>2, <2>1, HeldStep DEF Fields, EdgeIInv, EdgeTypeOK
<1>3. QED
  BY <1>1, <1>2 DEF SetPipelineState, SetPipelineStateFails, Fields, edgeVars

\* start_stage, successful or not, keeps the store in order.
LEMMA StartStep ==
  ASSUME EdgeIInv, NEW i \in Stages, StartStage(i) \/ StartStageFails(i)
  PROVE  EdgeIInv'
<1>1. CASE UNCHANGED edgeVars
  BY <1>1 DEF EdgeIInv, EdgeTypeOK, edgeVars, HeldInOrder, RunInOrder
<1>2. ASSUME NEW e \in {"EMPTY", "ACTIVE"}, CanStart(i), stageActive' = TRUE,
             WriteRun(activeRun, InStage(i, "evidence", e)),
             UNCHANGED <<activeRun, completedStages>>
      PROVE  EdgeIInv'
  <2> DEFINE dir == InStage(i, "evidence", e)
  <2>1. /\ activeRun # NoRun
        /\ i = completedStages
        /\ runs[activeRun].stages[i].evidence = "ABSENT"
    BY <1>2 DEF CanStart
  <2>2. dir = [runs[activeRun] EXCEPT !.stages[i].evidence = e]
    BY DEF InStage
  <2> HIDE DEF dir
  <2>3. dir \in RunDir /\ RunInOrder(dir) /\ HeldInOrder(dir, completedStages)
    BY <2>1, <2>2, Held, EvidenceInOrder
  <2>4. WriteRun(activeRun, dir)
    BY <1>2 DEF dir
  <2>5. QED
    BY <1>2, <2>1, <2>3, <2>4, HeldStep DEF EdgeIInv, EdgeTypeOK
<1>3. QED
  BY <1>1, <1>2 DEF StartStage, StartStageFails

\* record_rollout, successful or not, keeps the store in order.
LEMMA RecordStep ==
  ASSUME EdgeIInv, RecordRollout \/ RecordRolloutFails
  PROVE  EdgeIInv'
<1>1. CASE UNCHANGED edgeVars
  BY <1>1 DEF EdgeIInv, EdgeTypeOK, edgeVars, HeldInOrder, RunInOrder
<1>2. CASE RecordRollout
  <2> DEFINE dir == InStage(completedStages, "lines", 1)
  <2>1. activeRun # NoRun /\ completedStages \in Stages
    BY <1>2 DEF RecordRollout, EdgeIInv
  <2>2. dir = [runs[activeRun] EXCEPT !.stages[completedStages].lines = @ + 1]
    BY DEF InStage
  <2> HIDE DEF dir
  <2>3. dir \in RunDir /\ RunInOrder(dir) /\ HeldInOrder(dir, completedStages)
    BY <2>1, <2>2, Held, OtherFilesInOrder DEF EdgeIInv, EdgeTypeOK
  <2>4. WriteRun(activeRun, dir) /\ Fields
    BY <1>2 DEF dir, RecordRollout
  <2>5. QED
    BY <2>1, <2>3, <2>4, HeldStep DEF Fields, EdgeIInv, EdgeTypeOK
<1>3. QED
  BY <1>1, <1>2 DEF RecordRolloutFails, Fields, edgeVars

\* complete_stage, whichever of its writes fails, keeps the store in order.
LEMMA CompleteStageStep ==
  ASSUME EdgeIInv, NEW e \in StageEvidence, CompleteStage(e) \/ CompleteStageFails(e)
  PROVE  EdgeIInv'
<1>1. CASE UNCHANGED edgeVars
  BY <1>1 DEF EdgeIInv, EdgeTypeOK, edgeVars, HeldInOrder, RunInOrder
<1>2. CASE CanComplete(e)
  <2> DEFINE n == completedStages
  <2>1. activeRun # NoRun /\ n \in Stages /\ n + 1 \in 0 .. NumStages
    BY <1>2, EdgeAuditAssumption DEF CanComplete, EdgeIInv, Stages
  <2>2. StageCompleted = [runs[activeRun] EXCEPT !.stages[n].evidence = "COMPLETED"]
    BY DEF StageCompleted, InStage
  <2>3. /\ StageCompleted \in RunDir
        /\ RunInOrder(StageCompleted)
        /\ HeldInOrder(StageCompleted, n)
        /\ HeldInOrder(StageCompleted, n + 1)
    BY <2>1, <2>2, Held, EvidenceInOrder
  <2>4. /\ HandedOff \in RunDir
        /\ RunInOrder(HandedOff)
        /\ HeldInOrder(HandedOff, n + 1)
    BY <2>1, <2>3, ManifestInOrder DEF HandedOff, PipelineStates
  <2>5. CASE WriteRun(activeRun, StageCompleted) /\ Fields
    BY <2>1, <2>3, <2>5, HeldStep DEF Fields, EdgeIInv, EdgeTypeOK
  <2>6. CASE WriteRun(activeRun, StageCompleted) /\ CountStage /\ UNCHANGED activeRun
    BY <2>1, <2>3, <2>6, HeldStep DEF CountStage
  <2>7. CASE WriteRun(activeRun, HandedOff) /\ CountStage /\ UNCHANGED activeRun
    BY <2>1, <2>4, <2>7, HeldStep DEF CountStage
  <2>8. QED
    BY <1>1, <2>5, <2>6, <2>7 DEF CompleteStage, CompleteStageFails
<1>3. QED
  BY <1>1, <1>2 DEF CompleteStage, CompleteStageFails

\* The store lets go of its run, or the process ends.
LEMMA ReleaseStep ==
  ASSUME EdgeIInv, Released, runs' \in [Runs -> RunDir],
         \A q \in Runs : RunInOrder(runs'[q])
  PROVE  EdgeIInv'
<1>1. EdgeTypeOK'
  <2>1. 0 \in 0 .. NumStages
    BY EdgeAuditAssumption
  <2>2. QED
    BY <2>1, Zenon DEF Released, EdgeTypeOK
<1>2. (~stageActive /\ activeRun = NoRun /\ completedStages = 0)'
  BY DEF Released
<1>3. QED
  BY <1>1, <1>2 DEF EdgeIInv

\* fail, whichever of its writes fails, keeps the store in order.
LEMMA FailStep ==
  ASSUME EdgeIInv, NEW state \in PipelineStates,
         EdgeFail(state) \/ EdgeFailFails(state)
  PROVE  EdgeIInv'
<1>1. CASE UNCHANGED edgeVars
  BY <1>1 DEF EdgeIInv, EdgeTypeOK, edgeVars, HeldInOrder, RunInOrder
<1>2. CASE activeRun # NoRun
  <2>1. /\ StageFailed \in RunDir
        /\ RunInOrder(StageFailed)
        /\ HeldInOrder(StageFailed, completedStages)
    <3>1. CASE stageActive
      <4>1. StageFailed =
               [runs[activeRun] EXCEPT !.stages[completedStages].failure = TRUE]
        BY <3>1 DEF StageFailed, InStage
      <4>2. completedStages \in Stages /\ completedStages \in 0 .. NumStages
        BY <3>1 DEF EdgeIInv, EdgeTypeOK
      <4>3. QED
        BY <1>2, <4>1, <4>2, Held, OtherFilesInOrder
    <3>2. CASE ~stageActive
      BY <1>2, <3>2, Held DEF StageFailed
    <3>3. QED BY <3>1, <3>2
  <2>2. /\ RunFailed(state) \in RunDir
        /\ RunInOrder(RunFailed(state))
        /\ HeldInOrder(RunFailed(state), completedStages)
    BY <2>1, ManifestInOrder DEF RunFailed, EdgeIInv, EdgeTypeOK
  <2>3. CASE WriteRun(activeRun, RunFailed(state)) /\ Released
    BY <1>2, <2>2, <2>3, Held, WriteInOrder, ReleaseStep
  <2>4. CASE WriteRun(activeRun, StageFailed) /\ Fields
    BY <1>2, <2>1, <2>4, HeldStep DEF Fields, EdgeIInv, EdgeTypeOK
  <2>5. CASE /\ WriteRun(activeRun, StageFailed) \/ WriteRun(activeRun, RunFailed(state))
             /\ stageActive' = FALSE
             /\ UNCHANGED <<activeRun, completedStages>>
    BY <1>2, <2>1, <2>2, <2>5, HeldStep DEF EdgeIInv, EdgeTypeOK
  <2>6. QED
    BY <1>1, <2>3, <2>4, <2>5 DEF EdgeFail, EdgeFailFails
<1>3. QED
  BY <1>1, <1>2 DEF EdgeFail, EdgeFailFails

\* complete, successful or not, keeps the store in order.
LEMMA CompleteStep ==
  ASSUME EdgeIInv, EdgeComplete \/ EdgeCompleteFails
  PROVE  EdgeIInv'
<1>1. CASE UNCHANGED edgeVars
  BY <1>1 DEF EdgeIInv, EdgeTypeOK, edgeVars, HeldInOrder, RunInOrder
<1>2. CASE CanCompleteRun /\ WriteRun(activeRun, RunCompleted)
  <2>1. /\ activeRun # NoRun
        /\ completedStages = NumStages
        /\ completedStages \in 0 .. NumStages
    BY <1>2 DEF CanCompleteRun, EdgeIInv, EdgeTypeOK
  <2>2. /\ RunCompleted \in RunDir
        /\ RunInOrder(RunCompleted)
        /\ HeldInOrder(RunCompleted, completedStages)
    BY <2>1, Held, ManifestInOrder DEF RunCompleted, PipelineStates
  <2>3. CASE Released
    BY <1>2, <2>1, <2>2, <2>3, Held, WriteInOrder, ReleaseStep
  <2>4. CASE Fields
    BY <1>2, <2>1, <2>2, <2>4, HeldStep DEF Fields, EdgeIInv, EdgeTypeOK
  <2>5. QED
    BY <2>3, <2>4 DEF EdgeComplete, EdgeCompleteFails
<1>3. QED
  BY <1>1, <1>2 DEF EdgeComplete, EdgeCompleteFails, Fields, edgeVars

\* The invariant is inductive: every call of the store keeps it.
LEMMA EdgeNextIInv == EdgeIInv /\ [EdgeNext]_edgeVars => EdgeIInv'
<1> SUFFICES ASSUME EdgeIInv, [EdgeNext]_edgeVars PROVE EdgeIInv'
  OBVIOUS
<1>1. CASE UNCHANGED edgeVars
  BY <1>1 DEF EdgeIInv, EdgeTypeOK, edgeVars, HeldInOrder, RunInOrder
<1>2. CASE EdgeExit
  BY <1>2, ReleaseStep DEF EdgeExit, EdgeIInv, EdgeTypeOK
<1>3. "PREFLIGHT" \in PipelineStates /\ "FAILED" \in PipelineStates
  BY DEF PipelineStates
<1>4. QED
  BY <1>1, <1>2, <1>3, BeginStep, SetStateStep, StartStep, RecordStep,
     CompleteStageStep, FailStep, CompleteStep DEF EdgeNext

\* The invariant holds under any sequence of calls of the store, whichever of
\* their writes fail and whenever the process ends (edge/audit.py).
THEOREM EdgeInvariantHolds == EdgeSpec => []EdgeIInv
  BY EdgeInitIInv, EdgeNextIInv, PTL DEF EdgeSpec

\* S-013 for every run and any number of stages: directories appear in order
\* and the manifest counts only completed stages (start_stage, complete_stage).
THEOREM StagesAlwaysInOrder == EdgeSpec => []StagesCompleteInOrder
<1>1. EdgeIInv => StagesCompleteInOrder
  BY DEF EdgeIInv, RunInOrder, StagesCompleteInOrder, HasCompleted
<1>2. QED BY <1>1, EdgeInvariantHolds, PTL

\* S-013: a run whose manifest says COMPLETED has all its evidence (complete).
THEOREM CompletedRunAlwaysWhole == EdgeSpec => []CompletedRunIsWhole
<1>1. EdgeIInv => CompletedRunIsWhole
  BY DEF EdgeIInv, RunInOrder, CompletedRunIsWhole, HasCompleted
<1>2. QED BY <1>1, EdgeInvariantHolds, PTL
-----------------------------------------------------------------------------
(* The store implements the ledger.                                        *)

\* A call of the store, whoever makes it and whatever state it reports.
EdgeCall ==
    \/ \E r \in Runs : EdgeBegin(r) \/ EdgeBeginFails(r)
    \/ \E state \in PipelineStates : \/ SetPipelineState(state) \/ SetPipelineStateFails(state)
                                     \/ EdgeFail(state) \/ EdgeFailFails(state)
    \/ \E i \in Stages : StartStage(i) \/ StartStageFails(i)
    \/ RecordRollout \/ RecordRolloutFails
    \/ \E e \in StageEvidence : CompleteStage(e) \/ CompleteStageFails(e)
    \/ EdgeComplete \/ EdgeCompleteFails
    \/ EdgeExit

\* Every call keeps the invariant.
LEMMA EdgeCallIInv ==
  ASSUME EdgeIInv, EdgeCall
  PROVE  EdgeIInv'
<1>1. CASE EdgeExit
  BY <1>1, ReleaseStep DEF EdgeExit, EdgeIInv, EdgeTypeOK
<1>2. QED
  BY <1>1, BeginStep, SetStateStep, StartStep, RecordStep, CompleteStageStep, FailStep,
     CompleteStep DEF EdgeCall

\* Writing the directory of one run can change the verdict of that run only.
LEMMA RunVerdictBecomes ==
  ASSUME EdgeIInv, NEW r \in Runs, NEW v, RunVerdict(r)' = v,
         runs' = [runs EXCEPT ![r] = runs'[r]] \/ runs' = runs,
         activeRun \in {r, NoRun}, activeRun' \in {r, NoRun}
  PROVE  [q \in Runs |-> RunVerdict(q)]' = [[q \in Runs |-> RunVerdict(q)] EXCEPT ![r] = v]
<1>1. ASSUME NEW q \in Runs, q # r
      PROVE  RunVerdict(q)' = RunVerdict(q)
  <2>1. runs'[q] = runs[q]
    BY <1>1 DEF EdgeIInv, EdgeTypeOK
  <2>2. q # activeRun /\ q # activeRun'
    BY <1>1, EdgeAuditAssumption
  <2>3. QED BY <2>1, <2>2 DEF RunVerdict
<1>2. QED BY <1>1

\* A call that keeps its run open is invisible in the ledger.
LEMMA OpenCallInvisible ==
  ASSUME EdgeIInv, activeRun' = activeRun,
         activeRun # NoRun => (runs' = [runs EXCEPT ![activeRun] = runs'[activeRun]]
                               \/ runs' = runs),
         activeRun = NoRun => runs' = runs
  PROVE  UNCHANGED <<activeRun, [q \in Runs |-> RunVerdict(q)]>>
<1>1. CASE activeRun = NoRun
  BY <1>1 DEF RunVerdict
<1>2. CASE activeRun # NoRun
  <2>1. PICK r \in Runs : r = activeRun
    BY <1>2 DEF EdgeIInv, EdgeTypeOK
  <2>2. RunVerdict(r)' = "open" /\ RunVerdict(r) = "open"
    BY <2>1 DEF RunVerdict
  <2>3. QED BY <1>2, <2>1, <2>2, RunVerdictBecomes
<1>3. QED BY <1>1, <1>2

\* Every call is a step of the ledger or leaves it unchanged.
LEMMA CallIsRunLedgerStep ==
  ASSUME EdgeIInv, EdgeCall
  PROVE  [RunLedger!LedgerNext]_(RunLedger!ledgerVars)
<1> DEFINE V == [q \in Runs |-> RunVerdict(q)]
<1>0. runs \in [Runs -> RunDir] /\ activeRun \in Runs \cup {NoRun} /\ NoRun \notin Runs
  BY EdgeAuditAssumption DEF EdgeIInv, EdgeTypeOK
<1>1. ASSUME NEW r \in Runs, EdgeBegin(r) \/ EdgeBeginFails(r), ~UNCHANGED edgeVars
      PROVE  RunLedger!Open(r)
  <2>1. activeRun = NoRun /\ activeRun' = r /\ RunIsNew(r)
    BY <1>1 DEF EdgeBegin, EdgeBeginFails
  <2>2. RunVerdict(r)' = "open" /\ RunVerdict(r) = "unused"
    BY <1>0, <2>1 DEF RunIsNew, RunVerdict
  <2>3. runs' = [runs EXCEPT ![r] = runs'[r]]
    BY <1>0, <1>1 DEF EdgeBegin, EdgeBeginFails, WriteRun
  <2>4. V' = [V EXCEPT ![r] = "open"]
    BY <2>1, <2>2, <2>3, RunVerdictBecomes
  <2>5. QED BY <2>1, <2>2, <2>4 DEF RunLedger!Open
<1>2. ASSUME \/ \E state \in PipelineStates : \/ SetPipelineState(state)
                                              \/ SetPipelineStateFails(state)
                                              \/ EdgeFailFails(state)
             \/ \E i \in Stages : StartStage(i) \/ StartStageFails(i)
             \/ RecordRollout \/ RecordRolloutFails
             \/ \E e \in StageEvidence : CompleteStage(e) \/ CompleteStageFails(e)
             \/ EdgeCompleteFails
      PROVE  UNCHANGED <<activeRun, V>>
  <2>1. activeRun' = activeRun
    BY <1>2 DEF SetPipelineState, SetPipelineStateFails, EdgeFailFails, StartStage,
       StartStageFails, RecordRollout, RecordRolloutFails, CompleteStage, CompleteStageFails,
       EdgeCompleteFails, Fields, edgeVars
  <2>2. runs' = runs \/ (activeRun # NoRun /\ \E dir : WriteRun(activeRun, dir))
    BY <1>2 DEF SetPipelineState, SetPipelineStateFails, EdgeFailFails, StartStage,
       StartStageFails, RecordRollout, RecordRolloutFails, CompleteStage, CompleteStageFails,
       EdgeCompleteFails, Fields, edgeVars, EdgeIInv, CanStart, CanComplete, CanCompleteRun
  <2>3. activeRun # NoRun => (runs' = [runs EXCEPT ![activeRun] = runs'[activeRun]]
                              \/ runs' = runs)
    BY <1>0, <2>2 DEF WriteRun
  <2>4. QED BY <2>1, <2>2, <2>3, OpenCallInvisible
<1>3. ASSUME EdgeComplete \/ \E state \in PipelineStates : EdgeFail(state)
      PROVE  \E r \in Runs : RunLedger!Seal(r)
  <2>1. PICK r \in Runs : r = activeRun
    BY <1>0, <1>3 DEF EdgeComplete, EdgeFail, CanCompleteRun
  <2>2. activeRun' = NoRun
    BY <1>3 DEF EdgeComplete, EdgeFail, Released
  <2>3. PICK v \in {"FAILED", "COMPLETED"} : runs'[r].manifest = v
    <3>1. StageFailed \in RunDir
      <4>1. runs[r] \in RunDir
        BY <1>0
      <4>2. CASE stageActive
        BY <4>1, <4>2, <2>1 DEF StageFailed, InStage, RunDir, StageDir, EdgeIInv
      <4>3. CASE ~stageActive
        BY <4>1, <4>3, <2>1 DEF StageFailed
      <4>4. QED BY <4>2, <4>3
    <3>2. \A dir \in RunDir : \A status, state, n : Manifest(dir, status, state, n).manifest = status
      BY DEF Manifest, RunDir
    <3>3. RunCompleted.manifest = "COMPLETED" /\ \A state : RunFailed(state).manifest = "FAILED"
      BY <1>0, <2>1, <3>1, <3>2 DEF RunCompleted, RunFailed
    <3>4. QED
      BY <1>0, <1>3, <2>1, <3>3 DEF EdgeComplete, EdgeFail, WriteRun
  <2>4. runs' = [runs EXCEPT ![r] = runs'[r]]
    BY <1>0, <1>3, <2>1 DEF EdgeComplete, EdgeFail, WriteRun
  <2>5. RunVerdict(r)' = v
    BY <1>0, <2>2, <2>3 DEF RunVerdict
  <2>6. V' = [V EXCEPT ![r] = v]
    BY <2>1, <2>2, <2>4, <2>5, RunVerdictBecomes
  <2>7. QED BY <2>1, <2>2, <2>6 DEF RunLedger!Seal
<1>4. ASSUME EdgeExit, activeRun # NoRun
      PROVE  \E r \in Runs : RunLedger!Abandon(r)
  <2>1. PICK r \in Runs : r = activeRun
    BY <1>0, <1>4
  <2>2. activeRun' = NoRun /\ runs' = runs
    BY <1>4 DEF EdgeExit, Released
  <2>3. runs[r].manifest \in {"EMPTY", "ACTIVE", "FAILED", "COMPLETED"}
    BY <1>0, <2>1, Held DEF HeldInOrder, RunDir
  <2>4. PICK v \in {"FAILED", "COMPLETED", "unfinished"} : RunVerdict(r)' = v
    BY <1>0, <2>2, <2>3 DEF RunVerdict
  <2>5. V' = [V EXCEPT ![r] = v]
    BY <2>1, <2>2, <2>4, RunVerdictBecomes
  <2>6. QED BY <2>1, <2>2, <2>5 DEF RunLedger!Abandon
<1>5. (UNCHANGED edgeVars) \/ (EdgeExit /\ activeRun = NoRun) => UNCHANGED <<activeRun, V>>
  BY DEF edgeVars, RunVerdict, EdgeExit, Released
<1>6. QED
  BY <1>1, <1>2, <1>3, <1>4, <1>5
  DEF EdgeCall, RunLedger!LedgerNext, RunLedger!ledgerVars

LEMMA RunLedgerStart == EdgeInit => RunLedger!LedgerInit
  BY EdgeAuditAssumption DEF EdgeInit, RunLedger!LedgerInit, RunVerdict, NoRunDir

\* S-014: whatever write fails and wherever the process ends, a run id is used
\* once, one run is open, and a verdict that was given stays (EdgeAuditStore).
THEOREM EdgeStoreImplementsLedger == EdgeSpec => EdgeImplementsLedger
<1>1. EdgeNext => EdgeCall
  BY DEF EdgeNext, EdgeCall, PipelineStates
<1>2. EdgeIInv /\ [EdgeNext]_edgeVars => [RunLedger!LedgerNext]_(RunLedger!ledgerVars)
  <2>1. (UNCHANGED edgeVars) => UNCHANGED RunLedger!ledgerVars
    BY DEF edgeVars, RunLedger!ledgerVars, RunVerdict
  <2>2. QED BY <1>1, <2>1, CallIsRunLedgerStep
<1>3. QED
  BY <1>2, RunLedgerStart, EdgeInvariantHolds, PTL
  DEF EdgeSpec, EdgeImplementsLedger, RunLedger!LedgerSpec
=============================================================================
