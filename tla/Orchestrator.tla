---------------------------- MODULE Orchestrator ----------------------------
(***************************************************************************)
(* PipelineOrchestrator (edge/orchestrator.py) with its audit store, its   *)
(* control and inference clients, and the policy server as PolicyService.  *)
(* One edge process at a time (the executor's process lock) makes one run. *)
(* Each call the orchestrator makes is one step, which either returns or   *)
(* raises; a call that raises may have had its effect, or, if it went to   *)
(* the server and LateCalls holds, may still have it later.  An interrupt  *)
(* between two calls is a call that raises without effect.                 *)
(***************************************************************************)
EXTENDS EdgeAudit, FiniteSets

CONSTANTS NoTrial, NoSession, NoSkill,
          Skills,
          Plan,           \* Plan[r][i]: the skill of stage i of run r
          Sessions,       \* session ids, fresh uuid4 values
          ResetBefore,    \* stages with reset_before
          Checked,        \* stages with checker_required
          MaxChunks,      \* max_chunks of a stage
          LateCalls,      \* do abandoned calls still reach the server?
          MaxInstances    \* bound: server processes

ASSUME OrchestratorAssumption ==
    /\ Plan \in [Runs -> [Stages -> Skills]]
    /\ ResetBefore \subseteq Stages
    /\ Checked \subseteq Stages
    /\ MaxChunks \in Nat \ {0}
    /\ LateCalls \in BOOLEAN
    /\ MaxInstances \in Nat \ {0}
    /\ NoTrial \notin Runs \X Stages
    /\ NoSession \notin Sessions

VARIABLES service, opened, trials,   \* the server: see PolicyService
          late,            \* calls the edge gave up on that may still arrive
          edge,            \* the edge process: PipelineOrchestrator and clients
          hasPublished,    \* _has_published of the action executor
          published,       \* history: published[t], chunks given to the arm
          passed           \* history: the gates each trial has passed

serverVars == <<service, opened, trials, late>>
armVars    == <<hasPublished, published, passed>>
orchVars   == <<edgeVars, serverVars, edge, armVars>>

\* run_id and index (and the skill, which they determine) make a trial_id.
Trials == Runs \X Stages
Server == INSTANCE PolicyService

\* PIPELINE_TRANSITIONS of common/state.py.
PipelineTransitions ==
    [s \in PipelineStates |->
        CASE s = "CREATED"          -> {"PREFLIGHT", "SAFE_STOP"}
          [] s = "PREFLIGHT"        -> {"RESETTING", "SAFE_STOP"}
          [] s = "RESETTING"        -> {"PREPARING_POLICY", "SAFE_STOP"}
          [] s = "PREPARING_POLICY" -> {"READY_TO_ROLLOUT", "SAFE_STOP"}
          [] s = "READY_TO_ROLLOUT" -> {"ROLLOUT", "SAFE_STOP"}
          [] s = "ROLLOUT"          -> {"JOINT_GATE", "SAFE_STOP"}
          [] s = "JOINT_GATE"       -> {"CHECKING", "SAFE_STOP"}
          [] s = "CHECKING"         -> {"HANDOFF", "SAFE_STOP"}
          [] s = "HANDOFF"          -> {"RESETTING", "COMPLETED", "SAFE_STOP"}
          [] s = "SAFE_STOP"        -> {"FAILED"}
          [] s \in {"COMPLETED", "FAILED"} -> {}]

\* The targets of _transition are steps too: about to make that transition.
Targets == {"PREFLIGHT", "RESETTING", "PREPARING_POLICY", "READY_TO_ROLLOUT",
            "ROLLOUT", "JOINT_GATE", "CHECKING", "HANDOFF", "COMPLETED"}
Calls == {"begin", "preflight", "start-stage", "reset", "prepare-skill",
          "begin-trial", "open-session", "begin-stage", "infer", "publish",
          "record", "stop", "close-session", "end-trial", "joint-gate",
          "checker", "complete-stage", "complete"}
Cleanup == {"safe-stop", "safe-close", "safe-abort", "fail"}
Ended   == {"over", "died"}

\* result: "rest" is stop_requested with a passed gate_result, "stopped" is
\* stop_requested without one, "more" is neither.
EdgeProcess == [run          : Runs \cup {NoRun},
                step         : Targets \cup Calls \cup Cleanup \cup Ended,
                pipeline     : PipelineStates,
                stage        : Stages,
                sequence     : 0 .. MaxChunks - 1,
                result       : {"none", "more", "rest", "stopped"},
                session      : Sessions \cup {NoSession},  \* _active_session_id
                trialStarted : BOOLEAN,
                server       : 0 .. MaxInstances,  \* _server_instance_id, 0 is None
                cleanup      : SUBSET {"action_stop", "close_session", "abort_trial"}]

NewProcess(r) == [run |-> r, step |-> "begin", pipeline |-> "CREATED", stage |-> 0,
                  sequence |-> 0, result |-> "none", session |-> NoSession,
                  trialStarted |-> FALSE, server |-> 0, cleanup |-> {}]

Trial == <<edge.run, edge.stage>>

\* Mutant of Skill: the first stage's skill is prepared for all of them.
FirstSkill == Plan[edge.run][0]

Skill == Plan[edge.run][edge.stage]

\* What may still be on its way to the server.
Command == [name : {"prepare-skill"}, skill : Skills]
           \cup [name : {"begin-trial"}, trial : Trials]
           \cup [name : {"open-session", "end-trial", "abort"}]
           \cup [name : {"close-session"}, session : Sessions]
           \cup [name : {"infer"}, session : Sessions, trial : Trials]

OrchTypeOK == /\ EdgeTypeOK
              /\ Server!ServiceTypeOK
              /\ late \subseteq Command
              /\ edge \in EdgeProcess
              /\ hasPublished \in BOOLEAN
              /\ published \in [Trials -> Nat]
              /\ passed \in [Trials -> SUBSET {"joint_gate", "checker"}]

OrchInit == /\ EdgeInit
            /\ Server!ServiceInit
            /\ late = {}
            /\ edge = [NewProcess(NoRun) EXCEPT !.step = "over"]
            /\ hasPublished = FALSE
            /\ published = [t \in Trials |-> 0]
            /\ passed = [t \in Trials |-> {}]

-----------------------------------------------------------------------------
At(s)      == edge.step = s
To(s)      == [edge EXCEPT !.step = s]
GoTo(s)    == edge' = To(s)
NoFiles    == UNCHANGED edgeVars
NoServer   == UNCHANGED serverVars
NoArm      == UNCHANGED armVars

\* Mutant of Raised: the remote side is cleaned up first.
RaisedRemoteFirst(e) == [e EXCEPT !.step = "safe-close", !.pipeline = "SAFE_STOP"]

\* An exception reaches run(): _safe_stop begins.
Raised(e) == [e EXCEPT !.step = "safe-stop",
                       !.pipeline = IF @ \in {"SAFE_STOP", "FAILED", "COMPLETED"}
                                    THEN @ ELSE "SAFE_STOP"]
Raise     == edge' = Raised(edge)

-----------------------------------------------------------------------------
\* Calls on the audit store.

\* begin is outside the try of run(): when it raises, the program ends.
Begin == /\ At("begin") /\ NoServer /\ NoArm
         /\ \/ EdgeBegin(edge.run) /\ GoTo("PREFLIGHT")
            \/ EdgeBeginFails(edge.run) /\ GoTo("over")

StartStageCall ==
    /\ At("start-stage") /\ NoServer /\ NoArm
    /\ \/ StartStage(edge.stage) /\ GoTo("RESETTING")
       \/ StartStageFails(edge.stage) /\ Raise

\* Mutant of NextStage: the loop over the stages does not end.
NextStageForever == [To("start-stage") EXCEPT !.stage = @ + 1]

NextStage == IF edge.stage + 1 \in Stages
             THEN [To("start-stage") EXCEPT !.stage = @ + 1]
             ELSE To("COMPLETED")

\* What follows each transition in run and _run_stage.
After(target) ==
    CASE target = "PREFLIGHT"        -> To("preflight")
      [] target = "RESETTING"        -> IF edge.stage \in ResetBefore THEN To("reset")
                                        ELSE To("PREPARING_POLICY")
      [] target = "PREPARING_POLICY" -> To("prepare-skill")
      [] target = "READY_TO_ROLLOUT" -> To("begin-stage")
      [] target = "ROLLOUT"          -> [To("infer") EXCEPT !.sequence = 0]
      [] target = "JOINT_GATE"       -> To("joint-gate")
      [] target = "CHECKING"         -> To("checker")
      [] target = "HANDOFF"          -> NextStage
      [] target = "COMPLETED"        -> To("complete")

\* _transition sets the state before it writes the manifest.
Transition(target) ==
    /\ At(target) /\ NoServer /\ NoArm
    /\ target \in PipelineTransitions[edge.pipeline]
    /\ \/ /\ SetPipelineState(target)
          /\ edge' = [After(target) EXCEPT !.pipeline = target]
       \/ /\ SetPipelineStateFails(target)
          /\ edge' = Raised([edge EXCEPT !.pipeline = target])

TransitionRaises(target) == At(target) /\ Raise /\ NoFiles /\ NoServer /\ NoArm

CompleteStageCall ==
    LET evidence == [joint_gate   |-> "PASSED",
                     checker      |-> IF edge.stage \in Checked THEN "PASSED"
                                      ELSE "NOT_REQUIRED",
                     server_audit |-> "PASSED", edge_audit |-> "PASSED"]
    IN  /\ At("complete-stage") /\ NoServer /\ NoArm
        /\ \/ CompleteStage(evidence) /\ GoTo("HANDOFF")
           \/ CompleteStageFails(evidence) /\ Raise

CompleteCall == /\ At("complete") /\ NoServer /\ NoArm
                /\ \/ EdgeComplete /\ GoTo("over")
                   \/ EdgeCompleteFails /\ Raise

-----------------------------------------------------------------------------
\* Calls to the server: control commands, and inference requests.

Executed(c) ==
    \/ c.name = "prepare-skill" /\ Server!PrepareSkill(c.skill)
    \/ c.name = "begin-trial"   /\ Server!BeginTrial(c.trial)
    \/ c.name = "open-session"  /\ \E s \in Sessions : Server!OpenSession(s)
    \/ c.name = "close-session" /\ Server!CloseSession(c.session)
    \/ c.name = "end-trial"     /\ Server!EndTrial
    \/ c.name = "abort"         /\ Server!Abort
    \/ c.name = "infer"         /\ Server!Infer(c.session, c.trial)

\* A command that fails on the server but leaves a trace.
ExecutedInPart(c) ==
    \/ c.name = "begin-trial" /\ Server!BeginTrialFails(c.trial)
    \/ c.name = "infer"       /\ Server!InferFails(c.session, c.trial)

SameServer == edge.server \in {0, service.instance}

\* SshControlClient.call and _control: a valid answer of the pinned instance.
Answered(c, next) ==
    /\ Executed(c)
    /\ SameServer
    /\ edge' = [next EXCEPT !.server = service.instance]
    /\ UNCHANGED late

\* Refused, failed, timed out, or executed and the answer lost or rejected.
\* Bound: one call at a time is still on its way.
Unanswered(c) ==
    \/ NoServer
    \/ (Executed(c) \/ ExecutedInPart(c)) /\ UNCHANGED late
    \/ /\ LateCalls /\ late = {}
       /\ late' = {c}
       /\ UNCHANGED <<service, opened, trials>>

ControlCall(c, next, raised) ==
    /\ NoFiles /\ NoArm
    /\ Answered(c, next) \/ (Unanswered(c) /\ edge' = Raised(raised))

PrepareSkill == /\ At("prepare-skill")
                /\ ControlCall([name |-> "prepare-skill", skill |-> Skill],
                               To("begin-trial"), edge)

\* Mutant of Starting: _trial_started is set when begin-trial has returned.
StartingLate == edge

\* _trial_started is set before begin-trial is sent.
Starting == [edge EXCEPT !.trialStarted = TRUE]

BeginTrial ==
    /\ At("begin-trial")
    /\ ControlCall([name |-> "begin-trial", trial |-> Trial],
                   [To("open-session") EXCEPT !.trialStarted = TRUE], Starting)

OpenSession ==
    /\ At("open-session") /\ NoFiles /\ NoArm
    /\ LET c == [name |-> "open-session"]
       IN  \/ Answered(c, [To("READY_TO_ROLLOUT") EXCEPT !.session = service'.session])
           \/ Unanswered(c) /\ Raise

CloseSession ==
    /\ At("close-session")
    /\ ControlCall([name |-> "close-session", session |-> edge.session],
                   [To("end-trial") EXCEPT !.session = NoSession], edge)

EndTrial ==
    /\ At("end-trial")
    /\ ControlCall([name |-> "end-trial"],
                   [To("JOINT_GATE") EXCEPT !.trialStarted = FALSE], edge)

\* Mutant of InferUnanswered: the request is sent again.
InferRetries(c) == Unanswered(c) /\ UNCHANGED edge

InferUnanswered(c) == Unanswered(c) /\ Raise

\* InferenceClient.infer, one connection and no retry.  Its answers carry no
\* instance id; the session id is what ties them to the server.
Infer ==
    /\ At("infer") /\ NoFiles /\ NoArm
    /\ LET c == [name |-> "infer", session |-> edge.session, trial |-> Trial]
       IN  \/ Executed(c) /\ UNCHANGED late /\ GoTo("publish")
           \/ InferUnanswered(c)

-----------------------------------------------------------------------------
\* Calls on the robot, the gate and the checker.

\* preflight and begin_stage command nothing.
Local(step, next) == /\ At(step) /\ NoFiles /\ NoServer /\ NoArm
                     /\ GoTo(next) \/ Raise

\* reset drives the arm to its start and may fail on the way.
Reset == /\ At("reset") /\ NoFiles /\ NoServer
         /\ UNCHANGED <<published, passed>>
         /\ \/ hasPublished' = TRUE /\ GoTo("PREPARING_POLICY")
            \/ hasPublished' \in {hasPublished, TRUE} /\ Raise

\* publish sends the rows of a chunk until joint rest is detected, or raises
\* before any row or half way.
Publish ==
    /\ At("publish") /\ NoFiles /\ NoServer
    /\ \/ /\ hasPublished' = TRUE
          /\ published' = [published EXCEPT ![Trial] = @ + 1]
          /\ \/ /\ edge' = [To("record") EXCEPT !.result = "rest"]
                /\ passed' = [passed EXCEPT ![Trial] = @ \cup {"joint_gate"}]
             \/ /\ \E r \in {"more", "stopped"} :
                      edge' = [To("record") EXCEPT !.result = r]
                /\ UNCHANGED passed
             \/ Raise /\ UNCHANGED passed
       \/ Raise /\ NoArm

\* Mutant of GateHolds: a stop without joint rest ends the rollout too.
AnyStopHolds == edge.result \in {"rest", "stopped"}

GateHolds == edge.result = "rest"

\* record_rollout, and what _rollout does with the publish result.
Record ==
    /\ At("record") /\ NoServer /\ NoArm
    /\ \/ RecordRolloutFails /\ Raise
       \/ /\ RecordRollout
          /\ \/ GateHolds /\ GoTo("stop")
             \/ edge.result = "stopped" /\ ~GateHolds /\ Raise
             \/ /\ edge.result = "more"
                /\ IF edge.sequence + 1 < MaxChunks
                   THEN edge' = [To("infer") EXCEPT !.sequence = @ + 1]
                   ELSE Raise

StopArm == /\ At("stop") /\ NoFiles /\ NoServer
           /\ UNCHANGED <<published, passed>>
           /\ \/ hasPublished' = FALSE /\ GoTo("close-session")
              \/ hasPublished' \in {hasPublished, FALSE} /\ Raise

JointGate == /\ At("joint-gate") /\ NoFiles /\ NoServer /\ NoArm
             /\ (GateHolds /\ GoTo("CHECKING")) \/ Raise

\* Mutant of NeedsChecker: the checker runs on the last stage only.
NeedsCheckerAtTheEnd == edge.stage \in Checked /\ edge.stage + 1 = NumStages

NeedsChecker == edge.stage \in Checked

Checker ==
    /\ At("checker") /\ NoFiles /\ NoServer
    /\ UNCHANGED <<hasPublished, published>>
    /\ \/ ~NeedsChecker /\ UNCHANGED passed /\ GoTo("complete-stage")
       \/ /\ NeedsChecker
          /\ passed' = [passed EXCEPT ![Trial] = @ \cup {"checker"}]
          /\ GoTo("complete-stage")
       \/ Raise /\ UNCHANGED passed

-----------------------------------------------------------------------------
\* _safe_stop: the arm, the session, the trial, the evidence; a step that
\* fails is noted and the next one is taken.

Noted(next, failure) == [next EXCEPT !.cleanup = @ \cup {failure}]

SafeStopArm ==
    /\ At("safe-stop") /\ NoFiles /\ NoServer
    /\ UNCHANGED <<published, passed>>
    /\ \/ hasPublished' = FALSE /\ GoTo("safe-close")
       \/ /\ hasPublished' \in {hasPublished, FALSE}
          /\ edge' = Noted(To("safe-close"), "action_stop")

CleanupCall(c, next, failure) ==
    \/ Answered(c, next)
    \/ Unanswered(c) /\ edge' = Noted(next, failure)

SafeClose ==
    /\ At("safe-close") /\ NoFiles /\ NoArm
    /\ \/ edge.session = NoSession /\ NoServer /\ GoTo("safe-abort")
       \/ /\ edge.session # NoSession
          /\ CleanupCall([name |-> "close-session", session |-> edge.session],
                         [To("safe-abort") EXCEPT !.session = NoSession],
                         "close_session")

\* Mutant of SafeAbort: abort is tried until it is answered.
AbortUntilAnswered ==
    /\ At("safe-abort") /\ NoFiles /\ NoArm
    /\ \/ ~edge.trialStarted /\ NoServer /\ GoTo("fail")
       \/ /\ edge.trialStarted
          /\ \/ Answered([name |-> "abort"], [To("fail") EXCEPT !.trialStarted = FALSE])
             \/ Unanswered([name |-> "abort"]) /\ UNCHANGED edge

SafeAbort ==
    /\ At("safe-abort") /\ NoFiles /\ NoArm
    /\ \/ ~edge.trialStarted /\ NoServer /\ GoTo("fail")
       \/ /\ edge.trialStarted
          /\ CleanupCall([name |-> "abort"], [To("fail") EXCEPT !.trialStarted = FALSE],
                         "abort_trial")

\* The state after the cleanup; a failure of audit.fail is swallowed.
FinalState == IF edge.pipeline = "SAFE_STOP" THEN "FAILED" ELSE edge.pipeline
FailRun ==
    /\ At("fail") /\ NoServer /\ NoArm
    /\ EdgeFail(FinalState) \/ EdgeFailFails(FinalState)
    /\ edge' = [To("over") EXCEPT !.pipeline = FinalState]

-----------------------------------------------------------------------------
\* The edge process dies, or is interrupted again inside _safe_stop, which
\* catches Exception and not KeyboardInterrupt.
Die == /\ edge.step \notin Ended
       /\ GoTo("died")
       /\ EdgeExit /\ NoServer /\ NoArm

\* main: a new process, with the operator's approval, on the same audit root.
StartRun(r) == /\ edge.step \in Ended
               /\ edge' = NewProcess(r)
               /\ hasPublished' = FALSE
               /\ EdgeExit /\ NoServer /\ UNCHANGED <<published, passed>>

\* A call the edge gave up on is executed after all, or never.
Arrive == /\ \E c \in late : Executed(c) \/ ExecutedInPart(c)
          /\ late' = {}
          /\ UNCHANGED edge /\ NoFiles /\ NoArm

Vanish == /\ late # {}
          /\ late' = {}
          /\ UNCHANGED <<service, opened, trials, edge>> /\ NoFiles /\ NoArm

ServerMisfortune == /\ Server!Misfortune
                    /\ service'.instance <= MaxInstances
                    /\ UNCHANGED <<late, edge>> /\ NoFiles /\ NoArm

-----------------------------------------------------------------------------
\* What the edge process does to get on with its run.
EdgeStep ==
    \/ Begin \/ StartStageCall \/ CompleteStageCall \/ CompleteCall
    \/ \E s \in Targets : Transition(s) \/ TransitionRaises(s)
    \/ Local("preflight", "start-stage") \/ Local("begin-stage", "ROLLOUT")
    \/ PrepareSkill \/ BeginTrial \/ OpenSession \/ CloseSession \/ EndTrial
    \/ Reset \/ Infer \/ Publish \/ Record \/ StopArm \/ JointGate \/ Checker
    \/ SafeStopArm \/ SafeClose \/ SafeAbort \/ FailRun

OrchNext == \/ EdgeStep
            \/ \E r \in Runs : StartRun(r)
            \/ Die \/ Arrive \/ Vanish \/ ServerMisfortune

OrchSpec == OrchInit /\ [][OrchNext]_orchVars

\* Every call of the orchestrator has a timeout or is local, so the process
\* goes on until its run is over.
FairOrchSpec == OrchSpec /\ WF_orchVars(EdgeStep)
=============================================================================
