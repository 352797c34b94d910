----------------------- MODULE OrchestratorProperties -----------------------
(***************************************************************************)
(* What a pipeline run promises, across the edge process, its evidence,    *)
(* the arm and the policy server.                                          *)
(***************************************************************************)
EXTENDS Orchestrator

Lines(t) == runs[t[1]].stages[t[2]].lines

\* S-013: a stage whose evidence says COMPLETED really has its gates: the
\* server committed its trial, with exactly the responses that were published
\* and filed on the edge, at least one, joint rest was detected, and the
\* checker passed if the stage has one (_run_stage, complete_stage).
CompletedStageIsTrue ==
    \A t \in Trials : HasCompleted(t[1], t[2]) =>
        /\ trials[t].verdict = "COMMITTED"
        /\ trials[t].recorded = Lines(t)
        /\ published[t] = Lines(t)
        /\ Lines(t) > 0
        /\ "joint_gate" \in passed[t]
        /\ t[2] \in Checked => "checker" \in passed[t]

\* S-012: the arm gets no chunk the server has no line for, the edge files a
\* line only for a chunk the arm got, and at most one inference of a trial,
\* the last, lacks its line on the edge: nothing is asked for twice.
EveryActionAccountedFor ==
    \A t \in Trials : /\ Lines(t) <= published[t]
                      /\ published[t] <= trials[t].recorded
                      /\ trials[t].recorded <= Lines(t) + 1

\* S-019: a stage with a stage_failure.json is not one the manifest counts,
\* even when its evidence file already says COMPLETED (complete_stage can
\* fail after writing it).
FailedStageNotCounted ==
    \A r \in Runs : \A i \in Stages :
        runs[r].stages[i].failure => runs[r].completed <= i

\* S-015: no remote cleanup, and no end of a run, while commands of this run
\* may still move the arm, unless the stop itself failed (_safe_stop).
ArmHeldFirst ==
    edge.step \in {"safe-close", "safe-abort", "fail", "over"} =>
        ~hasPublished \/ "action_stop" \in edge.cleanup

\* minimal_runtime.md "Failure boundary": a run that began and ends, whatever
\* failed, leaves no trial of its own open on the server, unless its abort
\* failed (_trial_started, _safe_stop).
NothingLeftOnServer ==
    (/\ edge.step = "over"
     /\ edge.pipeline \in {"FAILED", "COMPLETED"}
     /\ "abort_trial" \notin edge.cleanup) =>
        ~ \E i \in Stages : service.trial = <<edge.run, i>>

\* What the arm executes was computed by the policy of the planned skill:
\* nothing on the edge compares the skill of the session with the stage's
\* (_run_stage, _rollout).
PlannedSkillServed ==
    \A t \in Trials : published[t] > 0 => trials[t].skill = Plan[t[1]][t[2]]

\* S-011: every run comes to its end, through the safe stop if it must.
EveryRunEnds == edge.step = "begin" ~> edge.step \in Ended
=============================================================================
