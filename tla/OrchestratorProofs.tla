------------------------- MODULE OrchestratorProofs -------------------------
(***************************************************************************)
(* A pipeline run and its evidence, its server and its arm, for any number *)
(* of runs, stages, skills and chunks.                                     *)
(***************************************************************************)
EXTENDS OrchestratorProperties, EdgeAuditProofs

-----------------------------------------------------------------------------
\* Where a run is.  The steps of a stage, in order: its trial is not begun;
\* begun, and its chunks are asked for; at rest; committed.
Opening   == {"PREFLIGHT", "preflight", "start-stage"}
Unbegun   == {"RESETTING", "reset", "PREPARING_POLICY", "prepare-skill", "begin-trial"}
Asking    == {"open-session", "READY_TO_ROLLOUT", "begin-stage", "ROLLOUT", "infer"}
Acting    == {"publish", "record"}
Resting   == {"stop", "close-session", "end-trial"}
Judged    == {"JOINT_GATE", "joint-gate", "CHECKING", "checker", "complete-stage"}
Closing   == {"HANDOFF", "COMPLETED", "complete"}
Underway    == Asking \cup Acting \cup Resting
StageSteps == Unbegun \cup Underway \cup Judged
Active    == Opening \cup StageSteps \cup Closing \cup Cleanup

StageOf(t)    == runs[t[1]].stages[t[2]]
Recorded(t)   == trials[t].recorded
Even(t)       == published[t] = Lines(t) /\ Recorded(t) = Lines(t)
Concerns(c, t) == c.name \in {"begin-trial", "infer"} /\ c.trial = t

\* The edge process and its store agree on the run and the stage.
StoreFollows ==
    /\ edge.step # "over" => edge.run \in Runs
    /\ edge.step \in Active => activeRun = edge.run
    /\ At("begin") => activeRun = NoRun /\ edge.stage = 0
    /\ At("HANDOFF") => completedStages = edge.stage + 1
    /\ edge.step \in Opening \cup StageSteps => completedStages = edge.stage
    /\ edge.step \in StageSteps => StageOf(Trial).evidence = "ACTIVE"

\* What the server's evidence says, and what late calls may do to it.
ServerKeeps ==
    /\ service.instance <= MaxInstances
    /\ \A t \in Trials :
          /\ service.trial = t => trials[t].verdict = "open"
          /\ trials[t].verdict = "unused" => Recorded(t) = 0
          /\ StageOf(t).evidence = "ABSENT" =>
                Even(t) /\ Lines(t) = 0 /\ trials[t].verdict = "unused"
    /\ \A c, d \in late : c = d
    /\ \A c \in late : \A t \in Trials :
          Concerns(c, t) => /\ StageOf(t).evidence # "ABSENT"
                            /\ edge.step \in StageSteps => t # Trial
    /\ \A c \in late : c.name = "infer" => Recorded(c.trial) = Lines(c.trial)

\* The arm, the edge's lines and the server's lines, through a stage.
StageInStep ==
    /\ edge.step \in Unbegun => Even(Trial) /\ Lines(Trial) = 0
                                /\ trials[Trial].verdict = "unused"
    /\ edge.step \in Asking => Even(Trial)
    /\ At("publish") => published[Trial] = Lines(Trial) /\ Recorded(Trial) = Lines(Trial) + 1
    /\ At("record") => /\ published[Trial] = Lines(Trial) + 1
                       /\ Recorded(Trial) = Lines(Trial) + 1
                       /\ edge.result = "rest" => "joint_gate" \in passed[Trial]
    /\ edge.step \in Resting \cup Judged =>
          Even(Trial) /\ Lines(Trial) > 0 /\ "joint_gate" \in passed[Trial]
    /\ edge.step \in Judged => trials[Trial].verdict = "COMMITTED"
    /\ At("complete-stage") /\ edge.stage \in Checked => "checker" \in passed[Trial]
    /\ edge.step \in {"infer", "publish", "record", "stop", "close-session"}
          \cup {"READY_TO_ROLLOUT", "begin-stage", "ROLLOUT"} => edge.session \in Sessions

\* Between begin-trial and end-trial the server has this trial or none, and
\* a late begin-trial cannot give it another.
OwnTrialOrNone ==
    edge.step \in Underway =>
        \/ service.trial = Trial
        \/ /\ service.trial = NoTrial
           /\ service.state = "READY" => \A c \in late : c.name # "begin-trial"

\* The arm may move from reset to stop only, or a stop is known to have failed.
HeldSteps == {"begin"} \cup Opening \cup {"RESETTING", "reset", "close-session", "end-trial"}
             \cup Judged \cup Closing \cup {"safe-close", "safe-abort", "fail", "over"}
HeldInStep == edge.step \in HeldSteps => ~hasPublished \/ "action_stop" \in edge.cleanup

\* A run that goes on has no failed stage, and only a started one can fail.
NoFailureYet ==
    /\ edge.step \in Active => \A i \in Stages : ~runs[edge.run].stages[i].failure
    /\ \A t \in Trials : StageOf(t).evidence = "ABSENT" => ~StageOf(t).failure
    /\ stageActive => runs[activeRun].stages[completedStages].evidence # "ABSENT"

OrchIInv == /\ EdgeIInv /\ OrchTypeOK /\ StoreFollows /\ ServerKeeps /\ StageInStep
            /\ OwnTrialOrNone /\ HeldInStep /\ NoFailureYet
            /\ CompletedStageIsTrue /\ EveryActionAccountedFor /\ FailedStageNotCounted

-----------------------------------------------------------------------------
\* Without late calls: the skill, and what is left on the server.
Unstarted == {"begin"} \cup Opening \cup Unbegun \cup Judged \cup Closing \cup {"fail"}
Mine == \E i \in Stages : service.trial = <<edge.run, i>>

PromptIInv ==
    /\ late = {}
    /\ At("begin-trial") => service.skill \in {Skill, NoSkill}
    /\ edge.step \in Underway \cup Judged => trials[Trial].skill = Skill
    /\ PlannedSkillServed
    /\ edge.step \in Unstarted => ~edge.trialStarted
    /\ edge.step \in Active /\ Mine => edge.trialStarted \/ "abort_trial" \in edge.cleanup
    /\ At("begin") => edge.pipeline = "CREATED"
    /\ At("over") => edge.run \in Runs \/ edge.pipeline = "CREATED"
    /\ NothingLeftOnServer

-----------------------------------------------------------------------------
LEMMA Ids == NoTrial \notin Trials /\ NoSession \notin Sessions
  BY OrchestratorAssumption DEF Trials

\* What an action of the server does to its evidence, when it may begin only
\* the trials of B and record a line for those of I.
ServerStep(B, I, prepares) ==
    /\ Server!ServiceTypeOK'
    /\ service'.instance <= MaxInstances
    /\ \A t \in Trials :
          /\ service'.trial = t => trials'[t].verdict = "open"
          /\ trials'[t].verdict = "unused" => trials[t].verdict = "unused" /\ t \notin I
          /\ trials[t].verdict = "unused" /\ t \notin B => trials'[t].verdict = "unused"
          /\ trials[t].verdict = "COMMITTED" => trials'[t].verdict = "COMMITTED" /\ t \notin I
          /\ trials'[t].recorded = IF t \in I THEN trials[t].recorded + 1
                                   ELSE trials[t].recorded
          /\ t \notin B => trials'[t].skill = trials[t].skill
          /\ t \in I => service.trial = t
    /\ \/ service'.trial \in {service.trial, NoTrial}
       \/ service.trial = NoTrial /\ service.state = "READY" /\ service'.trial \in B
    /\ service'.state = "READY" => service.state = "READY" \/ prepares

\* The server's own part of the invariant.
ServerSound == /\ Server!ServiceTypeOK
               /\ service.instance <= MaxInstances
               /\ \A t \in Trials : service.trial = t => trials[t].verdict = "open"

\* Names for what the actions write, to reason about their fields.
ServiceRec == [state    : {"STARTING", "READY", "FAILED", "STOPPING"},
               skill    : Skills \cup {NoSkill},
               trial    : Trials \cup {NoTrial},
               session  : Sessions \cup {NoSession},
               instance : Nat]
TrialRec == [verdict  : {"COMMITTED", "ABORTED", "AMBIGUOUS_INFERENCE",
                         "unused", "open", "unfinished"},
             skill    : Skills \cup {NoSkill},
             recorded : Nat]

LEMMA ServerTypes ==
  ASSUME Server!ServiceTypeOK
  PROVE  service \in ServiceRec /\ opened \subseteq Sessions /\ trials \in [Trials -> TrialRec]
  BY DEF Server!ServiceTypeOK, Server!Verdicts, ServiceRec, TrialRec

LEMMA ServerTypesBack ==
  ASSUME service' \in ServiceRec, opened' \subseteq Sessions, trials' \in [Trials -> TrialRec]
  PROVE  Server!ServiceTypeOK'
  BY DEF Server!ServiceTypeOK, Server!Verdicts, ServiceRec, TrialRec

\* An action that changes no trial.
LEMMA ServesOn ==
  ASSUME ServerSound, service' \in ServiceRec, opened' \subseteq Sessions, trials' = trials,
         service'.instance <= MaxInstances, service'.trial \in {service.trial, NoTrial},
         NEW prepares \in BOOLEAN,
         service'.state = "READY" => service.state = "READY" \/ prepares,
         NEW B \in SUBSET Trials
  PROVE  ServerStep(B, {}, prepares)
<1>1. trials \in [Trials -> TrialRec]
  BY ServerTypes DEF ServerSound
<1>2. Server!ServiceTypeOK'
  BY <1>1, ServerTypesBack
<1>3. \A t \in Trials : service'.trial = t => service.trial = t
  BY Ids
<1>4. QED BY <1>1, <1>2, <1>3 DEF ServerStep, ServerSound

\* An action that gives its trial, which it no longer serves, a verdict.
LEMMA Judges ==
  ASSUME ServerSound, service' \in ServiceRec, opened' = opened,
         service.trial # NoTrial, service'.trial = NoTrial,
         NEW v \in {"COMMITTED", "ABORTED", "AMBIGUOUS_INFERENCE", "unfinished"},
         Server!Judge(v), service'.instance <= MaxInstances,
         service'.state = "READY" => service.state = "READY"
  PROVE  /\ ServerStep({}, {}, FALSE)
         /\ service.trial \in Trials /\ trials'[service.trial].verdict = v
<1>1. service \in ServiceRec /\ trials \in [Trials -> TrialRec] /\ opened \subseteq Sessions
  BY ServerTypes DEF ServerSound
<1>2. service.trial \in Trials
  BY <1>1 DEF ServiceRec
<1> DEFINE T == service.trial
           new == [trials[T] EXCEPT !.verdict = v]
<1>3. /\ new \in TrialRec /\ new.verdict = v
      /\ new.skill = trials[T].skill /\ new.recorded = trials[T].recorded
  BY <1>1, <1>2 DEF TrialRec
<1>4. trials' = [trials EXCEPT ![T] = new]
  BY DEF Server!Judge
<1> HIDE DEF new
<1>5. /\ trials' \in [Trials -> TrialRec] /\ trials'[T] = new
      /\ \A t \in Trials : t # T => trials'[t] = trials[t]
  BY <1>1, <1>2, <1>3, <1>4
<1>6. Server!ServiceTypeOK'
  BY <1>1, <1>5, ServerTypesBack
<1>7. trials[T].verdict = "open" /\ NoTrial \notin Trials
  BY <1>2, Ids DEF ServerSound
<1>8. ASSUME NEW t \in Trials
      PROVE  /\ service'.trial = t => trials'[t].verdict = "open"
             /\ trials'[t].verdict = "unused" => trials[t].verdict = "unused"
             /\ trials[t].verdict = "unused" => trials'[t].verdict = "unused"
             /\ trials[t].verdict = "COMMITTED" => trials'[t].verdict = "COMMITTED"
             /\ trials'[t].recorded = trials[t].recorded
             /\ trials'[t].skill = trials[t].skill
  BY <1>3, <1>5, <1>7
<1>9. QED BY <1>2, <1>3, <1>5, <1>6, <1>8 DEF ServerStep

\* The actions of the server, one by one.
LEMMA PrepareSkillServes ==
  ASSUME ServerSound, NEW k \in Skills, Server!PrepareSkill(k)
  PROVE  /\ ServerStep({}, {}, TRUE)
         /\ service'.skill = k /\ service'.instance = service.instance
         /\ service'.trial = service.trial
<1>1. service \in ServiceRec /\ opened \subseteq Sessions
  BY ServerTypes DEF ServerSound
<1>2. /\ service' \in ServiceRec /\ service'.skill = k /\ service'.trial = service.trial
      /\ service'.instance = service.instance
  BY <1>1 DEF Server!PrepareSkill, ServiceRec
<1>3. opened' = opened /\ trials' = trials /\ service.instance <= MaxInstances
  BY DEF Server!PrepareSkill, ServerSound
<1>4. QED BY <1>1, <1>2, <1>3, ServesOn

LEMMA BeginTrialServes ==
  ASSUME ServerSound, NEW t \in Trials, Server!BeginTrial(t)
  PROVE  /\ ServerStep({t}, {}, FALSE)
         /\ service'.trial = t /\ trials'[t].skill = service.skill
         /\ service.skill # NoSkill /\ service'.instance = service.instance
<1>1. service \in ServiceRec /\ trials \in [Trials -> TrialRec] /\ opened \subseteq Sessions
  BY ServerTypes DEF ServerSound
<1>2. /\ service.trial = NoTrial /\ service.state = "READY" /\ service.skill # NoSkill
      /\ trials[t].verdict = "unused" /\ opened' = opened
  BY DEF Server!BeginTrial, Server!CanBegin, Server!Serving, Server!HasTrial
<1>3. /\ service' \in ServiceRec /\ service'.trial = t /\ service'.state = service.state
      /\ service'.instance = service.instance
  BY <1>1 DEF Server!BeginTrial, ServiceRec
<1> DEFINE new == [trials[t] EXCEPT !.verdict = "open", !.skill = service.skill]
<1>4. /\ new \in TrialRec /\ new.verdict = "open" /\ new.skill = service.skill
      /\ new.recorded = trials[t].recorded
  BY <1>1 DEF TrialRec, ServiceRec
<1>5. trials' = [trials EXCEPT ![t] = new]
  BY <1>1 DEF Server!BeginTrial
<1> HIDE DEF new
<1>6. /\ trials' \in [Trials -> TrialRec] /\ trials'[t] = new
      /\ \A u \in Trials : u # t => trials'[u] = trials[u]
  BY <1>1, <1>4, <1>5
<1>7. Server!ServiceTypeOK'
  BY <1>1, <1>2, <1>3, <1>6, ServerTypesBack
<1>8. service'.instance <= MaxInstances
  BY <1>3 DEF ServerSound
<1>9. ASSUME NEW u \in Trials
      PROVE  /\ service'.trial = u => trials'[u].verdict = "open"
             /\ trials'[u].verdict = "unused" => trials[u].verdict = "unused"
             /\ trials[u].verdict = "unused" /\ u # t => trials'[u].verdict = "unused"
             /\ trials[u].verdict = "COMMITTED" => trials'[u].verdict = "COMMITTED"
             /\ trials'[u].recorded = trials[u].recorded
             /\ u # t => trials'[u].skill = trials[u].skill
  BY <1>2, <1>3, <1>4, <1>6
<1>10. ServerStep({t}, {}, FALSE)
  BY <1>2, <1>3, <1>7, <1>8, <1>9 DEF ServerStep
<1>11. QED BY <1>2, <1>3, <1>4, <1>6, <1>10

LEMMA BeginTrialFailsServes ==
  ASSUME ServerSound, NEW t \in Trials, Server!BeginTrialFails(t)
  PROVE  ServerStep({t}, {}, FALSE) /\ service' = service
<1>1. service \in ServiceRec /\ trials \in [Trials -> TrialRec] /\ opened \subseteq Sessions
  BY ServerTypes DEF ServerSound
<1>2. /\ service.trial = NoTrial /\ trials[t].verdict = "unused"
      /\ service' = service /\ opened' = opened
  BY DEF Server!BeginTrialFails, Server!CanBegin, Server!Serving, Server!HasTrial
<1>3. PICK k \in {NoSkill, service.skill} :
         trials' = [trials EXCEPT ![t].verdict = "unfinished", ![t].skill = k]
  BY DEF Server!BeginTrialFails
<1> DEFINE new == [trials[t] EXCEPT !.verdict = "unfinished", !.skill = k]
<1>4. new \in TrialRec /\ new.verdict = "unfinished" /\ new.recorded = trials[t].recorded
  BY <1>1 DEF TrialRec, ServiceRec
<1>5. trials' = [trials EXCEPT ![t] = new]
  BY <1>1, <1>3
<1> HIDE DEF new
<1>6. /\ trials' \in [Trials -> TrialRec] /\ trials'[t] = new
      /\ \A u \in Trials : u # t => trials'[u] = trials[u]
  BY <1>1, <1>4, <1>5
<1>7. Server!ServiceTypeOK'
  BY <1>1, <1>2, <1>6, ServerTypesBack
<1>8. service'.instance <= MaxInstances
  BY <1>2 DEF ServerSound
<1>9. ASSUME NEW u \in Trials
      PROVE  /\ service'.trial = u => trials'[u].verdict = "open"
             /\ trials'[u].verdict = "unused" => trials[u].verdict = "unused"
             /\ trials[u].verdict = "unused" /\ u # t => trials'[u].verdict = "unused"
             /\ trials[u].verdict = "COMMITTED" => trials'[u].verdict = "COMMITTED"
             /\ trials'[u].recorded = trials[u].recorded
             /\ u # t => trials'[u].skill = trials[u].skill
  BY <1>2, <1>4, <1>6, Ids DEF ServerSound
<1>10. ServerStep({t}, {}, FALSE)
  BY <1>2, <1>7, <1>8, <1>9 DEF ServerStep
<1>11. QED BY <1>2, <1>10

LEMMA OpenSessionServes ==
  ASSUME ServerSound, NEW s \in Sessions, Server!OpenSession(s)
  PROVE  /\ ServerStep({}, {}, FALSE)
         /\ service'.session = s /\ service'.instance = service.instance
         /\ service'.trial = service.trial /\ service'.state = service.state
<1>1. service \in ServiceRec /\ opened \subseteq Sessions
  BY ServerTypes DEF ServerSound
<1>2. /\ service' \in ServiceRec /\ service'.session = s /\ service'.trial = service.trial
      /\ service'.instance = service.instance /\ service'.state = service.state
  BY <1>1 DEF Server!OpenSession, ServiceRec
<1>3. opened' \subseteq Sessions /\ trials' = trials /\ service.instance <= MaxInstances
  BY <1>1 DEF Server!OpenSession, ServerSound
<1>4. QED BY <1>1, <1>2, <1>3, ServesOn

\* A line of the served trial; the server may have failed.
LEMMA RecordedServes ==
  ASSUME ServerSound, NEW t \in Trials, service.trial = t, Server!Recorded(t),
         service' \in ServiceRec, opened' = opened, service'.trial = t,
         service'.instance = service.instance,
         service'.state = "READY" => service.state = "READY"
  PROVE  ServerStep({}, {t}, FALSE)
<1>1. trials \in [Trials -> TrialRec] /\ opened \subseteq Sessions
  BY ServerTypes DEF ServerSound
<1> DEFINE new == [trials[t] EXCEPT !.recorded = @ + 1]
<1>2. /\ new \in TrialRec /\ new.verdict = trials[t].verdict /\ new.skill = trials[t].skill
      /\ new.recorded = trials[t].recorded + 1
  BY <1>1 DEF TrialRec
<1>3. trials' = [trials EXCEPT ![t] = new]
  BY <1>1 DEF Server!Recorded
<1> HIDE DEF new
<1>4. /\ trials' \in [Trials -> TrialRec] /\ trials'[t] = new
      /\ \A u \in Trials : u # t => trials'[u] = trials[u]
  BY <1>1, <1>2, <1>3
<1>5. Server!ServiceTypeOK'
  BY <1>1, <1>4, ServerTypesBack
<1>6. trials[t].verdict = "open" /\ service'.instance <= MaxInstances
  BY DEF ServerSound
<1>7. ASSUME NEW u \in Trials
      PROVE  /\ service'.trial = u => trials'[u].verdict = "open"
             /\ trials'[u].verdict = "unused" => trials[u].verdict = "unused" /\ u # t
             /\ trials[u].verdict = "unused" => trials'[u].verdict = "unused"
             /\ trials[u].verdict = "COMMITTED" => trials'[u].verdict = "COMMITTED" /\ u # t
             /\ trials'[u].recorded = IF u = t THEN trials[u].recorded + 1
                                      ELSE trials[u].recorded
             /\ trials'[u].skill = trials[u].skill
  BY <1>2, <1>4, <1>6
<1>8. QED BY <1>5, <1>6, <1>7 DEF ServerStep

LEMMA InferServes ==
  ASSUME ServerSound, NEW s \in Sessions, NEW t \in Trials,
         Server!Infer(s, t) \/ Server!InferFails(s, t)
  PROVE  /\ ServerStep({}, {t}, FALSE)
         /\ service.trial = t /\ service'.trial = t
         /\ Server!Infer(s, t) => service' = service
<1>1. service \in ServiceRec
  BY ServerTypes DEF ServerSound
<1>2. service.trial = t /\ Server!Recorded(t) /\ opened' = opened
  BY DEF Server!Infer, Server!InferFails, Server!Admitted
<1>3. CASE Server!Infer(s, t)
  BY <1>1, <1>2, <1>3, RecordedServes DEF Server!Infer
<1>4. CASE Server!InferFails(s, t)
  <2>1. /\ service' \in ServiceRec /\ service'.trial = service.trial
        /\ service'.instance = service.instance /\ service'.state = "FAILED"
    BY <1>1, <1>4 DEF Server!InferFails, Server!Failed, ServiceRec
  <2>2. ~Server!Infer(s, t) \/ service' = service
    BY DEF Server!Infer
  <2>3. QED BY <1>2, <2>1, <2>2, RecordedServes
<1>5. QED BY <1>3, <1>4

LEMMA CloseSessionServes ==
  ASSUME ServerSound, NEW s \in Sessions, Server!CloseSession(s)
  PROVE  /\ ServerStep({}, {}, FALSE)
         /\ service'.instance = service.instance
         /\ service'.trial = service.trial /\ service'.state = service.state
<1>1. service \in ServiceRec /\ opened \subseteq Sessions
  BY ServerTypes DEF ServerSound
<1>2. /\ service' \in ServiceRec /\ service'.trial = service.trial
      /\ service'.instance = service.instance /\ service'.state = service.state
  BY <1>1 DEF Server!CloseSession, ServiceRec
<1>3. opened' = opened /\ trials' = trials /\ service.instance <= MaxInstances
  BY DEF Server!CloseSession, ServerSound
<1>4. QED BY <1>1, <1>2, <1>3, ServesOn

LEMMA EndTrialServes ==
  ASSUME ServerSound, Server!EndTrial
  PROVE  /\ ServerStep({}, {}, FALSE)
         /\ service.trial \in Trials /\ trials'[service.trial].verdict = "COMMITTED"
         /\ service'.trial = NoTrial /\ service'.instance = service.instance
<1>1. service \in ServiceRec
  BY ServerTypes DEF ServerSound
<1>2. /\ service' \in ServiceRec /\ service'.trial = NoTrial
      /\ service'.instance = service.instance /\ service'.state = service.state
  BY <1>1 DEF Server!EndTrial, ServiceRec
<1>3. /\ service.trial # NoTrial /\ Server!Judge("COMMITTED") /\ opened' = opened
      /\ service.instance <= MaxInstances
  BY DEF Server!EndTrial, Server!HasTrial, ServerSound
<1>4. QED BY <1>2, <1>3, Judges

LEMMA AbortServes ==
  ASSUME ServerSound, Server!Abort
  PROVE  ServerStep({}, {}, FALSE) /\ service'.trial = NoTrial
         /\ service'.instance = service.instance
<1>1. service \in ServiceRec /\ opened \subseteq Sessions
  BY ServerTypes DEF ServerSound
<1>2. /\ service' \in ServiceRec /\ service'.trial = NoTrial
      /\ service'.instance = service.instance /\ service'.state = service.state
  BY <1>1 DEF Server!Abort, ServiceRec
<1>3. opened' = opened /\ service.instance <= MaxInstances
  BY DEF Server!Abort, ServerSound
<1>4. CASE service.trial = NoTrial
  <2>1. trials' = trials
    BY <1>4 DEF Server!Abort, Server!HasTrial
  <2>2. QED BY <1>1, <1>2, <1>3, <2>1, ServesOn
<1>5. CASE service.trial # NoTrial
  <2>1. Server!Judge("ABORTED")
    BY <1>5 DEF Server!Abort, Server!HasTrial
  <2>2. QED BY <1>2, <1>3, <1>5, <2>1, Judges
<1>6. QED BY <1>4, <1>5

\* What the server does of its own accord.
LEMMA MisfortuneServes ==
  ASSUME ServerSound, Server!Misfortune, service'.instance <= MaxInstances
  PROVE  /\ ServerStep({}, {}, FALSE)
         /\ service'.trial \in {service.trial, NoTrial}
         /\ service'.trial = service.trial \/ service'.state # "READY"
         /\ service'.skill \in {service.skill, NoSkill}
<1>1. service \in ServiceRec /\ opened \subseteq Sessions
  BY ServerTypes DEF ServerSound
<1>2. CASE Server!Expire
  <2>1. /\ service' \in ServiceRec /\ service'.trial = service.trial
        /\ service'.skill = service.skill /\ service'.state = service.state
    BY <1>1, <1>2 DEF Server!Expire, ServiceRec
  <2>2. opened' = opened /\ trials' = trials
    BY <1>2 DEF Server!Expire
  <2>3. QED BY <1>1, <2>1, <2>2, ServesOn
<1>3. CASE Server!Fail
  <2>1. /\ service' \in ServiceRec /\ service'.trial = service.trial
        /\ service'.skill = service.skill /\ service'.state = "FAILED"
    BY <1>1, <1>3 DEF Server!Fail, Server!Failed, ServiceRec
  <2>2. opened' = opened /\ trials' = trials
    BY <1>3 DEF Server!Fail
  <2>3. QED BY <1>1, <2>1, <2>2, ServesOn
<1>4. CASE Server!Ambiguous
  <2>1. /\ service' \in ServiceRec /\ service'.trial = NoTrial
        /\ service'.skill = service.skill /\ service'.state = "FAILED"
    BY <1>1, <1>4 DEF Server!Ambiguous, Server!Failed, ServiceRec
  <2>2. service.trial # NoTrial /\ opened' = opened /\ Server!Judge("AMBIGUOUS_INFERENCE")
    BY <1>4 DEF Server!Ambiguous, Server!HasTrial
  <2>3. QED BY <2>1, <2>2, Judges
<1>5. CASE Server!Close
  <2>1. /\ service' \in ServiceRec /\ service'.skill = service.skill
        /\ service'.state = "STOPPING" /\ opened' = opened
        /\ \/ service'.trial = service.trial /\ trials' = trials
           \/ /\ service.trial # NoTrial /\ service'.trial = NoTrial
              /\ Server!Judge("ABORTED")
    <3>1. CASE /\ Server!HasTrial /\ Server!Judge("ABORTED")
               /\ service' = [service EXCEPT !.state = "STOPPING", !.trial = NoTrial,
                                             !.session = NoSession]
      BY <1>1, <1>5, <3>1 DEF Server!Close, Server!HasTrial, ServiceRec
    <3>2. CASE /\ service' = [service EXCEPT !.state = "STOPPING", !.session = NoSession]
               /\ trials' = trials
      BY <1>1, <1>5, <3>2 DEF Server!Close, ServiceRec
    <3>3. QED BY <1>5, <3>1, <3>2 DEF Server!Close
  <2>2. QED BY <1>1, <2>1, Judges, ServesOn
<1>6. CASE Server!Restart
  <2>1. /\ service' \in ServiceRec /\ service'.trial = NoTrial
        /\ service'.skill = NoSkill /\ service'.state = "STARTING"
    BY <1>1, <1>6 DEF Server!Restart, Server!Started, ServiceRec
  <2>2. opened' = opened
    BY <1>6 DEF Server!Restart
  <2>3. CASE service.trial = NoTrial
    BY <1>1, <1>6, <2>1, <2>2, <2>3, ServesOn DEF Server!Restart, Server!HasTrial
  <2>4. CASE service.trial # NoTrial
    <3>1. PICK v \in Server!Verdicts \cup {"unfinished"} : Server!Judge(v)
      BY <1>6, <2>4 DEF Server!Restart, Server!HasTrial
    <3>2. v \in {"COMMITTED", "ABORTED", "AMBIGUOUS_INFERENCE", "unfinished"}
      BY DEF Server!Verdicts
    <3>3. QED BY <2>1, <2>2, <2>4, <3>1, <3>2, Judges
  <2>5. QED BY <2>3, <2>4
<1>7. QED BY <1>2, <1>3, <1>4, <1>5, <1>6 DEF Server!Misfortune

-----------------------------------------------------------------------------
\* The fields of the edge process after each assignment to it.
Steps == Targets \cup Calls \cup Cleanup \cup Ended
EdgeRec == [run          : Runs \cup {NoRun},
            step         : Steps,
            pipeline     : PipelineStates,
            stage        : Stages,
            sequence     : 0 .. MaxChunks - 1,
            result       : {"none", "more", "rest", "stopped"},
            session      : Sessions \cup {NoSession},
            trialStarted : BOOLEAN,
            server       : 0 .. MaxInstances,
            cleanup      : SUBSET {"action_stop", "close_session", "abort_trial"}]

LEMMA EdgeRecIs == EdgeProcess = EdgeRec
  BY DEF EdgeProcess, EdgeRec, Steps

LEMMA AllSteps ==
  /\ {"PREFLIGHT", "RESETTING", "PREPARING_POLICY", "READY_TO_ROLLOUT", "ROLLOUT",
      "JOINT_GATE", "CHECKING", "HANDOFF", "COMPLETED"} \subseteq Steps
  /\ {"begin", "preflight", "start-stage", "reset", "prepare-skill", "begin-trial",
      "open-session", "begin-stage", "infer", "publish", "record", "stop",
      "close-session", "end-trial", "joint-gate", "checker", "complete-stage",
      "complete"} \subseteq Steps
  /\ {"safe-stop", "safe-close", "safe-abort", "fail", "over", "died"} \subseteq Steps
  BY DEF Steps, Targets, Calls, Cleanup, Ended

\* Only the step, and what the assignment names.
SameRun(e, f)  == f.run = e.run /\ f.stage = e.stage
SameRest(e, f) == /\ SameRun(e, f)
                  /\ f.trialStarted = e.trialStarted /\ f.cleanup = e.cleanup

LEMMA Stepped ==
  ASSUME NEW e \in EdgeRec, NEW s \in Steps, NEW f, f = [e EXCEPT !.step = s]
  PROVE  /\ f \in EdgeRec /\ f.step = s /\ SameRest(e, f)
         /\ f.session = e.session /\ f.result = e.result
         /\ f.pipeline = e.pipeline /\ f.server = e.server
  BY DEF EdgeRec, SameRest, SameRun

LEMMA RaisedFields ==
  ASSUME NEW e \in EdgeRec, NEW f, f = Raised(e)
  PROVE  /\ f \in EdgeRec /\ f.step = "safe-stop" /\ SameRest(e, f)
         /\ f.session = e.session
<1> DEFINE state == IF e.pipeline \in {"SAFE_STOP", "FAILED", "COMPLETED"}
                    THEN e.pipeline ELSE "SAFE_STOP"
<1>1. state \in PipelineStates
  BY DEF EdgeRec, PipelineStates
<1>2. f = [[e EXCEPT !.step = "safe-stop"] EXCEPT !.pipeline = state]
  BY DEF Raised, EdgeRec
<1>3. "safe-stop" \in Steps
  BY AllSteps
<1> HIDE DEF state
<1>4. QED BY <1>1, <1>2, <1>3 DEF EdgeRec, SameRest, SameRun

LEMMA SequenceSet ==
  ASSUME NEW e \in EdgeRec, NEW n \in 0 .. MaxChunks - 1, NEW f, f = [e EXCEPT !.sequence = n]
  PROVE  /\ f \in EdgeRec /\ f.step = e.step /\ SameRest(e, f)
         /\ f.session = e.session /\ f.result = e.result
  BY DEF EdgeRec, SameRest, SameRun

LEMMA ResultSet ==
  ASSUME NEW e \in EdgeRec, NEW r \in {"none", "more", "rest", "stopped"}, NEW f, f = [e EXCEPT !.result = r]
  PROVE  /\ f \in EdgeRec /\ f.step = e.step /\ SameRest(e, f)
         /\ f.session = e.session /\ f.result = r
  BY DEF EdgeRec, SameRest, SameRun

LEMMA SessionSet ==
  ASSUME NEW e \in EdgeRec, NEW s \in Sessions \cup {NoSession}, NEW f, f = [e EXCEPT !.session = s]
  PROVE  f \in EdgeRec /\ f.step = e.step /\ SameRest(e, f) /\ f.session = s
  BY DEF EdgeRec, SameRest, SameRun

LEMMA StartedSet ==
  ASSUME NEW e \in EdgeRec, NEW b \in BOOLEAN, NEW f, f = [e EXCEPT !.trialStarted = b]
  PROVE  /\ f \in EdgeRec /\ f.step = e.step /\ SameRun(e, f)
         /\ f.cleanup = e.cleanup /\ f.session = e.session /\ f.trialStarted = b
  BY DEF EdgeRec, SameRest, SameRun

LEMMA ServerSet ==
  ASSUME NEW e \in EdgeRec, NEW n \in 0 .. MaxInstances, NEW f, f = [e EXCEPT !.server = n]
  PROVE  /\ f \in EdgeRec /\ f.step = e.step /\ SameRest(e, f)
         /\ f.session = e.session /\ f.result = e.result
  BY DEF EdgeRec, SameRest, SameRun

LEMMA PipelineSet ==
  ASSUME NEW e \in EdgeRec, NEW p \in PipelineStates, NEW f, f = [e EXCEPT !.pipeline = p]
  PROVE  /\ f \in EdgeRec /\ f.step = e.step /\ SameRest(e, f)
         /\ f.session = e.session /\ f.result = e.result /\ f.pipeline = p
  BY DEF EdgeRec, SameRest, SameRun

LEMMA StageSet ==
  ASSUME NEW e \in EdgeRec, NEW i \in Stages, NEW f, f = [e EXCEPT !.stage = i]
  PROVE  /\ f \in EdgeRec /\ f.step = e.step /\ f.run = e.run /\ f.stage = i
         /\ f.trialStarted = e.trialStarted /\ f.cleanup = e.cleanup
  BY DEF EdgeRec, SameRest, SameRun

LEMMA CleanupSet ==
  ASSUME NEW e \in EdgeRec, NEW c \in {"action_stop", "close_session", "abort_trial"}, NEW f, f = [e EXCEPT !.cleanup = @ \cup {c}]
  PROVE  /\ f \in EdgeRec /\ f.step = e.step /\ SameRun(e, f)
         /\ f.trialStarted = e.trialStarted /\ f.session = e.session
         /\ f.cleanup = e.cleanup \cup {c}
<1>1. e.cleanup \cup {c} \in SUBSET {"action_stop", "close_session", "abort_trial"}
  BY DEF EdgeRec
<1>2. QED BY <1>1 DEF EdgeRec, SameRest, SameRun

\* What a call to the server may be.
LEMMA CommandFields ==
  ASSUME NEW c \in Command
  PROVE  /\ c.name \in {"prepare-skill", "begin-trial", "open-session", "end-trial",
                        "abort", "close-session", "infer"}
         /\ c.name = "prepare-skill" => c.skill \in Skills
         /\ c.name \in {"begin-trial", "infer"} => c.trial \in Trials
         /\ c.name \in {"close-session", "infer"} => c.session \in Sessions
  BY DEF Command

BeginsOf(c) == {t \in Trials : c.name = "begin-trial" /\ c.trial = t}
InfersOf(c) == {t \in Trials : c.name = "infer" /\ c.trial = t}

\* A call that reaches the server, in time or late, whole or in part.
LEMMA CommandServes ==
  ASSUME ServerSound, NEW c \in Command, Executed(c) \/ ExecutedInPart(c)
  PROVE  ServerStep(BeginsOf(c), InfersOf(c), c.name = "prepare-skill")
<1>1. CASE c.name = "prepare-skill"
  <2>1. Server!PrepareSkill(c.skill) /\ c.skill \in Skills
    BY <1>1, CommandFields DEF Executed, ExecutedInPart
  <2>2. BeginsOf(c) = {} /\ InfersOf(c) = {} /\ (c.name = "prepare-skill") = TRUE
    BY <1>1 DEF BeginsOf, InfersOf
  <2>3. QED BY <2>1, <2>2, PrepareSkillServes
<1>2. CASE c.name = "begin-trial"
  <2>1. /\ Server!BeginTrial(c.trial) \/ Server!BeginTrialFails(c.trial)
        /\ c.trial \in Trials
    BY <1>2, CommandFields DEF Executed, ExecutedInPart
  <2>2. BeginsOf(c) = {c.trial} /\ InfersOf(c) = {} /\ (c.name = "prepare-skill") = FALSE
    BY <1>2, <2>1 DEF BeginsOf, InfersOf
  <2>3. QED BY <2>1, <2>2, BeginTrialServes, BeginTrialFailsServes
<1>3. CASE c.name = "infer"
  <2>1. /\ Server!Infer(c.session, c.trial) \/ Server!InferFails(c.session, c.trial)
        /\ c.trial \in Trials /\ c.session \in Sessions
    BY <1>3, CommandFields DEF Executed, ExecutedInPart
  <2>2. BeginsOf(c) = {} /\ InfersOf(c) = {c.trial} /\ (c.name = "prepare-skill") = FALSE
    BY <1>3, <2>1 DEF BeginsOf, InfersOf
  <2>3. QED BY <2>1, <2>2, InferServes
<1>4. CASE c.name \in {"open-session", "close-session", "end-trial", "abort"}
  <2>1. BeginsOf(c) = {} /\ InfersOf(c) = {} /\ (c.name = "prepare-skill") = FALSE
    BY <1>4 DEF BeginsOf, InfersOf
  <2>2. \/ \E s \in Sessions : Server!OpenSession(s)
        \/ c.session \in Sessions /\ Server!CloseSession(c.session)
        \/ Server!EndTrial \/ Server!Abort
    BY <1>4, CommandFields DEF Executed, ExecutedInPart
  <2>3. QED BY <2>1, <2>2, OpenSessionServes, CloseSessionServes, EndTrialServes, AbortServes
<1>5. QED BY <1>1, <1>2, <1>3, <1>4, CommandFields

-----------------------------------------------------------------------------
\* How the parts of the invariant survive a step.
FilesPart  == EdgeIInv /\ StoreFollows /\ NoFailureYet /\ FailedStageNotCounted
ServerPart == ServerKeeps /\ CompletedStageIsTrue /\ EveryActionAccountedFor

LEMMA Facts ==
  ASSUME OrchIInv
  PROVE  /\ edge \in EdgeRec /\ edge.stage \in Stages /\ edge.step \in Steps
         /\ edge.step # "over" => edge.run \in Runs /\ Trial \in Trials
         /\ \A t \in Trials : /\ t[1] \in Runs /\ t[2] \in Stages
                              /\ Lines(t) \in Nat /\ Recorded(t) \in Nat
                              /\ published[t] \in Nat
         /\ ServerSound
<1>1. edge \in EdgeRec /\ edge.stage \in Stages /\ edge.step \in Steps
  BY EdgeRecIs DEF OrchIInv, OrchTypeOK, EdgeRec
<1>2. edge.step # "over" => edge.run \in Runs /\ Trial \in Trials
  BY <1>1 DEF OrchIInv, StoreFollows, Trial, Trials
<1>3. ASSUME NEW t \in Trials
      PROVE  /\ t[1] \in Runs /\ t[2] \in Stages
             /\ Lines(t) \in Nat /\ Recorded(t) \in Nat /\ published[t] \in Nat
  <2>1. t[1] \in Runs /\ t[2] \in Stages
    BY DEF Trials
  <2>2. runs[t[1]] \in RunDir
    BY <2>1 DEF OrchIInv, EdgeIInv, EdgeTypeOK
  <2>3. runs[t[1]].stages[t[2]] \in StageDir
    BY <2>1, <2>2 DEF RunDir
  <2>4. Lines(t) \in Nat
    BY <2>3 DEF Lines, StageDir
  <2>5. trials[t] \in TrialRec
    BY ServerTypes DEF OrchIInv, OrchTypeOK
  <2>6. QED BY <2>1, <2>4, <2>5 DEF OrchIInv, OrchTypeOK, Recorded, TrialRec
<1>4. ServerSound
  BY DEF OrchIInv, OrchTypeOK, ServerKeeps, ServerSound
<1>5. QED BY <1>1, <1>2, <1>3, <1>4

\* No stage directory changes, nor which run and stage are open.
StagesKept ==
    /\ UNCHANGED <<activeRun, completedStages, stageActive>>
    /\ \A r \in Runs : runs'[r].stages = runs[r].stages

\* A step of the run after which it is not further than it was.
Within(s, n) ==
    \A G \in {Active, Opening \cup StageSteps, StageSteps, {"begin"}, {"HANDOFF"},
              Steps \ {"over"}} : n \in G => s \in G

LEMMA FilesGoOn ==
  ASSUME OrchIInv, StagesKept, EdgeIInv', FailedStageNotCounted',
         edge' \in EdgeRec, SameRun(edge, edge'), Within(edge.step, edge'.step)
  PROVE  FilesPart'
<1>1. /\ edge'.step \in Active => edge.step \in Active
      /\ edge'.step \in Opening \cup StageSteps => edge.step \in Opening \cup StageSteps
      /\ edge'.step \in StageSteps => edge.step \in StageSteps
      /\ edge'.step = "begin" => edge.step = "begin"
      /\ edge'.step = "HANDOFF" => edge.step = "HANDOFF"
      /\ edge'.step # "over" => edge.step # "over"
  BY DEF Within, EdgeRec
<1>2. edge'.run = edge.run /\ edge'.stage = edge.stage /\ Trial' = Trial
  BY DEF SameRun, Trial
<1>3. /\ activeRun' = activeRun /\ completedStages' = completedStages
      /\ stageActive' = stageActive
      /\ \A r \in Runs : runs'[r].stages = runs[r].stages
  BY DEF StagesKept
<1>4. edge.step \in StageSteps => StageOf(Trial)' = StageOf(Trial)
  <2>1. ASSUME edge.step \in StageSteps PROVE edge.run \in Runs
    BY <2>1, Facts DEF StageSteps, Unbegun, Underway, Asking, Acting, Resting, Judged
  <2>2. QED BY <1>2, <1>3, <2>1 DEF StageOf, Trial
<1>5. StoreFollows'
  BY <1>1, <1>2, <1>3, <1>4 DEF OrchIInv, StoreFollows, At
<1>6. NoFailureYet'
  <2>1. edge'.step \in Active => \A i \in Stages : ~runs'[edge'.run].stages[i].failure
    <3>1. ASSUME edge.step \in Active PROVE edge.run \in Runs
      BY <3>1, Facts DEF Active, Opening, StageSteps, Unbegun, Underway, Asking, Acting,
                         Resting, Judged, Closing, Cleanup
    <3>2. QED BY <1>1, <1>2, <1>3, <3>1 DEF OrchIInv, NoFailureYet
  <2>2. \A t \in Trials : StageOf(t)'.evidence = "ABSENT" => ~StageOf(t)'.failure
    BY <1>3, Facts DEF OrchIInv, NoFailureYet, StageOf
  <2>3. stageActive' => runs'[activeRun'].stages[completedStages'].evidence # "ABSENT"
    BY <1>3 DEF OrchIInv, NoFailureYet, EdgeIInv, EdgeTypeOK
  <2>4. QED BY <2>1, <2>2, <2>3 DEF NoFailureYet
<1>7. QED BY <1>5, <1>6 DEF FilesPart

\* Steps that leave the server, the arm and the stage directories alone.
LEMMA ServerUntouched ==
  ASSUME OrchIInv, UNCHANGED serverVars, published' = published,
         \A r \in Runs : runs'[r].stages = runs[r].stages,
         \A t \in Trials : passed[t] \subseteq passed'[t],
         edge'.step \in StageSteps => edge.step \in StageSteps /\ Trial' = Trial
  PROVE  ServerPart'
<1>1. service' = service /\ trials' = trials /\ late' = late
  BY DEF serverVars
<1>2. ASSUME NEW t \in Trials
      PROVE  /\ StageOf(t)' = StageOf(t) /\ Lines(t)' = Lines(t)
             /\ Recorded(t)' = Recorded(t) /\ HasCompleted(t[1], t[2])' = HasCompleted(t[1], t[2])
             /\ Even(t)' = Even(t)
  BY <1>1, Facts DEF StageOf, Lines, Recorded, HasCompleted, Even
<1>3. ServerKeeps'
  <2>1. \A t \in Trials :
           /\ service'.trial = t => trials'[t].verdict = "open"
           /\ trials'[t].verdict = "unused" => Recorded(t)' = 0
           /\ StageOf(t)'.evidence = "ABSENT" =>
                 Even(t)' /\ Lines(t)' = 0 /\ trials'[t].verdict = "unused"
    BY <1>1, <1>2 DEF OrchIInv, ServerKeeps
  <2>2. \A c \in late' : \A t \in Trials :
          Concerns(c, t) => /\ StageOf(t)'.evidence # "ABSENT"
                            /\ edge'.step \in StageSteps => t # Trial'
    BY <1>1, <1>2 DEF OrchIInv, ServerKeeps
  <2>3. \A c \in late' : c.name = "infer" => Recorded(c.trial)' = Lines(c.trial)'
    BY <1>1, <1>2, CommandFields DEF OrchIInv, OrchTypeOK, ServerKeeps
  <2>4. QED BY <1>1, <2>1, <2>2, <2>3 DEF OrchIInv, ServerKeeps, Concerns
<1>4. CompletedStageIsTrue'
  BY <1>1, <1>2 DEF OrchIInv, CompletedStageIsTrue
<1>5. EveryActionAccountedFor'
  BY <1>1, <1>2 DEF OrchIInv, EveryActionAccountedFor
<1>6. QED BY <1>3, <1>4, <1>5 DEF ServerPart

\* Steps of the server, when the edge process does what fits: the trials that
\* may begin have a directory, and a line is recorded only where none is due.
LEMMA ServerMoves ==
  ASSUME OrchIInv, NoFiles, UNCHANGED <<published, passed>>,
         NEW B \in SUBSET Trials, NEW I \in SUBSET Trials, NEW prepares \in BOOLEAN,
         ServerStep(B, I, prepares),
         \A t \in B \cup I : StageOf(t).evidence # "ABSENT",
         \A t \in I : Even(t),
         late' \subseteq late,
         \A c \in late' : c.name = "infer" => c.trial \notin I,
         edge'.step \in StageSteps => edge.step \in StageSteps /\ Trial' = Trial
  PROVE  ServerPart'
<1>1. runs' = runs
  BY DEF NoFiles, edgeVars
<1>2. ASSUME NEW t \in Trials
      PROVE  /\ StageOf(t)' = StageOf(t) /\ Lines(t)' = Lines(t)
             /\ HasCompleted(t[1], t[2])' = HasCompleted(t[1], t[2])
             /\ Recorded(t)' = IF t \in I THEN Recorded(t) + 1 ELSE Recorded(t)
  <2>1. Recorded(t)' = IF t \in I THEN Recorded(t) + 1 ELSE Recorded(t)
    BY DEF Recorded, ServerStep
  <2>2. QED BY <1>1, <2>1 DEF StageOf, Lines, HasCompleted
<1>3. ServerKeeps'
  <2>1. ASSUME NEW t \in Trials
        PROVE  /\ service'.trial = t => trials'[t].verdict = "open"
               /\ trials'[t].verdict = "unused" => Recorded(t)' = 0
               /\ StageOf(t)'.evidence = "ABSENT" =>
                    Even(t)' /\ Lines(t)' = 0 /\ trials'[t].verdict = "unused"
    <3>1. service'.trial = t => trials'[t].verdict = "open"
      BY DEF ServerStep
    <3>2. ASSUME trials'[t].verdict = "unused" PROVE Recorded(t)' = 0
      BY <1>2, <3>2 DEF ServerStep, OrchIInv, ServerKeeps
    <3>3. ASSUME StageOf(t)'.evidence = "ABSENT"
          PROVE  Even(t)' /\ Lines(t)' = 0 /\ trials'[t].verdict = "unused"
      <4>1. t \notin B /\ t \notin I
        BY <1>2, <3>3
      <4>2. Even(t) /\ Lines(t) = 0 /\ trials[t].verdict = "unused"
        BY <1>2, <3>3 DEF OrchIInv, ServerKeeps
      <4>3. Recorded(t)' = Recorded(t) /\ trials'[t].verdict = "unused"
        BY <1>2, <4>1, <4>2 DEF ServerStep
      <4>4. QED BY <1>2, <4>2, <4>3 DEF Even
    <3>4. QED BY <3>1, <3>2, <3>3
  <2>2. \A c \in late' : \A t \in Trials :
          Concerns(c, t) => /\ StageOf(t)'.evidence # "ABSENT"
                            /\ edge'.step \in StageSteps => t # Trial'
    BY <1>2 DEF OrchIInv, ServerKeeps
  <2>3. \A c \in late' : c.name = "infer" => Recorded(c.trial)' = Lines(c.trial)'
    BY <1>2, CommandFields DEF OrchIInv, OrchTypeOK, ServerKeeps
  <2>4. service'.instance <= MaxInstances
    BY DEF ServerStep
  <2>5. \A c, d \in late' : c = d
    BY DEF OrchIInv, ServerKeeps
  <2>6. QED BY <2>1, <2>2, <2>3, <2>4, <2>5 DEF ServerKeeps, Concerns
<1>4. CompletedStageIsTrue'
  <2>1. ASSUME NEW t \in Trials, HasCompleted(t[1], t[2])
        PROVE  trials'[t].verdict = "COMMITTED" /\ Recorded(t)' = Recorded(t)
    <3>1. trials[t].verdict = "COMMITTED"
      BY <2>1 DEF OrchIInv, CompletedStageIsTrue
    <3>2. QED BY <1>2, <3>1 DEF ServerStep
  <2>2. QED BY <1>2, <2>1 DEF OrchIInv, CompletedStageIsTrue, Recorded
<1>5. EveryActionAccountedFor'
  <2>1. ASSUME NEW t \in Trials
        PROVE  /\ Lines(t) <= published[t] /\ published[t] <= Recorded(t)'
               /\ Recorded(t)' <= Lines(t) + 1
    <3>1. CASE t \in I
      BY <1>2, <3>1, Facts DEF Even
    <3>2. CASE t \notin I
      BY <1>2, <3>2 DEF OrchIInv, EveryActionAccountedFor, Recorded
    <3>3. QED BY <3>1, <3>2
  <2>2. QED BY <1>2, <2>1 DEF EveryActionAccountedFor, Recorded
<1>6. QED BY <1>3, <1>4, <1>5 DEF ServerPart

\* Outside a stage there is nothing to keep in step.
LEMMA OutsideStage ==
  ASSUME edge'.step \notin StageSteps
  PROVE  StageInStep' /\ OwnTrialOrNone'
  BY DEF StageSteps, Underway, Unbegun, Asking, Acting, Resting, Judged, StageInStep,
         OwnTrialOrNone, At

LEMMA TypesKept ==
  ASSUME EdgeIInv', service' \in ServiceRec, opened' \subseteq Sessions,
         trials' \in [Trials -> TrialRec], late' \subseteq Command, edge' \in EdgeRec,
         hasPublished' \in BOOLEAN, published' \in [Trials -> Nat],
         passed' \in [Trials -> SUBSET {"joint_gate", "checker"}]
  PROVE  OrchTypeOK'
  BY ServerTypesBack, EdgeRecIs, Zenon DEF OrchTypeOK, EdgeIInv

LEMMA FilesAlone ==
  ASSUME OrchIInv, NoFiles
  PROVE  StagesKept /\ EdgeIInv' /\ FailedStageNotCounted'
<1>1. UNCHANGED edgeVars
  BY DEF NoFiles
<1>2. EdgeIInv'
  BY <1>1, EdgeNextIInv DEF OrchIInv
<1>3. StagesKept /\ FailedStageNotCounted'
  BY <1>1 DEF edgeVars, StagesKept, FailedStageNotCounted, OrchIInv
<1>4. QED BY <1>2, <1>3

\* A step without effect outside the edge process and its gates.
LEMMA QuietStep ==
  ASSUME OrchIInv, StagesKept, EdgeIInv', FailedStageNotCounted',
         UNCHANGED serverVars, published' = published,
         passed' \in [Trials -> SUBSET {"joint_gate", "checker"}],
         \A t \in Trials : passed[t] \subseteq passed'[t],
         hasPublished' \in BOOLEAN, HeldInStep',
         edge' \in EdgeRec, SameRun(edge, edge'), Within(edge.step, edge'.step),
         StageInStep', OwnTrialOrNone'
  PROVE  OrchIInv'
<1>1. FilesPart'
  BY FilesGoOn
<1>2. Trial' = Trial
  BY DEF SameRun, Trial
<1>3. edge'.step \in StageSteps => edge.step \in StageSteps
  BY DEF Within
<1>4. \A r \in Runs : runs'[r].stages = runs[r].stages
  BY DEF StagesKept
<1>5. ServerPart'
  BY <1>2, <1>3, <1>4, ServerUntouched
<1>6. OrchTypeOK'
  BY TypesKept, ServerTypes DEF serverVars, OrchIInv, OrchTypeOK
<1>7. QED BY <1>1, <1>5, <1>6 DEF FilesPart, ServerPart, OrchIInv

\* A step of the server, and of the edge process if it waited for it.
LEMMA ServedStep ==
  ASSUME OrchIInv, NoFiles, NoArm,
         NEW B \in SUBSET Trials, NEW I \in SUBSET Trials, NEW prepares \in BOOLEAN,
         ServerStep(B, I, prepares),
         \A t \in B \cup I : StageOf(t).evidence # "ABSENT",
         \A t \in I : Even(t),
         late' \subseteq late,
         \A c \in late' : c.name = "infer" => c.trial \notin I,
         edge' \in EdgeRec, SameRun(edge, edge'), Within(edge.step, edge'.step),
         HeldInStep', StageInStep', OwnTrialOrNone'
  PROVE  OrchIInv'
<1>1. StagesKept /\ EdgeIInv' /\ FailedStageNotCounted'
  BY FilesAlone
<1>2. FilesPart'
  BY <1>1, FilesGoOn
<1>3. edge'.step \in StageSteps => edge.step \in StageSteps /\ Trial' = Trial
  BY DEF SameRun, Trial, Within
<1>4. published' = published /\ passed' = passed /\ hasPublished' = hasPublished
  BY DEF NoArm, armVars
<1>5. ServerPart'
  BY <1>3, <1>4, ServerMoves
<1>6. OrchTypeOK'
  <2>1. service' \in ServiceRec /\ opened' \subseteq Sessions /\ trials' \in [Trials -> TrialRec]
    BY DEF ServerStep, Server!ServiceTypeOK, Server!Verdicts, ServiceRec, TrialRec
  <2>2. late' \subseteq Command
    BY DEF OrchIInv, OrchTypeOK
  <2>3. QED BY <1>1, <1>4, <2>1, <2>2, TypesKept DEF OrchIInv, OrchTypeOK
<1>7. QED BY <1>2, <1>5, <1>6 DEF FilesPart, ServerPart, OrchIInv

-----------------------------------------------------------------------------
\* A call that is not answered, whatever became of it: the run is cleaned up.
\* A call about a trial is about the open stage's, and an inference is asked
\* for when all that was asked before is on file.
OwnCall(c) ==
    /\ c \in Command
    /\ edge.step \in Active
    /\ c.name \in {"begin-trial", "infer"} => edge.step \in StageSteps /\ c.trial = Trial
    /\ c.name = "infer" => Even(Trial)

LEMMA OwnCallFits ==
  ASSUME OrchIInv, NEW c, OwnCall(c)
  PROVE  /\ c \in Command
         /\ \A t \in BeginsOf(c) \cup InfersOf(c) : StageOf(t).evidence = "ACTIVE" /\ t = Trial
         /\ \A t \in InfersOf(c) : Even(t)
         /\ \A d \in late : d.name = "infer" => d.trial \notin InfersOf(c)
<1>1. c \in Command
  BY DEF OwnCall
<1>2. ASSUME NEW t \in BeginsOf(c) \cup InfersOf(c)
      PROVE  t = Trial /\ edge.step \in StageSteps
  BY DEF BeginsOf, InfersOf, OwnCall
<1>3. ASSUME NEW t \in BeginsOf(c) \cup InfersOf(c)
      PROVE  StageOf(t).evidence = "ACTIVE"
  BY <1>2 DEF OrchIInv, StoreFollows
<1>4. \A t \in InfersOf(c) : Even(t)
  BY <1>2 DEF InfersOf, OwnCall
<1>5. ASSUME NEW d \in late, d.name = "infer", d.trial \in InfersOf(c)
      PROVE  FALSE
  <2>1. d.trial \in Trials /\ d.trial = Trial /\ edge.step \in StageSteps
    BY <1>2, <1>5 DEF InfersOf
  <2>2. Concerns(d, d.trial)
    BY <1>5 DEF Concerns
  <2>3. QED BY <1>5, <2>1, <2>2 DEF OrchIInv, ServerKeeps
<1>6. QED BY <1>1, <1>2, <1>3, <1>4, <1>5

LEMMA CleanupFollows ==
  ASSUME edge.step \in Active, edge'.step \in Cleanup
  PROVE  Within(edge.step, edge'.step) /\ edge'.step \notin StageSteps
<1>1. edge.step # "over"
  BY DEF Active, Opening, StageSteps, Unbegun, Underway, Asking, Acting, Resting, Judged,
         Closing, Cleanup
<1>2. /\ edge'.step \notin StageSteps /\ edge'.step \notin Opening
      /\ edge'.step \notin {"begin", "HANDOFF"}
  BY DEF Opening, StageSteps, Unbegun, Underway, Asking, Acting, Resting, Judged, Cleanup
<1>3. edge.step \in Steps
  BY AllSteps DEF Active, Opening, StageSteps, Unbegun, Underway, Asking, Acting, Resting,
         Judged, Closing, Cleanup
<1>4. QED BY <1>1, <1>2, <1>3 DEF Within

LEMMA CallGoesWrong ==
  ASSUME OrchIInv, NoFiles, NoArm, NEW c, OwnCall(c), Unanswered(c),
         edge' \in EdgeRec, SameRun(edge, edge'), edge'.step \in Cleanup, HeldInStep'
  PROVE  OrchIInv'
<1>1. /\ c \in Command
      /\ \A t \in BeginsOf(c) \cup InfersOf(c) : StageOf(t).evidence = "ACTIVE" /\ t = Trial
      /\ \A t \in InfersOf(c) : Even(t)
      /\ \A d \in late : d.name = "infer" => d.trial \notin InfersOf(c)
  BY OwnCallFits
<1>2. Within(edge.step, edge'.step) /\ edge'.step \notin StageSteps
  BY CleanupFollows DEF OwnCall
<1>3. StageInStep' /\ OwnTrialOrNone'
  BY <1>2, OutsideStage
<1>4. StagesKept /\ EdgeIInv' /\ FailedStageNotCounted'
  BY FilesAlone
<1>5. /\ published' = published /\ passed' = passed /\ hasPublished' = hasPublished
      /\ published \in [Trials -> Nat] /\ hasPublished \in BOOLEAN
      /\ passed \in [Trials -> SUBSET {"joint_gate", "checker"}]
  BY DEF NoArm, armVars, OrchIInv, OrchTypeOK
<1>6. CASE NoServer
  BY <1>2, <1>3, <1>4, <1>5, <1>6, QuietStep DEF NoServer
<1>7. CASE (Executed(c) \/ ExecutedInPart(c)) /\ UNCHANGED late
  <2> DEFINE B == BeginsOf(c)  I == InfersOf(c)  prepares == (c.name = "prepare-skill")
  <2>1. ServerStep(B, I, prepares)
    BY <1>1, <1>7, CommandServes, Facts
  <2>2. B \in SUBSET Trials /\ I \in SUBSET Trials /\ prepares \in BOOLEAN
    BY DEF BeginsOf, InfersOf
  <2>3. /\ \A t \in B \cup I : StageOf(t).evidence # "ABSENT"
        /\ \A t \in I : Even(t)
        /\ late' \subseteq late
        /\ \A d \in late' : d.name = "infer" => d.trial \notin I
    BY <1>1, <1>7
  <2> HIDE DEF B, I, prepares
  <2>4. QED BY <1>2, <1>3, <2>1, <2>2, <2>3, ServedStep
<1>8. CASE late = {} /\ late' = {c} /\ UNCHANGED <<service, opened, trials>>
  <2>1. FilesPart'
    BY <1>2, <1>4, FilesGoOn
  <2>2. runs' = runs
    BY DEF NoFiles, edgeVars
  <2>3. ASSUME NEW t \in Trials
        PROVE  /\ StageOf(t)' = StageOf(t) /\ Lines(t)' = Lines(t)
               /\ Recorded(t)' = Recorded(t) /\ Even(t)' = Even(t)
               /\ HasCompleted(t[1], t[2])' = HasCompleted(t[1], t[2])
    BY <1>5, <1>8, <2>2 DEF StageOf, Lines, Recorded, HasCompleted, Even
  <2>4. ServerKeeps'
    <3>1. \A t \in Trials :
             /\ service'.trial = t => trials'[t].verdict = "open"
             /\ trials'[t].verdict = "unused" => Recorded(t)' = 0
             /\ StageOf(t)'.evidence = "ABSENT" =>
                   Even(t)' /\ Lines(t)' = 0 /\ trials'[t].verdict = "unused"
      BY <1>8, <2>3 DEF OrchIInv, ServerKeeps
    <3>2. ASSUME NEW t \in Trials, Concerns(c, t)
          PROVE  StageOf(t)'.evidence # "ABSENT"
      <4>1. t \in BeginsOf(c) \cup InfersOf(c)
        BY <3>2 DEF Concerns, BeginsOf, InfersOf
      <4>2. QED BY <1>1, <2>3, <4>1
    <3>3. ASSUME c.name = "infer" PROVE Recorded(c.trial)' = Lines(c.trial)'
      <4>1. c.trial \in Trials /\ c.trial \in InfersOf(c)
        BY <1>1, <3>3, CommandFields DEF InfersOf
      <4>2. QED BY <1>1, <2>3, <4>1 DEF Even
    <3>4. QED BY <1>2, <1>8, <3>1, <3>2, <3>3 DEF OrchIInv, ServerKeeps, Concerns
  <2>5. CompletedStageIsTrue' /\ EveryActionAccountedFor'
    BY <1>5, <1>8, <2>3 DEF OrchIInv, CompletedStageIsTrue, EveryActionAccountedFor
  <2>6. OrchTypeOK'
    <3>1. late' \subseteq Command
      BY <1>1, <1>8
    <3>2. QED BY <1>4, <1>5, <1>8, <3>1, TypesKept, ServerTypes DEF OrchIInv, OrchTypeOK
  <2>7. QED BY <1>3, <2>1, <2>4, <2>5, <2>6 DEF FilesPart, OrchIInv
<1>9. QED BY <1>6, <1>7, <1>8 DEF Unanswered

-----------------------------------------------------------------------------
\* The calls of a stage to the server.
LEMMA AnsweredFields ==
  ASSUME OrchIInv, NEW c, NEW next \in EdgeRec, Answered(c, next)
  PROVE  /\ edge' \in EdgeRec /\ edge'.step = next.step /\ SameRest(next, edge')
         /\ edge'.session = next.session /\ edge'.result = next.result
         /\ Executed(c) /\ late' = late
<1>1. service.instance \in 0 .. MaxInstances
  BY ServerTypes DEF OrchIInv, OrchTypeOK, ServerKeeps, ServiceRec
<1>2. edge' = [next EXCEPT !.server = service.instance]
  BY DEF Answered
<1>3. QED BY <1>1, <1>2, ServerSet DEF Answered

\* An exception: the safe stop begins, whatever holds the arm.
LEMMA RaisedStep ==
  ASSUME OrchIInv, NEW e \in EdgeRec, SameRun(edge, e), edge' = Raised(e)
  PROVE  /\ edge' \in EdgeRec /\ edge'.step = "safe-stop" /\ edge'.step \in Cleanup
         /\ SameRun(edge, edge') /\ HeldInStep'
<1>1. edge' \in EdgeRec /\ edge'.step = "safe-stop" /\ SameRest(e, edge')
  BY RaisedFields
<1>2. SameRun(edge, edge') /\ edge'.step \in Cleanup
  BY <1>1 DEF SameRest, SameRun, Cleanup
<1>3. edge'.step \notin HeldSteps
  BY <1>1 DEF HeldSteps, Opening, Judged, Closing
<1>4. QED BY <1>1, <1>2, <1>3 DEF HeldInStep

\* The open stage's trial after a step of the server.
TrialMoves(t, B, I) ==
    /\ Trial' = t /\ Lines(t)' = Lines(t)
    /\ published'[t] = published[t] /\ passed[t] \subseteq passed'[t]
    /\ t \in I => Recorded(t)' = Recorded(t) + 1
    /\ t \notin I => Recorded(t)' = Recorded(t) /\ (Even(t)' <=> Even(t))
    /\ t \notin B /\ trials[t].verdict = "unused" => trials'[t].verdict = "unused"
    /\ trials[t].verdict = "COMMITTED" => trials'[t].verdict = "COMMITTED"

LEMMA TrialAfter ==
  ASSUME OrchIInv, NoFiles, NoArm, NEW B, NEW I, NEW prepares, ServerStep(B, I, prepares),
         SameRun(edge, edge'), NEW t \in Trials, t = Trial
  PROVE  TrialMoves(t, B, I)
<1>1. Trial' = t
  BY DEF SameRun, Trial
<1>2. runs' = runs /\ published' = published /\ passed' = passed
  BY DEF NoFiles, edgeVars, NoArm, armVars
<1>3. Lines(t)' = Lines(t)
  BY <1>2 DEF Lines
<1>4. /\ trials'[t].recorded = IF t \in I THEN trials[t].recorded + 1 ELSE trials[t].recorded
      /\ t \notin B /\ trials[t].verdict = "unused" => trials'[t].verdict = "unused"
      /\ trials[t].verdict = "COMMITTED" => trials'[t].verdict = "COMMITTED"
  BY DEF ServerStep
<1>5. /\ t \in I => Recorded(t)' = Recorded(t) + 1
      /\ t \notin I => Recorded(t)' = Recorded(t)
  BY <1>4 DEF Recorded
<1>6. t \notin I => (Even(t)' <=> Even(t))
  BY <1>2, <1>3, <1>5 DEF Even
<1>7. QED BY <1>1, <1>2, <1>3, <1>4, <1>5, <1>6 DEF TrialMoves

\* Membership of the steps the calls begin and end in.
LEMMA CallSteps ==
  /\ {"prepare-skill", "begin-trial"} \subseteq Unbegun
  /\ {"open-session", "READY_TO_ROLLOUT", "begin-stage", "ROLLOUT", "infer"} \subseteq Asking
  /\ {"stop", "close-session", "end-trial"} \subseteq Resting
  /\ {"JOINT_GATE", "joint-gate", "CHECKING", "checker", "complete-stage"} \subseteq Judged
  /\ Unbegun \cup Asking \cup Acting \cup Resting \cup Judged = StageSteps
  /\ Underway = Asking \cup Acting \cup Resting
  /\ StageSteps \subseteq Active /\ Active \subseteq Steps \ {"over", "begin"}
  /\ "HANDOFF" \notin StageSteps
  BY AllSteps DEF Active, Opening, StageSteps, Unbegun, Underway, Asking, Acting, Resting,
                  Judged, Closing, Cleanup

LEMMA WithinStage ==
  ASSUME edge.step \in StageSteps, edge'.step \in StageSteps
  PROVE  Within(edge.step, edge'.step)
  BY CallSteps DEF Within

\* An answered call about no trial, or about the open stage's.
LEMMA AnsweredStep ==
  ASSUME OrchIInv, NoFiles, NoArm, NEW c, OwnCall(c), NEW prepares \in BOOLEAN,
         ServerStep(BeginsOf(c), InfersOf(c), prepares), late' = late,
         edge' \in EdgeRec, SameRun(edge, edge'), Within(edge.step, edge'.step),
         HeldInStep', StageInStep', OwnTrialOrNone'
  PROVE  OrchIInv'
<1>1. /\ \A t \in BeginsOf(c) \cup InfersOf(c) : StageOf(t).evidence = "ACTIVE"
      /\ \A t \in InfersOf(c) : Even(t)
      /\ \A d \in late : d.name = "infer" => d.trial \notin InfersOf(c)
  BY OwnCallFits
<1> DEFINE B == BeginsOf(c)  I == InfersOf(c)
<1>2. B \in SUBSET Trials /\ I \in SUBSET Trials /\ ServerStep(B, I, prepares)
  BY DEF BeginsOf, InfersOf
<1>3. /\ \A t \in B \cup I : StageOf(t).evidence # "ABSENT"
      /\ \A t \in I : Even(t)
      /\ late' \subseteq late
      /\ \A d \in late' : d.name = "infer" => d.trial \notin I
  BY <1>1
<1> HIDE DEF B, I
<1>4. QED BY <1>2, <1>3, ServedStep

LEMMA CallRaises ==
  ASSUME OrchIInv, NoFiles, NoArm, NEW c, OwnCall(c), Unanswered(c),
         NEW e \in EdgeRec, SameRun(edge, e), edge' = Raised(e)
  PROVE  OrchIInv'
<1>1. /\ edge' \in EdgeRec /\ edge'.step \in Cleanup /\ SameRun(edge, edge')
      /\ HeldInStep'
  BY RaisedStep
<1>2. QED BY <1>1, CallGoesWrong, Zenon

\* What a step of each kind has to establish.
LEMMA PhaseReached ==
  ASSUME NEW t, Trial' = t, edge'.step \in StageSteps
  PROVE  /\ edge'.step \in Unbegun /\ Even(t)' /\ Lines(t)' = 0
            /\ trials'[t].verdict = "unused" => StageInStep' /\ OwnTrialOrNone'
         /\ edge'.step \in Asking /\ Even(t)'
            /\ (edge'.session \in Sessions \/ edge'.step = "open-session") => StageInStep'
         /\ edge'.step \in Resting /\ Even(t)' /\ Lines(t)' > 0
            /\ "joint_gate" \in passed'[t]
            /\ (edge'.session \in Sessions \/ edge'.step = "end-trial") => StageInStep'
         /\ edge'.step \in Judged /\ Even(t)' /\ Lines(t)' > 0
            /\ "joint_gate" \in passed'[t] /\ trials'[t].verdict = "COMMITTED"
            /\ (edge'.step = "complete-stage" /\ edge'.stage \in Checked =>
                   "checker" \in passed'[t]) => StageInStep' /\ OwnTrialOrNone'
<1> USE DEF Unbegun, Asking, Resting, Judged, Underway, Acting, At
<1>1. ASSUME edge'.step \in Unbegun, Even(t)', Lines(t)' = 0, trials'[t].verdict = "unused"
      PROVE  StageInStep' /\ OwnTrialOrNone'
  BY <1>1 DEF StageInStep, OwnTrialOrNone, Even, Lines, Recorded
<1>2. ASSUME edge'.step \in Asking, Even(t)',
             edge'.session \in Sessions \/ edge'.step = "open-session"
      PROVE  StageInStep'
  BY <1>2 DEF StageInStep, Even, Lines, Recorded
<1>3. ASSUME edge'.step \in Resting, Even(t)', Lines(t)' > 0, "joint_gate" \in passed'[t],
             edge'.session \in Sessions \/ edge'.step = "end-trial"
      PROVE  StageInStep'
  BY <1>3 DEF StageInStep, Even, Lines, Recorded
<1>4. ASSUME edge'.step \in Judged, Even(t)', Lines(t)' > 0,
             "joint_gate" \in passed'[t], trials'[t].verdict = "COMMITTED",
             edge'.step = "complete-stage" /\ edge'.stage \in Checked =>
                "checker" \in passed'[t]
      PROVE  StageInStep' /\ OwnTrialOrNone'
  BY <1>4 DEF StageInStep, OwnTrialOrNone, Even, Lines, Recorded
<1> HIDE DEF Unbegun, Asking, Resting, Judged, Underway, Acting, At
<1>5. QED BY <1>1, <1>2, <1>3, <1>4

\* The server's trial through a step that begins none.
LEMMA OwnTrialKept ==
  ASSUME OrchIInv, edge.step \in Underway, SameRun(edge, edge'), late' = late,
         service'.trial = service.trial, service'.state = "READY" => service.state = "READY"
  PROVE  OwnTrialOrNone'
  BY DEF OrchIInv, OwnTrialOrNone, SameRun, Trial

LEMMA Awaited == \A s \in {"begin-trial", "open-session", "READY_TO_ROLLOUT", "begin-stage",
                           "ROLLOUT", "infer", "publish"} : s \notin HeldSteps
  BY DEF HeldSteps, Opening, Judged, Closing

LEMMA PrepareSkillStep ==
  ASSUME OrchIInv, PrepareSkill
  PROVE  OrchIInv'
<1> DEFINE c == [name |-> "prepare-skill", skill |-> Skill]
<1>1. /\ edge.step = "prepare-skill" /\ edge.step \in Unbegun /\ edge.step \in StageSteps
      /\ edge.step # "over" /\ edge.step \in Active /\ NoFiles /\ NoArm
      /\ Answered(c, To("begin-trial")) \/ (Unanswered(c) /\ edge' = Raised(edge))
  BY CallSteps DEF PrepareSkill, ControlCall, At
<1>2. Skill \in Skills /\ edge \in EdgeRec /\ Trial \in Trials
  BY <1>1, Facts, OrchestratorAssumption DEF Skill
<1> PICK t \in Trials : t = Trial
  BY <1>2
<1>3. /\ c \in Command /\ OwnCall(c) /\ c.name = "prepare-skill" /\ c.skill = Skill
      /\ BeginsOf(c) = {} /\ InfersOf(c) = {}
  BY <1>1, <1>2 DEF Command, OwnCall, BeginsOf, InfersOf
<1> HIDE DEF c
<1>4. CASE Unanswered(c) /\ edge' = Raised(edge)
  BY <1>1, <1>2, <1>3, <1>4, CallRaises DEF SameRun
<1>5. CASE Answered(c, To("begin-trial"))
  <2> DEFINE next == To("begin-trial")
  <2>1. next \in EdgeRec /\ next.step = "begin-trial" /\ SameRest(edge, next)
    BY <1>2, AllSteps, Stepped DEF To
  <2> HIDE DEF next
  <2>2. /\ edge' \in EdgeRec /\ edge'.step = "begin-trial" /\ SameRest(next, edge')
        /\ Executed(c) /\ late' = late
    BY <1>5, <2>1, AnsweredFields DEF next
  <2>3. SameRun(edge, edge')
    BY <2>1, <2>2 DEF SameRest, SameRun
  <2>4. ServerStep({}, {}, TRUE)
    BY <1>2, <1>3, <2>2, PrepareSkillServes, Facts DEF Executed
  <2>5. TrialMoves(t, {}, {})
    BY <1>1, <2>3, <2>4, TrialAfter
  <2>6. Even(t) /\ Lines(t) = 0 /\ trials[t].verdict = "unused"
    BY <1>1 DEF OrchIInv, StageInStep
  <2>7. StageInStep' /\ OwnTrialOrNone'
    BY <2>2, <2>5, <2>6, PhaseReached, CallSteps DEF TrialMoves
  <2>8. Within(edge.step, edge'.step) /\ HeldInStep'
    BY <1>1, <2>2, CallSteps, WithinStage, Awaited DEF HeldInStep
  <2>9. QED BY <1>1, <1>3, <2>2, <2>3, <2>4, <2>7, <2>8, AnsweredStep
<1>6. QED BY <1>1, <1>4, <1>5

LEMMA BeginTrialStep ==
  ASSUME OrchIInv, BeginTrial
  PROVE  OrchIInv'
<1> DEFINE c == [name |-> "begin-trial", trial |-> Trial]
           begun == [To("open-session") EXCEPT !.trialStarted = TRUE]
<1>1. /\ edge.step = "begin-trial" /\ edge.step \in Unbegun /\ edge.step \in StageSteps
      /\ edge.step # "over" /\ edge.step \in Active /\ NoFiles /\ NoArm
      /\ Answered(c, begun) \/ (Unanswered(c) /\ edge' = Raised(Starting))
  BY CallSteps DEF BeginTrial, ControlCall, At
<1>2. Trial \in Trials /\ edge \in EdgeRec
  BY <1>1, Facts
<1> PICK t \in Trials : t = Trial
  BY <1>2
<1>3. /\ c \in Command /\ OwnCall(c) /\ c.name = "begin-trial" /\ c.trial = Trial
      /\ BeginsOf(c) = {Trial} /\ InfersOf(c) = {}
  BY <1>1, <1>2 DEF Command, OwnCall, BeginsOf, InfersOf
<1> HIDE DEF c
<1>4. CASE Unanswered(c) /\ edge' = Raised(Starting)
  <2>1. Starting \in EdgeRec /\ SameRun(edge, Starting)
    BY <1>2, StartedSet DEF Starting
  <2>2. QED BY <1>1, <1>3, <1>4, <2>1, CallRaises
<1>5. CASE Answered(c, begun)
  <2>1. begun \in EdgeRec /\ begun.step = "open-session" /\ SameRun(edge, begun)
    <3> DEFINE e == To("open-session")
    <3>1. e \in EdgeRec /\ e.step = "open-session" /\ SameRest(edge, e)
      BY <1>2, AllSteps, Stepped DEF To
    <3>2. begun = [e EXCEPT !.trialStarted = TRUE]
      OBVIOUS
    <3> HIDE DEF e, begun
    <3>3. QED BY <3>1, <3>2, StartedSet DEF SameRest, SameRun
  <2> HIDE DEF begun
  <2>2. /\ edge' \in EdgeRec /\ edge'.step = "open-session" /\ SameRest(begun, edge')
        /\ Executed(c) /\ late' = late
    BY <1>5, <2>1, AnsweredFields
  <2>3. SameRun(edge, edge')
    BY <2>1, <2>2 DEF SameRest, SameRun
  <2>4. ServerStep({Trial}, {}, FALSE) /\ service'.trial = Trial
    BY <1>2, <1>3, <2>2, BeginTrialServes, Facts DEF Executed
  <2>5. TrialMoves(t, {Trial}, {})
    BY <1>1, <2>3, <2>4, TrialAfter
  <2>6. Even(t)
    BY <1>1 DEF OrchIInv, StageInStep
  <2>7. StageInStep' /\ OwnTrialOrNone'
    BY <2>2, <2>4, <2>5, <2>6, PhaseReached, CallSteps DEF OwnTrialOrNone, TrialMoves
  <2>8. Within(edge.step, edge'.step) /\ HeldInStep'
    BY <1>1, <2>2, CallSteps, WithinStage, Awaited DEF HeldInStep
  <2>9. QED BY <1>1, <1>3, <2>2, <2>3, <2>4, <2>7, <2>8, AnsweredStep
<1>6. QED BY <1>1, <1>4, <1>5

LEMMA OpenSessionStep ==
  ASSUME OrchIInv, OpenSession
  PROVE  OrchIInv'
<1> DEFINE c == [name |-> "open-session"]
           given == [To("READY_TO_ROLLOUT") EXCEPT !.session = service'.session]
<1>1. /\ edge.step = "open-session" /\ edge.step \in Asking /\ edge.step \in StageSteps
      /\ edge.step \in Underway /\ edge.step # "over" /\ edge.step \in Active
      /\ NoFiles /\ NoArm
      /\ Answered(c, given) \/ (Unanswered(c) /\ edge' = Raised(edge))
  BY CallSteps DEF OpenSession, At, Raise
<1>2. edge \in EdgeRec /\ Trial \in Trials
  BY <1>1, Facts
<1> PICK t \in Trials : t = Trial
  BY <1>2
<1>3. /\ c \in Command /\ OwnCall(c) /\ c.name = "open-session"
      /\ BeginsOf(c) = {} /\ InfersOf(c) = {}
  BY <1>1 DEF Command, OwnCall, BeginsOf, InfersOf
<1> HIDE DEF c
<1>4. CASE Unanswered(c) /\ edge' = Raised(edge)
  BY <1>1, <1>2, <1>3, <1>4, CallRaises DEF SameRun
<1>5. CASE Answered(c, given)
  <2>1. PICK s \in Sessions : Server!OpenSession(s)
    BY <1>3, <1>5 DEF Answered, Executed
  <2>2. /\ ServerStep({}, {}, FALSE) /\ service'.session = s
        /\ service'.trial = service.trial /\ service'.state = service.state
    BY <2>1, OpenSessionServes, Facts
  <2>3. given \in EdgeRec /\ given.step = "READY_TO_ROLLOUT" /\ SameRun(edge, given)
        /\ given.session = s
    <3> DEFINE e == To("READY_TO_ROLLOUT")
    <3>1. e \in EdgeRec /\ e.step = "READY_TO_ROLLOUT" /\ SameRest(edge, e)
      BY <1>2, AllSteps, Stepped DEF To
    <3>2. given = [e EXCEPT !.session = s]
      BY <2>2
    <3> HIDE DEF e, given
    <3>3. QED BY <3>1, <3>2, SessionSet DEF SameRest, SameRun
  <2> HIDE DEF given
  <2>4. /\ edge' \in EdgeRec /\ edge'.step = "READY_TO_ROLLOUT" /\ SameRest(given, edge')
        /\ edge'.session = s /\ late' = late
    BY <1>5, <2>3, AnsweredFields
  <2>5. SameRun(edge, edge')
    BY <2>3, <2>4 DEF SameRest, SameRun
  <2>6. TrialMoves(t, {}, {}) /\ Even(t)
    <3>1. TrialMoves(t, {}, {})
      BY <1>1, <2>2, <2>5, TrialAfter
    <3>2. QED BY <1>1, <3>1 DEF OrchIInv, StageInStep
  <2>7. StageInStep'
    BY <2>4, <2>6, PhaseReached, CallSteps DEF TrialMoves
  <2>8. OwnTrialOrNone'
    BY <1>1, <2>2, <2>4, <2>5, OwnTrialKept
  <2>9. Within(edge.step, edge'.step) /\ HeldInStep'
    BY <1>1, <2>4, CallSteps, WithinStage, Awaited DEF HeldInStep
  <2>10. QED BY <1>1, <1>3, <2>2, <2>4, <2>5, <2>7, <2>8, <2>9, AnsweredStep
<1>6. QED BY <1>1, <1>4, <1>5

LEMMA CloseSessionStep ==
  ASSUME OrchIInv, CloseSession
  PROVE  OrchIInv'
<1> DEFINE c == [name |-> "close-session", session |-> edge.session]
           closed == [To("end-trial") EXCEPT !.session = NoSession]
<1>1. /\ edge.step = "close-session" /\ edge.step \in Resting /\ edge.step \in StageSteps
      /\ edge.step \in Underway /\ edge.step # "over" /\ edge.step \in Active
      /\ NoFiles /\ NoArm
      /\ Answered(c, closed) \/ (Unanswered(c) /\ edge' = Raised(edge))
  BY CallSteps DEF CloseSession, ControlCall, At
<1>2. edge \in EdgeRec /\ Trial \in Trials /\ edge.session \in Sessions
  BY <1>1, Facts DEF OrchIInv, StageInStep
<1> PICK t \in Trials : t = Trial
  BY <1>2
<1>3. /\ c \in Command /\ OwnCall(c) /\ c.name = "close-session" /\ c.session = edge.session
      /\ BeginsOf(c) = {} /\ InfersOf(c) = {}
  BY <1>1, <1>2 DEF Command, OwnCall, BeginsOf, InfersOf
<1> HIDE DEF c
<1>4. CASE Unanswered(c) /\ edge' = Raised(edge)
  BY <1>1, <1>2, <1>3, <1>4, CallRaises DEF SameRun
<1>5. CASE Answered(c, closed)
  <2>1. closed \in EdgeRec /\ closed.step = "end-trial" /\ SameRest(edge, closed)
    <3> DEFINE e == To("end-trial")
    <3>1. e \in EdgeRec /\ e.step = "end-trial" /\ SameRest(edge, e)
      BY <1>2, AllSteps, Stepped DEF To
    <3>2. closed = [e EXCEPT !.session = NoSession] /\ NoSession \in Sessions \cup {NoSession}
      OBVIOUS
    <3> HIDE DEF e, closed
    <3>3. QED BY <3>1, <3>2, SessionSet DEF SameRest, SameRun
  <2> HIDE DEF closed
  <2>2. /\ edge' \in EdgeRec /\ edge'.step = "end-trial" /\ SameRest(closed, edge')
        /\ Executed(c) /\ late' = late
    BY <1>5, <2>1, AnsweredFields
  <2>3. SameRest(edge, edge') /\ SameRun(edge, edge')
    BY <2>1, <2>2 DEF SameRest, SameRun
  <2>4. /\ ServerStep({}, {}, FALSE)
        /\ service'.trial = service.trial /\ service'.state = service.state
    BY <1>2, <1>3, <2>2, CloseSessionServes, Facts DEF Executed
  <2>5. TrialMoves(t, {}, {})
    BY <1>1, <2>3, <2>4, TrialAfter
  <2>6. Even(t) /\ Lines(t) > 0 /\ "joint_gate" \in passed[t]
    BY <1>1 DEF OrchIInv, StageInStep
  <2>7. StageInStep'
    BY <2>2, <2>5, <2>6, PhaseReached, CallSteps DEF TrialMoves
  <2>8. OwnTrialOrNone'
    BY <1>1, <2>2, <2>3, <2>4, OwnTrialKept
  <2>9. HeldInStep'
    <3>1. edge.step \in HeldSteps
      BY <1>1 DEF HeldSteps
    <3>2. hasPublished' = hasPublished /\ edge'.cleanup = edge.cleanup
      BY <1>1, <2>3 DEF NoArm, armVars, SameRest
    <3>3. QED BY <3>1, <3>2 DEF OrchIInv, HeldInStep
  <2>10. Within(edge.step, edge'.step)
    BY <1>1, <2>2, CallSteps, WithinStage
  <2>11. QED BY <1>1, <1>3, <2>2, <2>3, <2>4, <2>7, <2>8, <2>9, <2>10, AnsweredStep
<1>6. QED BY <1>1, <1>4, <1>5

LEMMA EndTrialStep ==
  ASSUME OrchIInv, EndTrial
  PROVE  OrchIInv'
<1> DEFINE c == [name |-> "end-trial"]
           ended == [To("JOINT_GATE") EXCEPT !.trialStarted = FALSE]
<1>1. /\ edge.step = "end-trial" /\ edge.step \in Resting /\ edge.step \in StageSteps
      /\ edge.step \in Underway /\ edge.step # "over" /\ edge.step \in Active
      /\ NoFiles /\ NoArm
      /\ Answered(c, ended) \/ (Unanswered(c) /\ edge' = Raised(edge))
  BY CallSteps DEF EndTrial, ControlCall, At
<1>2. edge \in EdgeRec /\ Trial \in Trials
  BY <1>1, Facts
<1> PICK t \in Trials : t = Trial
  BY <1>2
<1>3. /\ c \in Command /\ OwnCall(c) /\ c.name = "end-trial"
      /\ BeginsOf(c) = {} /\ InfersOf(c) = {}
  BY <1>1 DEF Command, OwnCall, BeginsOf, InfersOf
<1> HIDE DEF c
<1>4. CASE Unanswered(c) /\ edge' = Raised(edge)
  BY <1>1, <1>2, <1>3, <1>4, CallRaises DEF SameRun
<1>5. CASE Answered(c, ended)
  <2>1. /\ ended \in EdgeRec /\ ended.step = "JOINT_GATE" /\ SameRun(edge, ended)
        /\ ended.cleanup = edge.cleanup
    <3> DEFINE e == To("JOINT_GATE")
    <3>1. e \in EdgeRec /\ e.step = "JOINT_GATE" /\ SameRest(edge, e)
      BY <1>2, AllSteps, Stepped DEF To
    <3>2. ended = [e EXCEPT !.trialStarted = FALSE]
      OBVIOUS
    <3> HIDE DEF e, ended
    <3>3. QED BY <3>1, <3>2, StartedSet DEF SameRest, SameRun
  <2> HIDE DEF ended
  <2>2. /\ edge' \in EdgeRec /\ edge'.step = "JOINT_GATE" /\ SameRest(ended, edge')
        /\ Executed(c) /\ late' = late
    BY <1>5, <2>1, AnsweredFields
  <2>3. SameRun(edge, edge') /\ edge'.cleanup = edge.cleanup
    BY <2>1, <2>2 DEF SameRest, SameRun
  <2>4. /\ ServerStep({}, {}, FALSE)
        /\ service.trial \in Trials /\ trials'[service.trial].verdict = "COMMITTED"
    BY <1>3, <2>2, EndTrialServes, Facts DEF Executed
  <2>5. service.trial = t
    BY <1>1, <2>4, Ids DEF OrchIInv, OwnTrialOrNone
  <2>6. TrialMoves(t, {}, {})
    BY <1>1, <2>3, <2>4, TrialAfter
  <2>7. Even(t) /\ Lines(t) > 0 /\ "joint_gate" \in passed[t]
    BY <1>1 DEF OrchIInv, StageInStep
  <2>8. StageInStep' /\ OwnTrialOrNone'
    BY <2>2, <2>4, <2>5, <2>6, <2>7, PhaseReached, CallSteps DEF TrialMoves
  <2>9. HeldInStep'
    <3>1. edge.step \in HeldSteps
      BY <1>1 DEF HeldSteps
    <3>2. hasPublished' = hasPublished
      BY <1>1 DEF NoArm, armVars
    <3>3. QED BY <2>3, <3>1, <3>2 DEF OrchIInv, HeldInStep
  <2>10. Within(edge.step, edge'.step)
    BY <1>1, <2>2, CallSteps, WithinStage
  <2>11. QED BY <1>1, <1>3, <2>2, <2>3, <2>4, <2>8, <2>9, <2>10, AnsweredStep
<1>6. QED BY <1>1, <1>4, <1>5

LEMMA InferStep ==
  ASSUME OrchIInv, Infer
  PROVE  OrchIInv'
<1> DEFINE c == [name |-> "infer", session |-> edge.session, trial |-> Trial]
<1>1. /\ edge.step = "infer" /\ edge.step \in Asking /\ edge.step \in StageSteps
      /\ edge.step \in Underway /\ edge.step # "over" /\ edge.step \in Active
      /\ NoFiles /\ NoArm
      /\ \/ Executed(c) /\ late' = late /\ edge' = To("publish")
         \/ Unanswered(c) /\ edge' = Raised(edge)
  BY CallSteps DEF Infer, InferUnanswered, GoTo, Raise, At
<1>2. edge \in EdgeRec /\ Trial \in Trials /\ edge.session \in Sessions /\ Even(Trial)
  BY <1>1, Facts DEF OrchIInv, StageInStep
<1> PICK t \in Trials : t = Trial
  BY <1>2
<1>3. /\ c \in Command /\ OwnCall(c) /\ c.name = "infer" /\ c.trial = t
      /\ c.session = edge.session /\ BeginsOf(c) = {} /\ InfersOf(c) = {t}
  BY <1>1, <1>2 DEF Command, OwnCall, BeginsOf, InfersOf
<1> HIDE DEF c
<1>4. CASE Unanswered(c) /\ edge' = Raised(edge)
  BY <1>1, <1>2, <1>3, <1>4, CallRaises DEF SameRun
<1>5. CASE Executed(c) /\ late' = late /\ edge' = To("publish")
  <2>1. /\ edge' \in EdgeRec /\ edge'.step = "publish" /\ SameRun(edge, edge')
        /\ edge'.session = edge.session
    BY <1>2, <1>5, AllSteps, Stepped DEF To, SameRest
  <2>2. ServerStep({}, {t}, FALSE) /\ service'.trial = t
    BY <1>2, <1>3, <1>5, InferServes, Facts DEF Executed
  <2>3. TrialMoves(t, {}, {t})
    BY <1>1, <2>1, <2>2, TrialAfter
  <2>4. StageInStep'
    <3>1. published'[t] = Lines(t)' /\ Recorded(t)' = Lines(t)' + 1
      BY <1>2, <2>3 DEF TrialMoves, Even
    <3>2. edge'.step \notin Unbegun \cup Asking \cup Resting \cup Judged
      BY <2>1 DEF Unbegun, Asking, Resting, Judged
    <3>3. QED
      BY <1>2, <2>1, <2>3, <3>1, <3>2 DEF StageInStep, At, TrialMoves, Lines, Recorded
  <2>5. OwnTrialOrNone'
    BY <2>2, <2>3 DEF OwnTrialOrNone, TrialMoves
  <2>6. Within(edge.step, edge'.step) /\ HeldInStep'
    BY <1>1, <2>1, CallSteps, WithinStage, Awaited DEF HeldInStep, Acting
  <2>7. QED BY <1>1, <1>3, <1>5, <2>1, <2>2, <2>4, <2>5, <2>6, AnsweredStep
<1>6. QED BY <1>1, <1>4, <1>5

-----------------------------------------------------------------------------
\* The steps of the run that leave the server and the stage directories alone.
LEMMA TrialStays ==
  ASSUME OrchIInv, UNCHANGED serverVars, published' = published,
         \A r \in Runs : runs'[r].stages = runs[r].stages,
         \A t \in Trials : passed[t] \subseteq passed'[t],
         SameRun(edge, edge'), NEW t \in Trials, t = Trial
  PROVE  TrialMoves(t, {}, {})
<1>1. Trial' = t
  BY DEF SameRun, Trial
<1>2. trials' = trials
  BY DEF serverVars
<1>3. Lines(t)' = Lines(t) /\ Recorded(t)' = Recorded(t)
  BY <1>2, Facts DEF Lines, Recorded
<1>4. Even(t)' <=> Even(t)
  BY <1>3 DEF Even
<1>5. QED BY <1>1, <1>2, <1>3, <1>4 DEF TrialMoves

\* From step to step of a stage, between the calls that change its trial.
Through(s, n) ==
    \/ s \in Unbegun /\ n \in Unbegun
    \/ {s, n} \subseteq {"READY_TO_ROLLOUT", "begin-stage", "ROLLOUT", "infer"}
    \/ s = "stop" /\ n = "close-session"
    \/ s \in Judged /\ n \in Judged

LEMMA StageGoesOn ==
  ASSUME OrchIInv, StagesKept, EdgeIInv', FailedStageNotCounted',
         UNCHANGED serverVars, published' = published,
         passed' \in [Trials -> SUBSET {"joint_gate", "checker"}],
         \A t \in Trials : passed[t] \subseteq passed'[t],
         hasPublished' \in BOOLEAN, HeldInStep',
         edge' \in EdgeRec, SameRun(edge, edge'), edge'.session = edge.session,
         Through(edge.step, edge'.step),
         edge'.step = "complete-stage" /\ edge.stage \in Checked =>
            "checker" \in passed'[Trial]
  PROVE  OrchIInv'
<1>1. edge.step \in StageSteps /\ edge'.step \in StageSteps
  BY CallSteps DEF Through
<1>2. Within(edge.step, edge'.step) /\ edge.step # "over"
  BY <1>1, CallSteps, WithinStage
<1>3. PICK t \in Trials : t = Trial
  BY <1>2, Facts
<1>4. \A r \in Runs : runs'[r].stages = runs[r].stages
  BY DEF StagesKept
<1>5. TrialMoves(t, {}, {})
  BY <1>3, <1>4, TrialStays
<1>6. edge'.stage = edge.stage /\ Trial' = t
  BY <1>3 DEF SameRun, Trial
<1>7. CASE edge.step \in Unbegun /\ edge'.step \in Unbegun
  <2>1. Even(t) /\ Lines(t) = 0 /\ trials[t].verdict = "unused"
    BY <1>3, <1>7 DEF OrchIInv, StageInStep
  <2>2. StageInStep' /\ OwnTrialOrNone'
    BY <1>1, <1>5, <1>6, <1>7, <2>1, PhaseReached DEF TrialMoves
  <2>3. QED BY <1>2, <2>2, QuietStep
<1>8. CASE edge.step \in Judged /\ edge'.step \in Judged
  <2>1. /\ Even(t) /\ Lines(t) > 0 /\ "joint_gate" \in passed[t]
        /\ trials[t].verdict = "COMMITTED"
    BY <1>3, <1>8 DEF OrchIInv, StageInStep
  <2>2. StageInStep' /\ OwnTrialOrNone'
    BY <1>1, <1>3, <1>5, <1>6, <1>8, <2>1, PhaseReached DEF TrialMoves
  <2>3. QED BY <1>2, <2>2, QuietStep
<1>9. CASE \/ {edge.step, edge'.step} \subseteq {"READY_TO_ROLLOUT", "begin-stage",
                                                  "ROLLOUT", "infer"}
           \/ edge.step = "stop" /\ edge'.step = "close-session"
  <2>1. /\ \/ edge.step \in Asking /\ edge'.step \in Asking
           \/ edge.step \in Resting /\ edge'.step \in Resting
        /\ edge.session \in Sessions /\ Even(t)
        /\ edge.step \in Resting => Lines(t) > 0 /\ "joint_gate" \in passed[t]
    BY <1>3, <1>9, CallSteps DEF OrchIInv, StageInStep
  <2>2. StageInStep'
    BY <1>1, <1>5, <1>6, <2>1, PhaseReached DEF TrialMoves
  <2>3. OwnTrialOrNone'
    BY <2>1, OwnTrialKept, CallSteps DEF serverVars
  <2>4. QED BY <1>2, <2>2, <2>3, QuietStep
<1>10. QED BY <1>7, <1>8, <1>9 DEF Through

\* From step to step outside a stage.
LEMMA OutsideGoesOn ==
  ASSUME OrchIInv, StagesKept, EdgeIInv', FailedStageNotCounted',
         UNCHANGED serverVars, published' = published, passed' = passed,
         hasPublished' \in BOOLEAN, HeldInStep',
         edge' \in EdgeRec, SameRun(edge, edge'), Within(edge.step, edge'.step),
         edge'.step \notin StageSteps
  PROVE  OrchIInv'
<1>1. StageInStep' /\ OwnTrialOrNone'
  BY OutsideStage
<1>2. passed \in [Trials -> SUBSET {"joint_gate", "checker"}]
  BY DEF OrchIInv, OrchTypeOK
<1>3. QED BY <1>1, <1>2, QuietStep

\* An exception outside the calls to the server.
LEMMA LocalRaise ==
  ASSUME OrchIInv, StagesKept, EdgeIInv', FailedStageNotCounted',
         UNCHANGED serverVars, published' = published, passed' = passed,
         hasPublished' \in BOOLEAN, edge.step \in Active,
         NEW e \in EdgeRec, SameRun(edge, e), edge' = Raised(e)
  PROVE  OrchIInv'
<1>1. /\ edge' \in EdgeRec /\ edge'.step \in Cleanup /\ SameRun(edge, edge')
      /\ HeldInStep'
  BY RaisedStep
<1>2. Within(edge.step, edge'.step) /\ edge'.step \notin StageSteps
  BY <1>1, CleanupFollows
<1>3. QED BY <1>1, <1>2, OutsideGoesOn

\* The calls on the robot, the gate and the checker.
LEMMA StepOf ==
  ASSUME OrchIInv, NEW s \in Steps, edge' = To(s)
  PROVE  /\ edge' \in EdgeRec /\ edge'.step = s /\ SameRun(edge, edge')
         /\ edge'.session = edge.session /\ edge'.cleanup = edge.cleanup
         /\ edge'.pipeline = edge.pipeline /\ edge'.trialStarted = edge.trialStarted
  BY Facts, Stepped DEF To, SameRest

LEMMA ArmTypes ==
  ASSUME OrchIInv
  PROVE  /\ hasPublished \in BOOLEAN /\ published \in [Trials -> Nat]
         /\ passed \in [Trials -> SUBSET {"joint_gate", "checker"}]
         /\ edge \in EdgeRec /\ SameRun(edge, edge)
  BY Facts DEF OrchIInv, OrchTypeOK, SameRun

LEMMA HeldOn ==
  ASSUME OrchIInv, edge.step \in HeldSteps, edge.cleanup \subseteq edge'.cleanup,
         hasPublished' = hasPublished
  PROVE  HeldInStep'
  BY DEF OrchIInv, HeldInStep

LEMMA PreflightStep ==
  ASSUME OrchIInv, Local("preflight", "start-stage")
  PROVE  OrchIInv'
<1>1. /\ edge.step = "preflight" /\ NoFiles /\ UNCHANGED serverVars
      /\ hasPublished' = hasPublished /\ published' = published /\ passed' = passed
      /\ edge' = To("start-stage") \/ edge' = Raised(edge)
  BY DEF Local, At, NoServer, NoArm, armVars, GoTo, Raise
<1>2. StagesKept /\ EdgeIInv' /\ FailedStageNotCounted'
  BY <1>1, FilesAlone
<1>3. edge.step \in Active /\ edge.step \in Opening /\ edge.step \in HeldSteps
  BY <1>1 DEF Active, Opening, HeldSteps
<1>4. CASE edge' = To("start-stage")
  <2>1. /\ edge' \in EdgeRec /\ edge'.step = "start-stage" /\ SameRun(edge, edge')
        /\ edge'.cleanup = edge.cleanup
    BY <1>4, StepOf, AllSteps
  <2>2. Within(edge.step, edge'.step) /\ edge'.step \notin StageSteps
    BY <1>1, <2>1, AllSteps DEF Within, Active, Opening, StageSteps, Unbegun, Underway, Asking,
                                Acting, Resting, Judged
  <2>3. HeldInStep'
    BY <1>1, <1>3, <2>1, HeldOn
  <2>4. QED BY <1>1, <1>2, <2>1, <2>2, <2>3, ArmTypes, OutsideGoesOn
<1>5. CASE edge' = Raised(edge)
  BY <1>1, <1>2, <1>3, <1>5, ArmTypes, LocalRaise
<1>6. QED BY <1>1, <1>4, <1>5

LEMMA BeginStageStep ==
  ASSUME OrchIInv, Local("begin-stage", "ROLLOUT")
  PROVE  OrchIInv'
<1>1. /\ edge.step = "begin-stage" /\ NoFiles /\ UNCHANGED serverVars
      /\ hasPublished' = hasPublished /\ published' = published /\ passed' = passed
      /\ edge' = To("ROLLOUT") \/ edge' = Raised(edge)
  BY DEF Local, At, NoServer, NoArm, armVars, GoTo, Raise
<1>2. StagesKept /\ EdgeIInv' /\ FailedStageNotCounted'
  BY <1>1, FilesAlone
<1>3. edge.step \in Active
  BY <1>1, CallSteps
<1>4. CASE edge' = To("ROLLOUT")
  <2>1. /\ edge' \in EdgeRec /\ edge'.step = "ROLLOUT" /\ SameRun(edge, edge')
        /\ edge'.session = edge.session
    BY <1>4, StepOf, AllSteps
  <2>2. Through(edge.step, edge'.step) /\ edge'.step # "complete-stage"
    BY <1>1, <2>1 DEF Through
  <2>3. HeldInStep'
    BY <2>1, Awaited DEF HeldInStep
  <2>4. QED BY <1>1, <1>2, <2>1, <2>2, <2>3, ArmTypes, StageGoesOn
<1>5. CASE edge' = Raised(edge)
  BY <1>1, <1>2, <1>3, <1>5, ArmTypes, LocalRaise
<1>6. QED BY <1>1, <1>4, <1>5

LEMMA ResetStep ==
  ASSUME OrchIInv, Reset
  PROVE  OrchIInv'
<1>1. /\ edge.step = "reset" /\ NoFiles /\ UNCHANGED serverVars
      /\ published' = published /\ passed' = passed /\ hasPublished' \in BOOLEAN
      /\ edge' = To("PREPARING_POLICY") \/ edge' = Raised(edge)
  BY ArmTypes DEF Reset, At, NoServer, GoTo, Raise
<1>2. StagesKept /\ EdgeIInv' /\ FailedStageNotCounted'
  BY <1>1, FilesAlone
<1>3. edge.step \in Unbegun /\ edge.step \in Active
  BY <1>1, CallSteps DEF Unbegun
<1>4. CASE edge' = To("PREPARING_POLICY")
  <2>1. /\ edge' \in EdgeRec /\ edge'.step = "PREPARING_POLICY" /\ SameRun(edge, edge')
        /\ edge'.session = edge.session
    BY <1>4, StepOf, AllSteps
  <2>2. Through(edge.step, edge'.step) /\ edge'.step # "complete-stage"
    BY <1>3, <2>1 DEF Through, Unbegun
  <2>3. HeldInStep'
    BY <2>1 DEF HeldInStep, HeldSteps, Opening, Judged, Closing
  <2>4. QED BY <1>1, <1>2, <2>1, <2>2, <2>3, ArmTypes, StageGoesOn
<1>5. CASE edge' = Raised(edge)
  BY <1>1, <1>2, <1>3, <1>5, ArmTypes, LocalRaise
<1>6. QED BY <1>1, <1>4, <1>5

LEMMA StopArmStep ==
  ASSUME OrchIInv, StopArm
  PROVE  OrchIInv'
<1>1. /\ edge.step = "stop" /\ NoFiles /\ UNCHANGED serverVars
      /\ published' = published /\ passed' = passed /\ hasPublished' \in BOOLEAN
      /\ \/ edge' = To("close-session") /\ hasPublished' = FALSE
         \/ edge' = Raised(edge)
  BY ArmTypes DEF StopArm, At, NoServer, GoTo, Raise
<1>2. StagesKept /\ EdgeIInv' /\ FailedStageNotCounted'
  BY <1>1, FilesAlone
<1>3. edge.step \in Active
  BY <1>1, CallSteps
<1>4. CASE edge' = To("close-session") /\ hasPublished' = FALSE
  <2>1. /\ edge' \in EdgeRec /\ edge'.step = "close-session" /\ SameRun(edge, edge')
        /\ edge'.session = edge.session
    BY <1>4, StepOf, AllSteps
  <2>2. Through(edge.step, edge'.step) /\ edge'.step # "complete-stage"
    BY <1>1, <2>1 DEF Through
  <2>3. HeldInStep'
    BY <1>4 DEF HeldInStep
  <2>4. QED BY <1>1, <1>2, <2>1, <2>2, <2>3, ArmTypes, StageGoesOn
<1>5. CASE edge' = Raised(edge)
  BY <1>1, <1>2, <1>3, <1>5, ArmTypes, LocalRaise
<1>6. QED BY <1>1, <1>4, <1>5

LEMMA JointGateStep ==
  ASSUME OrchIInv, JointGate
  PROVE  OrchIInv'
<1>1. /\ edge.step = "joint-gate" /\ NoFiles /\ UNCHANGED serverVars
      /\ hasPublished' = hasPublished /\ published' = published /\ passed' = passed
      /\ edge' = To("CHECKING") \/ edge' = Raised(edge)
  BY DEF JointGate, At, NoServer, NoArm, armVars, GoTo, Raise
<1>2. StagesKept /\ EdgeIInv' /\ FailedStageNotCounted'
  BY <1>1, FilesAlone
<1>3. edge.step \in Judged /\ edge.step \in Active /\ edge.step \in HeldSteps
  BY <1>1, CallSteps DEF HeldSteps
<1>4. CASE edge' = To("CHECKING")
  <2>1. /\ edge' \in EdgeRec /\ edge'.step = "CHECKING" /\ SameRun(edge, edge')
        /\ edge'.session = edge.session /\ edge'.cleanup = edge.cleanup
    BY <1>4, StepOf, AllSteps
  <2>2. Through(edge.step, edge'.step) /\ edge'.step # "complete-stage"
    BY <1>3, <2>1, CallSteps DEF Through
  <2>3. HeldInStep'
    BY <1>1, <1>3, <2>1, HeldOn
  <2>4. QED BY <1>1, <1>2, <2>1, <2>2, <2>3, ArmTypes, StageGoesOn
<1>5. CASE edge' = Raised(edge)
  BY <1>1, <1>2, <1>3, <1>5, ArmTypes, LocalRaise
<1>6. QED BY <1>1, <1>4, <1>5

LEMMA CheckerStep ==
  ASSUME OrchIInv, Checker
  PROVE  OrchIInv'
<1>1. /\ edge.step = "checker" /\ NoFiles /\ UNCHANGED serverVars
      /\ hasPublished' = hasPublished /\ published' = published
      /\ \/ edge' = Raised(edge) /\ passed' = passed
         \/ /\ edge' = To("complete-stage")
            /\ \/ edge.stage \notin Checked /\ passed' = passed
               \/ passed' = [passed EXCEPT ![Trial] = @ \cup {"checker"}]
  BY DEF Checker, NeedsChecker, At, NoServer, GoTo, Raise
<1>2. StagesKept /\ EdgeIInv' /\ FailedStageNotCounted'
  BY <1>1, FilesAlone
<1>3. /\ edge.step \in Judged /\ edge.step \in Active /\ edge.step \in HeldSteps
      /\ Trial \in Trials
  BY <1>1, CallSteps, Facts DEF HeldSteps
<1>4. CASE edge' = To("complete-stage")
  <2>1. /\ edge' \in EdgeRec /\ edge'.step = "complete-stage" /\ SameRun(edge, edge')
        /\ edge'.session = edge.session /\ edge'.cleanup = edge.cleanup
    BY <1>4, StepOf, AllSteps
  <2>2. Through(edge.step, edge'.step)
    BY <1>3, <2>1, CallSteps DEF Through
  <2>3. HeldInStep'
    BY <1>1, <1>3, <2>1, HeldOn
  <2>4. /\ passed' \in [Trials -> SUBSET {"joint_gate", "checker"}]
        /\ \A t \in Trials : passed[t] \subseteq passed'[t]
        /\ edge.stage \in Checked => "checker" \in passed'[Trial]
    <3>1. CASE passed' = passed /\ edge.stage \notin Checked
      BY <3>1, ArmTypes
    <3>2. CASE passed' = [passed EXCEPT ![Trial] = @ \cup {"checker"}]
      BY <1>3, <3>2, ArmTypes
    <3>3. edge' # Raised(edge)
      <4>1. Raised(edge).step = "safe-stop"
        BY ArmTypes, RaisedFields
      <4>2. QED BY <2>1, <4>1
    <3>4. QED BY <1>1, <3>1, <3>2, <3>3
  <2>5. QED BY <1>1, <1>2, <2>1, <2>2, <2>3, <2>4, ArmTypes, StageGoesOn
<1>5. CASE edge' = Raised(edge) /\ passed' = passed
  BY <1>1, <1>2, <1>3, <1>5, ArmTypes, LocalRaise
<1>6. QED BY <1>1, <1>4, <1>5

LEMMA PublishStep ==
  ASSUME OrchIInv, Publish
  PROVE  OrchIInv'
<1>1. /\ edge.step = "publish" /\ NoFiles /\ UNCHANGED serverVars
      /\ \/ /\ hasPublished' = TRUE
            /\ published' = [published EXCEPT ![Trial] = @ + 1]
            /\ \/ /\ edge' = [To("record") EXCEPT !.result = "rest"]
                  /\ passed' = [passed EXCEPT ![Trial] = @ \cup {"joint_gate"}]
               \/ /\ \E r \in {"more", "stopped"} :
                        edge' = [To("record") EXCEPT !.result = r]
                  /\ passed' = passed
               \/ edge' = Raised(edge) /\ passed' = passed
         \/ /\ edge' = Raised(edge) /\ hasPublished' = hasPublished
            /\ published' = published /\ passed' = passed
  BY DEF Publish, At, NoServer, NoArm, armVars, GoTo, Raise
<1>2. StagesKept /\ EdgeIInv' /\ FailedStageNotCounted'
  BY <1>1, FilesAlone
<1>3. /\ edge.step \in Acting /\ edge.step \in Underway /\ edge.step \in StageSteps
      /\ edge.step \in Active /\ edge.step # "over" /\ edge \in EdgeRec /\ Trial \in Trials
  BY <1>1, CallSteps, Facts DEF Acting
<1> PICK t \in Trials : t = Trial
  BY <1>3
<1>4. CASE edge' = Raised(edge) /\ published' = published /\ hasPublished' = hasPublished
           /\ passed' = passed
  BY <1>1, <1>2, <1>3, <1>4, ArmTypes, LocalRaise
<1>5. ASSUME hasPublished' = TRUE, published' = [published EXCEPT ![Trial] = @ + 1],
             edge' \in EdgeRec, SameRun(edge, edge'), HeldInStep',
             passed' \in [Trials -> SUBSET {"joint_gate", "checker"}],
             \A u \in Trials : passed[u] \subseteq passed'[u],
             \/ edge'.step = "safe-stop"
             \/ /\ edge'.step = "record" /\ edge'.session = edge.session
                /\ edge'.result = "rest" => "joint_gate" \in passed'[t]
      PROVE  OrchIInv'
  <2>1. published' \in [Trials -> Nat] /\ published'[t] = published[t] + 1
        /\ \A u \in Trials : u # t => published'[u] = published[u]
    BY <1>5, ArmTypes
  <2>2. /\ published[t] = Lines(t) /\ Recorded(t) = Lines(t) + 1 /\ edge.session \in Sessions
        /\ StageOf(t).evidence = "ACTIVE"
    BY <1>1, <1>3 DEF OrchIInv, StageInStep, StoreFollows, At
  <2>3. Within(edge.step, edge'.step) /\ Trial' = t
    <3>1. CASE edge'.step = "safe-stop"
      BY <1>3, <1>5, <3>1, CleanupFollows DEF Cleanup, SameRun, Trial
    <3>2. CASE edge'.step = "record"
      BY <1>3, <1>5, <3>2, WithinStage, CallSteps DEF Acting, SameRun, Trial
    <3>3. QED BY <1>5, <3>1, <3>2
  <2>4. FilesPart'
    BY <1>2, <1>5, <2>3, FilesGoOn
  <2>5. runs' = runs /\ service' = service /\ trials' = trials /\ late' = late
    BY <1>1 DEF NoFiles, edgeVars, serverVars
  <2>6. ASSUME NEW u \in Trials
        PROVE  /\ StageOf(u)' = StageOf(u) /\ Lines(u)' = Lines(u)
               /\ Recorded(u)' = Recorded(u) /\ (u # t => Even(u)' = Even(u))
               /\ HasCompleted(u[1], u[2])' = HasCompleted(u[1], u[2])
    BY <2>1, <2>5 DEF StageOf, Lines, Recorded, HasCompleted, Even
  <2>7. ServerKeeps'
    <3>1. \A u \in Trials :
             /\ service'.trial = u => trials'[u].verdict = "open"
             /\ trials'[u].verdict = "unused" => Recorded(u)' = 0
             /\ StageOf(u)'.evidence = "ABSENT" =>
                   Even(u)' /\ Lines(u)' = 0 /\ trials'[u].verdict = "unused"
      <4>1. StageOf(t).evidence # "ABSENT"
        BY <2>2
      <4>2. QED BY <2>5, <2>6, <4>1 DEF OrchIInv, ServerKeeps
    <3>2. \A c \in late' : \A u \in Trials :
            Concerns(c, u) => /\ StageOf(u)'.evidence # "ABSENT"
                              /\ edge'.step \in StageSteps => u # Trial'
      BY <1>3, <2>3, <2>5, <2>6 DEF OrchIInv, ServerKeeps
    <3>3. \A c \in late' : c.name = "infer" => Recorded(c.trial)' = Lines(c.trial)'
      BY <2>5, <2>6, CommandFields DEF OrchIInv, OrchTypeOK, ServerKeeps
    <3>4. QED BY <2>5, <3>1, <3>2, <3>3 DEF OrchIInv, ServerKeeps, Concerns
  <2>8. CompletedStageIsTrue'
    <3>1. ~HasCompleted(t[1], t[2])
      BY <2>2 DEF StageOf, HasCompleted
    <3>2. QED BY <1>5, <2>1, <2>5, <2>6, <3>1 DEF OrchIInv, CompletedStageIsTrue
  <2>9. EveryActionAccountedFor'
    <3>1. Lines(t) <= published[t] + 1 /\ published[t] + 1 <= Recorded(t)
          /\ Recorded(t) <= Lines(t) + 1
      BY <2>2, Facts
    <3>2. QED BY <2>1, <2>5, <2>6, <3>1 DEF OrchIInv, EveryActionAccountedFor, Recorded
  <2>10. OrchTypeOK'
    BY <1>2, <1>5, <2>1, <1>1, TypesKept, ServerTypes DEF serverVars, OrchIInv, OrchTypeOK
  <2>11. StageInStep' /\ OwnTrialOrNone'
    <3>1. CASE edge'.step = "safe-stop"
      BY <3>1, OutsideStage DEF StageSteps, Unbegun, Underway, Asking, Acting, Resting, Judged
    <3>2. CASE edge'.step = "record"
      <4>1. published'[t] = Lines(t)' + 1 /\ Recorded(t)' = Lines(t)' + 1
        BY <2>1, <2>2, <2>6
      <4>2. edge'.step \notin Unbegun \cup Asking \cup Resting \cup Judged
        BY <3>2 DEF Unbegun, Asking, Resting, Judged
      <4>3. StageInStep'
        BY <1>5, <2>2, <2>3, <3>2, <4>1, <4>2 DEF StageInStep, At, Lines, Recorded
      <4>4. OwnTrialOrNone'
        BY <1>3, <1>5, <2>5, OwnTrialKept
      <4>5. QED BY <4>3, <4>4
    <3>3. QED BY <1>5, <3>1, <3>2
  <2>12. QED BY <1>5, <2>4, <2>7, <2>8, <2>9, <2>10, <2>11 DEF FilesPart, OrchIInv
<1>6. ASSUME hasPublished' = TRUE, published' = [published EXCEPT ![Trial] = @ + 1],
             edge' = Raised(edge), passed' = passed
      PROVE  OrchIInv'
  <2>1. /\ edge' \in EdgeRec /\ edge'.step = "safe-stop" /\ SameRun(edge, edge')
        /\ HeldInStep'
    BY <1>6, ArmTypes, RaisedStep
  <2>2. QED BY <1>5, <1>6, <2>1, ArmTypes
<1>7. ASSUME NEW r \in {"more", "rest", "stopped"}, hasPublished' = TRUE,
             published' = [published EXCEPT ![Trial] = @ + 1],
             edge' = [To("record") EXCEPT !.result = r],
             \/ r # "rest" /\ passed' = passed
             \/ passed' = [passed EXCEPT ![Trial] = @ \cup {"joint_gate"}]
      PROVE  OrchIInv'
  <2>1. /\ edge' \in EdgeRec /\ edge'.step = "record" /\ SameRun(edge, edge')
        /\ edge'.session = edge.session /\ edge'.result = r
    <3> DEFINE e == To("record")
    <3>1. /\ e \in EdgeRec /\ e.step = "record" /\ SameRest(edge, e)
          /\ e.session = edge.session
      BY <1>3, AllSteps, Stepped DEF To
    <3>2. edge' = [e EXCEPT !.result = r]
      BY <1>7
    <3> HIDE DEF e
    <3>3. QED BY <3>1, <3>2, ResultSet DEF SameRest, SameRun
  <2>2. HeldInStep'
    BY <2>1 DEF HeldInStep, HeldSteps, Opening, Judged, Closing
  <2>3. /\ passed' \in [Trials -> SUBSET {"joint_gate", "checker"}]
        /\ \A u \in Trials : passed[u] \subseteq passed'[u]
        /\ r = "rest" => "joint_gate" \in passed'[t]
    BY <1>3, <1>7, ArmTypes
  <2>4. QED BY <1>5, <1>7, <2>1, <2>2, <2>3
<1>8. QED BY <1>1, <1>4, <1>6, <1>7

\* The safe stop.
LEMMA NotedFields ==
  ASSUME NEW e \in EdgeRec, NEW f,
         NEW c \in {"action_stop", "close_session", "abort_trial"}, f = Noted(e, c)
  PROVE  /\ f \in EdgeRec /\ f.step = e.step /\ SameRun(e, f) /\ f.session = e.session
         /\ f.trialStarted = e.trialStarted /\ f.cleanup = e.cleanup \cup {c}
<1>1. f = [e EXCEPT !.cleanup = e.cleanup \cup {c}]
  BY DEF Noted
<1>2. QED BY <1>1, CleanupSet

LEMMA SafeStopArmStep ==
  ASSUME OrchIInv, SafeStopArm
  PROVE  OrchIInv'
<1> DEFINE e == To("safe-close")
<1>1. /\ edge.step = "safe-stop" /\ NoFiles /\ UNCHANGED serverVars
      /\ published' = published /\ passed' = passed /\ hasPublished' \in BOOLEAN
      /\ \/ edge' = e /\ hasPublished' = FALSE
         \/ edge' = Noted(e, "action_stop")
  BY ArmTypes DEF SafeStopArm, At, NoServer, GoTo
<1>2. StagesKept /\ EdgeIInv' /\ FailedStageNotCounted'
  BY <1>1, FilesAlone
<1>3. edge.step \in Active
  BY <1>1 DEF Active, Cleanup
<1>4. e \in EdgeRec /\ e.step = "safe-close" /\ SameRun(edge, e)
  BY ArmTypes, Stepped, AllSteps DEF To, SameRest
<1> HIDE DEF e
<1>5. /\ edge' \in EdgeRec /\ edge'.step = "safe-close" /\ SameRun(edge, edge')
      /\ hasPublished' = FALSE \/ "action_stop" \in edge'.cleanup
  <2>1. CASE edge' = e /\ hasPublished' = FALSE
    BY <1>4, <2>1
  <2>2. CASE edge' = Noted(e, "action_stop")
    BY <1>4, <2>2, NotedFields DEF SameRun
  <2>3. QED BY <1>1, <2>1, <2>2
<1>6. HeldInStep'
  BY <1>5 DEF HeldInStep
<1>7. Within(edge.step, edge'.step) /\ edge'.step \notin StageSteps
  BY <1>3, <1>5, CleanupFollows DEF Cleanup
<1>8. QED BY <1>1, <1>2, <1>5, <1>6, <1>7, OutsideGoesOn

\* A cleanup call to the server about no trial.
LEMMA CleanupCallStep ==
  ASSUME OrchIInv, NoFiles, NoArm, edge.step \in Cleanup, edge.step \in HeldSteps,
         NEW c, OwnCall(c), BeginsOf(c) = {}, InfersOf(c) = {}, c.name # "prepare-skill",
         NEW next \in EdgeRec, next.step \in Cleanup, SameRun(edge, next),
         next.cleanup = edge.cleanup,
         NEW failure \in {"action_stop", "close_session", "abort_trial"},
         CleanupCall(c, next, failure)
  PROVE  OrchIInv'
<1>1. edge.step \in Active
  BY DEF Active
<1>2. CASE Answered(c, next)
  <2>1. /\ edge' \in EdgeRec /\ edge'.step \in Cleanup /\ SameRun(edge, edge')
        /\ edge'.cleanup = edge.cleanup /\ Executed(c) /\ late' = late
    BY <1>2, AnsweredFields DEF SameRest, SameRun
  <2>2. Within(edge.step, edge'.step) /\ edge'.step \notin StageSteps
    BY <1>1, <2>1, CleanupFollows
  <2>3. StageInStep' /\ OwnTrialOrNone'
    BY <2>2, OutsideStage
  <2>4. HeldInStep'
    BY <2>1, HeldOn DEF NoArm, armVars
  <2>5. c \in Command /\ (c.name = "prepare-skill") \in BOOLEAN
    BY DEF OwnCall
  <2>6. ServerStep(BeginsOf(c), InfersOf(c), c.name = "prepare-skill")
    BY <2>1, <2>5, CommandServes, Facts
  <2>7. QED BY <2>1, <2>2, <2>3, <2>4, <2>5, <2>6, AnsweredStep
<1>3. CASE Unanswered(c) /\ edge' = Noted(next, failure)
  <2>1. /\ edge' \in EdgeRec /\ edge'.step \in Cleanup /\ SameRun(edge, edge')
        /\ edge.cleanup \subseteq edge'.cleanup
    BY <1>3, NotedFields DEF SameRun
  <2>2. HeldInStep'
    BY <2>1, HeldOn DEF NoArm, armVars
  <2>3. QED BY <1>3, <2>1, <2>2, CallGoesWrong, Zenon
<1>4. QED BY <1>2, <1>3 DEF CleanupCall

LEMMA SafeCloseStep ==
  ASSUME OrchIInv, SafeClose
  PROVE  OrchIInv'
<1> DEFINE c == [name |-> "close-session", session |-> edge.session]
           e == To("safe-abort")
           next == [e EXCEPT !.session = NoSession]
<1>1. /\ edge.step = "safe-close" /\ NoFiles /\ NoArm
      /\ \/ UNCHANGED serverVars /\ edge' = e
         \/ edge.session # NoSession /\ CleanupCall(c, next, "close_session")
  BY DEF SafeClose, At, NoServer, GoTo
<1>2. edge.step \in Cleanup /\ edge.step \in Active /\ edge.step \in HeldSteps
  BY <1>1 DEF Cleanup, Active, HeldSteps
<1>3. /\ e \in EdgeRec /\ e.step = "safe-abort" /\ SameRun(edge, e)
      /\ e.cleanup = edge.cleanup
  BY ArmTypes, Stepped, AllSteps DEF To, SameRest
<1>4. CASE UNCHANGED serverVars /\ edge' = e
  <2>1. StagesKept /\ EdgeIInv' /\ FailedStageNotCounted'
    BY <1>1, FilesAlone
  <2>2. Within(edge.step, edge'.step) /\ edge'.step \notin StageSteps
    BY <1>2, <1>3, <1>4, CleanupFollows DEF Cleanup
  <2>3. HeldInStep'
    BY <1>1, <1>2, <1>3, <1>4, HeldOn DEF NoArm, armVars
  <2>4. QED
    BY <1>1, <1>3, <1>4, <2>1, <2>2, <2>3, ArmTypes, OutsideGoesOn DEF NoArm, armVars
<1>5. CASE edge.session # NoSession /\ CleanupCall(c, next, "close_session")
  <2>1. edge.session \in Sessions
    BY <1>5, ArmTypes DEF EdgeRec
  <2>2. /\ OwnCall(c) /\ BeginsOf(c) = {} /\ InfersOf(c) = {} /\ c.name # "prepare-skill"
    BY <1>2, <2>1 DEF OwnCall, Command, BeginsOf, InfersOf
  <2>3. NoSession \in Sessions \cup {NoSession}
    OBVIOUS
  <2> HIDE DEF c, e
  <2>4. /\ next \in EdgeRec /\ next.step = "safe-abort" /\ SameRun(edge, next)
        /\ next.cleanup = edge.cleanup
    BY <1>3, <2>3, SessionSet DEF SameRest, SameRun
  <2> HIDE DEF next
  <2>5. next.step \in Cleanup
    BY <2>4 DEF Cleanup
  <2>6. QED BY <1>1, <1>2, <1>5, <2>2, <2>4, <2>5, CleanupCallStep
<1>6. QED BY <1>1, <1>4, <1>5

LEMMA SafeAbortStep ==
  ASSUME OrchIInv, SafeAbort
  PROVE  OrchIInv'
<1> DEFINE c == [name |-> "abort"]
           e == To("fail")
           next == [e EXCEPT !.trialStarted = FALSE]
<1>1. /\ edge.step = "safe-abort" /\ NoFiles /\ NoArm
      /\ \/ UNCHANGED serverVars /\ edge' = e
         \/ CleanupCall(c, next, "abort_trial")
  BY DEF SafeAbort, At, NoServer, GoTo
<1>2. edge.step \in Cleanup /\ edge.step \in Active /\ edge.step \in HeldSteps
  BY <1>1 DEF Cleanup, Active, HeldSteps
<1>3. /\ e \in EdgeRec /\ e.step = "fail" /\ SameRun(edge, e)
      /\ e.cleanup = edge.cleanup
  BY ArmTypes, Stepped, AllSteps DEF To, SameRest
<1>4. CASE UNCHANGED serverVars /\ edge' = e
  <2>1. StagesKept /\ EdgeIInv' /\ FailedStageNotCounted'
    BY <1>1, FilesAlone
  <2>2. Within(edge.step, edge'.step) /\ edge'.step \notin StageSteps
    BY <1>2, <1>3, <1>4, CleanupFollows DEF Cleanup
  <2>3. HeldInStep'
    BY <1>1, <1>2, <1>3, <1>4, HeldOn DEF NoArm, armVars
  <2>4. QED
    BY <1>1, <1>3, <1>4, <2>1, <2>2, <2>3, ArmTypes, OutsideGoesOn DEF NoArm, armVars
<1>5. CASE CleanupCall(c, next, "abort_trial")
  <2>1. /\ OwnCall(c) /\ BeginsOf(c) = {} /\ InfersOf(c) = {} /\ c.name # "prepare-skill"
    BY <1>2 DEF OwnCall, Command, BeginsOf, InfersOf
  <2> HIDE DEF c, e
  <2>2. /\ next \in EdgeRec /\ next.step = "fail" /\ SameRun(edge, next)
        /\ next.cleanup = edge.cleanup
    BY <1>3, StartedSet DEF SameRest, SameRun
  <2> HIDE DEF next
  <2>3. next.step \in Cleanup
    BY <2>2 DEF Cleanup
  <2>4. QED BY <1>1, <1>2, <1>5, <2>1, <2>2, <2>3, CleanupCallStep
<1>6. QED BY <1>1, <1>4, <1>5

-----------------------------------------------------------------------------
\* What happens on the server while the edge process is elsewhere.
LEMMA ElsewhereStep ==
  ASSUME OrchIInv, NoFiles, NoArm, edge' = edge,
         NEW B \in SUBSET Trials, NEW I \in SUBSET Trials, NEW prepares \in BOOLEAN,
         ServerStep(B, I, prepares),
         \A t \in B \cup I : /\ StageOf(t).evidence # "ABSENT"
                             /\ edge.step \in StageSteps => t # Trial,
         \A t \in I : Even(t),
         late' \subseteq late,
         \A c \in late' : c.name = "infer" => c.trial \notin I,
         OwnTrialOrNone'
  PROVE  OrchIInv'
<1>1. edge \in EdgeRec /\ SameRun(edge, edge') /\ Within(edge.step, edge'.step)
  BY ArmTypes DEF Within, SameRun
<1>2. HeldInStep'
  BY DEF OrchIInv, HeldInStep, NoArm, armVars
<1>3. StageInStep'
  <2>1. CASE edge.step \notin StageSteps
    BY <2>1, OutsideStage
  <2>2. CASE edge.step \in StageSteps
    <3>1. Trial \in Trials
      BY <2>2, CallSteps, Facts
    <3>2. PICK t \in Trials : t = Trial
      BY <3>1
    <3>3. TrialMoves(t, B, I) /\ t \notin B /\ t \notin I
      BY <1>1, <2>2, <3>2, TrialAfter
    <3>4. /\ Trial' = t /\ Lines(t)' = Lines(t) /\ published'[t] = published[t]
          /\ passed' = passed /\ Recorded(t)' = Recorded(t) /\ (Even(t)' <=> Even(t))
          /\ trials[t].verdict = "unused" => trials'[t].verdict = "unused"
          /\ trials[t].verdict = "COMMITTED" => trials'[t].verdict = "COMMITTED"
      BY <3>3 DEF TrialMoves, NoArm, armVars
    <3>5. CASE edge.step \in {"publish", "record"}
      <4>1. edge.step \notin Unbegun \cup Asking \cup Resting \cup Judged
        BY <3>5 DEF Unbegun, Asking, Resting, Judged
      <4>2. QED
        BY <3>2, <3>4, <3>5, <4>1
        DEF OrchIInv, StageInStep, At, Lines, Recorded
    <3>6. CASE edge.step \in Unbegun
      <4>1. Even(t) /\ Lines(t) = 0 /\ trials[t].verdict = "unused"
        BY <3>2, <3>6 DEF OrchIInv, StageInStep
      <4>2. QED BY <2>2, <3>4, <3>6, <4>1, PhaseReached
    <3>7. CASE edge.step \in Asking
      <4>1. Even(t) /\ (edge.session \in Sessions \/ edge.step = "open-session")
        BY <3>2, <3>7 DEF OrchIInv, StageInStep, Asking
      <4>2. QED BY <2>2, <3>4, <3>7, <4>1, PhaseReached
    <3>8. CASE edge.step \in Resting
      <4>1. /\ Even(t) /\ Lines(t) > 0 /\ "joint_gate" \in passed[t]
            /\ edge.session \in Sessions \/ edge.step = "end-trial"
        BY <3>2, <3>8 DEF OrchIInv, StageInStep, Resting
      <4>2. QED BY <2>2, <3>4, <3>8, <4>1, PhaseReached
    <3>9. CASE edge.step \in Judged
      <4>1. /\ Even(t) /\ Lines(t) > 0 /\ "joint_gate" \in passed[t]
            /\ trials[t].verdict = "COMMITTED"
            /\ edge.step = "complete-stage" /\ edge.stage \in Checked =>
                  "checker" \in passed[t]
        BY <3>2, <3>9 DEF OrchIInv, StageInStep, At
      <4>2. QED BY <2>2, <3>4, <3>9, <4>1, PhaseReached
    <3>10. QED BY <2>2, <3>5, <3>6, <3>7, <3>8, <3>9, CallSteps DEF Acting
  <2>3. QED BY <2>1, <2>2
<1>4. QED BY <1>1, <1>2, <1>3, ServedStep

\* Nothing happens on the server.
LEMMA ServerIdle ==
  ASSUME ServerSound, service' = service, opened' = opened, trials' = trials
  PROVE  ServerStep({}, {}, FALSE)
<1>1. service \in ServiceRec /\ opened \subseteq Sessions /\ service.instance <= MaxInstances
  BY ServerTypes DEF ServerSound
<1>2. service'.trial \in {service.trial, NoTrial}
  OBVIOUS
<1>3. QED BY <1>1, <1>2, ServesOn

LEMMA IdleStep ==
  ASSUME OrchIInv, NoFiles, NoArm, edge' = edge, UNCHANGED <<service, opened, trials>>,
         late' \subseteq late
  PROVE  OrchIInv'
<1>1. ServerStep({}, {}, FALSE)
  BY ServerIdle, Facts
<1>2. OwnTrialOrNone'
  <2>1. Trial' = Trial
    BY DEF Trial
  <2>2. QED BY <2>1 DEF OrchIInv, OwnTrialOrNone
<1> DEFINE B == {}
<1>3. /\ B \in SUBSET Trials /\ ServerStep(B, B, FALSE)
      /\ \A t \in B \cup B : /\ StageOf(t).evidence # "ABSENT"
                             /\ edge.step \in StageSteps => t # Trial
      /\ \A t \in B : Even(t)
      /\ \A c \in late' : c.name = "infer" => c.trial \notin B
  BY <1>1
<1> HIDE DEF B
<1>4. QED BY <1>2, <1>3, ElsewhereStep

LEMMA MisfortuneStep ==
  ASSUME OrchIInv, ServerMisfortune
  PROVE  OrchIInv'
<1>1. /\ Server!Misfortune /\ service'.instance <= MaxInstances
      /\ late' = late /\ edge' = edge /\ NoFiles /\ NoArm
  BY DEF ServerMisfortune
<1>2. /\ ServerStep({}, {}, FALSE)
      /\ service'.trial \in {service.trial, NoTrial}
      /\ service'.trial = service.trial \/ service'.state # "READY"
  BY <1>1, MisfortuneServes, Facts
<1>3. service'.state = "READY" => service.state = "READY"
  BY <1>2 DEF ServerStep
<1>4. OwnTrialOrNone'
  <2>1. Trial' = Trial
    BY <1>1 DEF Trial
  <2>2. QED BY <1>1, <1>2, <1>3, <2>1 DEF OrchIInv, OwnTrialOrNone
<1> DEFINE B == {}
<1>5. /\ B \in SUBSET Trials /\ ServerStep(B, B, FALSE)
      /\ \A t \in B \cup B : /\ StageOf(t).evidence # "ABSENT"
                             /\ edge.step \in StageSteps => t # Trial
      /\ \A t \in B : Even(t)
      /\ \A c \in late' : c.name = "infer" => c.trial \notin B
  BY <1>2
<1> HIDE DEF B
<1>6. QED BY <1>1, <1>4, <1>5, ElsewhereStep

LEMMA ArriveStep ==
  ASSUME OrchIInv, Arrive
  PROVE  OrchIInv'
<1>1. PICK c \in late : Executed(c) \/ ExecutedInPart(c)
  BY DEF Arrive
<1>2. c \in Command /\ late' = {} /\ edge' = edge /\ NoFiles /\ NoArm
  BY DEF Arrive, OrchIInv, OrchTypeOK
<1> DEFINE B == BeginsOf(c)  I == InfersOf(c)  prepares == (c.name = "prepare-skill")
<1>3. ServerStep(B, I, prepares)
  BY <1>1, <1>2, CommandServes, Facts
<1>4. B \in SUBSET Trials /\ I \in SUBSET Trials /\ prepares \in BOOLEAN
  BY DEF BeginsOf, InfersOf
<1>5. ASSUME NEW t \in B \cup I
      PROVE  /\ StageOf(t).evidence # "ABSENT"
             /\ edge.step \in StageSteps => t # Trial
  <2>1. t \in Trials /\ Concerns(c, t)
    BY <1>5 DEF BeginsOf, InfersOf, Concerns
  <2>2. QED BY <2>1 DEF OrchIInv, ServerKeeps
<1>6. ASSUME NEW t \in I
      PROVE  Even(t)
  <2>1. t \in Trials /\ Recorded(t) = Lines(t)
    BY <1>6 DEF InfersOf, OrchIInv, ServerKeeps
  <2>2. Lines(t) <= published[t] /\ published[t] <= Recorded(t)
    BY <2>1 DEF OrchIInv, EveryActionAccountedFor, Recorded
  <2>3. QED BY <2>1, <2>2, Facts DEF Even
<1>7. OwnTrialOrNone'
  <2>1. Trial' = Trial
    BY <1>2 DEF Trial
  <2>2. \/ service'.trial \in {service.trial, NoTrial}
        \/ service.trial = NoTrial /\ service.state = "READY" /\ service'.trial \in B
    BY <1>3 DEF ServerStep
  <2>3. B # {} => c.name = "begin-trial"
    BY DEF BeginsOf
  <2>4. edge.step \in Underway => Trial # NoTrial
    BY Ids, Facts, CallSteps
  <2> HIDE DEF B
  <2>5. QED BY <1>2, <2>1, <2>2, <2>3, <2>4 DEF OrchIInv, OwnTrialOrNone
<1>8. /\ \A t \in B \cup I : /\ StageOf(t).evidence # "ABSENT"
                             /\ edge.step \in StageSteps => t # Trial
      /\ \A t \in I : Even(t)
      /\ late' \subseteq late
      /\ \A d \in late' : d.name = "infer" => d.trial \notin I
  BY <1>2, <1>5, <1>6
<1> HIDE DEF B, I, prepares
<1>9. QED BY <1>2, <1>3, <1>4, <1>7, <1>8, ElsewhereStep

-----------------------------------------------------------------------------
\* The calls on the audit store.
LEMMA OpenRun ==
  ASSUME OrchIInv, edge.step \in Active
  PROVE  /\ activeRun = edge.run /\ activeRun \in Runs /\ activeRun # NoRun
         /\ runs[activeRun] \in RunDir /\ completedStages \in 0 .. NumStages
         /\ \A i \in Stages : ~runs[activeRun].stages[i].failure
<1>1. activeRun = edge.run /\ edge.run \in Runs
  BY Facts, CallSteps DEF OrchIInv, StoreFollows
<1>2. QED
  BY <1>1, EdgeAuditAssumption DEF OrchIInv, EdgeIInv, EdgeTypeOK, NoFailureYet

LEMMA RunWritten ==
  ASSUME EdgeTypeOK, NEW r \in Runs, NEW dir, WriteRun(r, dir)
  PROVE  runs'[r] = dir /\ \A q \in Runs : q # r => runs'[q] = runs[q]
  BY DEF EdgeTypeOK, WriteRun

LEMMA ManifestFields ==
  ASSUME NEW dir \in RunDir, NEW status, NEW state, NEW n
  PROVE  /\ Manifest(dir, status, state, n).stages = dir.stages
         /\ Manifest(dir, status, state, n).completed = n
  BY DEF Manifest, RunDir

\* The manifest of a run that goes on: no stage of it has failed.
LEMMA ReportEffect ==
  ASSUME OrchIInv, edge.step \in Active, NEW state \in PipelineStates,
         SetPipelineState(state) \/ SetPipelineStateFails(state)
  PROVE  StagesKept /\ EdgeIInv' /\ FailedStageNotCounted'
<1>1. EdgeIInv'
  BY SetStateStep DEF OrchIInv
<1>2. UNCHANGED <<activeRun, completedStages, stageActive>>
  BY DEF SetPipelineState, SetPipelineStateFails, Fields
<1>3. CASE runs' = runs
  BY <1>1, <1>2, <1>3 DEF StagesKept, OrchIInv, FailedStageNotCounted
<1>4. CASE WriteRun(activeRun, Reporting(state))
  <2>1. /\ runs'[activeRun] = Reporting(state)
        /\ \A q \in Runs : q # activeRun => runs'[q] = runs[q]
    BY <1>4, OpenRun, RunWritten DEF OrchIInv, EdgeIInv
  <2>2. Reporting(state).stages = runs[activeRun].stages
    BY OpenRun, ManifestFields DEF Reporting
  <2>3. \A r \in Runs : runs'[r].stages = runs[r].stages
    BY <2>1, <2>2
  <2>4. FailedStageNotCounted'
    <3>1. ASSUME NEW r \in Runs, NEW i \in Stages, runs'[r].stages[i].failure
          PROVE  runs'[r].completed <= i
      <4>1. r # activeRun
        BY <2>3, <3>1, OpenRun
      <4>2. QED BY <2>1, <2>3, <3>1, <4>1 DEF OrchIInv, FailedStageNotCounted
    <3>2. QED BY <3>1 DEF FailedStageNotCounted
  <2>5. QED BY <1>1, <1>2, <2>3, <2>4 DEF StagesKept
<1>5. QED BY <1>3, <1>4 DEF SetPipelineState, SetPipelineStateFails

LEMMA ThenTransition ==
  ASSUME NEW a \in EdgeRec, NEW p \in PipelineStates, NEW f, f = [a EXCEPT !.pipeline = p],
         SameRest(edge, a), a.session = edge.session
  PROVE  /\ f \in EdgeRec /\ f.step = a.step /\ SameRest(edge, f)
         /\ f.session = edge.session
<1>1. f.step = a.step /\ SameRest(a, f) /\ f.session = a.session /\ f \in EdgeRec
  BY PipelineSet
<1>2. QED BY <1>1 DEF SameRest, SameRun

\* What follows a transition within a stage, before the first or after the last.
LEMMA AfterFields ==
  ASSUME OrchIInv, NEW target \in Targets, target # "HANDOFF",
         NEW a, a = After(target)
  PROVE  /\ a \in EdgeRec /\ SameRun(edge, a) /\ a.session = edge.session
         /\ a.cleanup = edge.cleanup /\ a.trialStarted = edge.trialStarted
         /\ \/ target = "PREFLIGHT" /\ a.step = "preflight"
            \/ target = "RESETTING" /\ a.step \in {"reset", "PREPARING_POLICY"}
            \/ target = "PREPARING_POLICY" /\ a.step = "prepare-skill"
            \/ target = "READY_TO_ROLLOUT" /\ a.step = "begin-stage"
            \/ target = "ROLLOUT" /\ a.step = "infer"
            \/ target = "JOINT_GATE" /\ a.step = "joint-gate"
            \/ target = "CHECKING" /\ a.step = "checker"
            \/ target = "COMPLETED" /\ a.step = "complete"
<1>1. target \in PipelineStates
  BY DEF Targets, PipelineStates
<1>2. ASSUME NEW s \in Steps, NEW e, e = To(s)
      PROVE  e \in EdgeRec /\ e.step = s /\ SameRest(edge, e) /\ e.session = edge.session
  BY <1>2, ArmTypes, Stepped DEF To
<1> DEFINE Next(s) == \/ target = "PREFLIGHT" /\ s = "preflight"
                      \/ target = "RESETTING" /\ s \in {"reset", "PREPARING_POLICY"}
                      \/ target = "PREPARING_POLICY" /\ s = "prepare-skill"
                      \/ target = "READY_TO_ROLLOUT" /\ s = "begin-stage"
                      \/ target = "ROLLOUT" /\ s = "infer"
                      \/ target = "JOINT_GATE" /\ s = "joint-gate"
                      \/ target = "CHECKING" /\ s = "checker"
                      \/ target = "COMPLETED" /\ s = "complete"
<1>3. \E s \in Steps : Next(s) /\ \/ After(target) = To(s)
                                  \/ After(target) = [To(s) EXCEPT !.sequence = 0]
  <2>1. CASE target \in {"PREFLIGHT", "PREPARING_POLICY", "READY_TO_ROLLOUT", "JOINT_GATE",
                         "CHECKING", "COMPLETED"}
    BY <2>1, AllSteps DEF After
  <2>2. CASE target = "RESETTING"
    BY <2>2, AllSteps DEF After
  <2>3. CASE target = "ROLLOUT"
    BY <2>3, AllSteps DEF After
  <2>4. QED BY <2>1, <2>2, <2>3 DEF Targets
<1>4. PICK s \in Steps : Next(s) /\ \/ After(target) = To(s)
                                    \/ After(target) = [To(s) EXCEPT !.sequence = 0]
  BY <1>3
<1> DEFINE e == To(s)
<1>5. e \in EdgeRec /\ e.step = s /\ SameRest(edge, e) /\ e.session = edge.session
  BY <1>2
<1>6. 0 \in 0 .. MaxChunks - 1
  BY OrchestratorAssumption
<1>7. a = e \/ a = [e EXCEPT !.sequence = 0]
  BY <1>4
<1> HIDE DEF e
<1>8. a \in EdgeRec /\ a.step = s /\ SameRest(edge, a) /\ a.session = edge.session
  BY <1>5, <1>6, <1>7, SequenceSet DEF SameRest, SameRun
<1>9. QED BY <1>4, <1>8 DEF SameRest

LEMMA TargetSteps ==
  /\ Targets \subseteq PipelineStates /\ Targets \subseteq Active
  /\ {"RESETTING", "reset", "PREPARING_POLICY", "prepare-skill"} \subseteq Unbegun
  /\ {"PREPARING_POLICY", "prepare-skill"} \cap HeldSteps = {}
  /\ {"PREFLIGHT", "RESETTING", "JOINT_GATE", "CHECKING", "HANDOFF", "COMPLETED"} \subseteq HeldSteps
  /\ {"PREFLIGHT", "preflight", "COMPLETED", "complete", "HANDOFF"} \cap StageSteps = {}
  /\ {"PREFLIGHT", "preflight", "start-stage"} = Opening
  /\ {"COMPLETED", "complete", "HANDOFF"} = Closing
  /\ Opening \cap Closing = {} /\ Opening \subseteq Active /\ Closing \subseteq Active
  BY DEF Targets, PipelineStates, Active, Opening, StageSteps, Unbegun, Underway, Asking, Acting,
         Resting, Judged, Closing, Cleanup, HeldSteps

LEMMA TransitionFailsStep ==
  ASSUME OrchIInv, NEW target \in Targets, Transition(target),
         edge' = Raised([edge EXCEPT !.pipeline = target])
  PROVE  OrchIInv'
<1>1. /\ edge.step = target /\ UNCHANGED serverVars
      /\ hasPublished' = hasPublished /\ published' = published /\ passed' = passed
      /\ SetPipelineState(target) \/ SetPipelineStateFails(target)
  BY DEF Transition, At, NoServer, NoArm, armVars
<1>2. target \in PipelineStates /\ edge.step \in Active
  BY <1>1, TargetSteps
<1>3. StagesKept /\ EdgeIInv' /\ FailedStageNotCounted'
  BY <1>1, <1>2, ReportEffect
<1>4. PICK e : e = [edge EXCEPT !.pipeline = target]
  OBVIOUS
<1>5. e \in EdgeRec /\ SameRun(edge, e)
  BY <1>2, <1>4, ArmTypes, PipelineSet DEF SameRest
<1>6. edge' = Raised(e)
  BY <1>4
<1>7. QED BY <1>1, <1>2, <1>3, <1>5, <1>6, ArmTypes, LocalRaise

LEMMA TransitionStep ==
  ASSUME OrchIInv, NEW target \in Targets, target # "HANDOFF", Transition(target)
  PROVE  OrchIInv'
<1>1. /\ edge.step = target /\ UNCHANGED serverVars
      /\ hasPublished' = hasPublished /\ published' = published /\ passed' = passed
      /\ SetPipelineState(target) \/ SetPipelineStateFails(target)
      /\ \/ edge' = [After(target) EXCEPT !.pipeline = target]
         \/ edge' = Raised([edge EXCEPT !.pipeline = target])
  BY DEF Transition, At, NoServer, NoArm, armVars
<1>2. target \in PipelineStates /\ edge.step \in Active
  BY <1>1, TargetSteps
<1>3. StagesKept /\ EdgeIInv' /\ FailedStageNotCounted'
  BY <1>1, <1>2, ReportEffect
<1>4. CASE edge' = Raised([edge EXCEPT !.pipeline = target])
  BY <1>4, TransitionFailsStep
<1>5. CASE edge' = [After(target) EXCEPT !.pipeline = target]
  <2>1. PICK a : a = After(target)
    OBVIOUS
  <2>2. /\ a \in EdgeRec /\ SameRun(edge, a) /\ a.session = edge.session
        /\ a.cleanup = edge.cleanup /\ a.trialStarted = edge.trialStarted
        /\ \/ target = "PREFLIGHT" /\ a.step = "preflight"
           \/ target = "RESETTING" /\ a.step \in {"reset", "PREPARING_POLICY"}
           \/ target = "PREPARING_POLICY" /\ a.step = "prepare-skill"
           \/ target = "READY_TO_ROLLOUT" /\ a.step = "begin-stage"
           \/ target = "ROLLOUT" /\ a.step = "infer"
           \/ target = "JOINT_GATE" /\ a.step = "joint-gate"
           \/ target = "CHECKING" /\ a.step = "checker"
           \/ target = "COMPLETED" /\ a.step = "complete"
    BY <2>1, AfterFields
  <2>3. edge' = [a EXCEPT !.pipeline = target] /\ SameRest(edge, a)
    BY <1>5, <2>1, <2>2 DEF SameRest
  <2>4. /\ edge' \in EdgeRec /\ edge'.step = a.step /\ SameRun(edge, edge')
        /\ edge'.session = edge.session /\ edge'.cleanup = edge.cleanup
    BY <1>2, <2>2, <2>3, ThenTransition DEF SameRest
  <2>5. CASE target \in {"PREFLIGHT", "COMPLETED"}
    <3>1. edge'.step \notin StageSteps
      BY <2>2, <2>4, <2>5, TargetSteps
    <3>2. Within(edge.step, edge'.step)
      BY <1>1, <2>2, <2>4, <2>5, TargetSteps, CallSteps, AllSteps DEF Within
    <3>3. HeldInStep'
      BY <1>1, <2>4, <2>5, TargetSteps, HeldOn
    <3>4. QED BY <1>1, <1>3, <2>4, <3>1, <3>2, <3>3, ArmTypes, OutsideGoesOn
  <2>6. CASE target \notin {"PREFLIGHT", "COMPLETED"}
    <3>1. Through(edge.step, edge'.step) /\ edge'.step # "complete-stage"
      BY <1>1, <2>2, <2>4, <2>6, TargetSteps, CallSteps DEF Through
    <3>2. HeldInStep'
      <4>1. CASE target \in {"RESETTING", "JOINT_GATE", "CHECKING"}
        BY <1>1, <2>4, <4>1, TargetSteps, HeldOn
      <4>2. CASE target \notin {"RESETTING", "JOINT_GATE", "CHECKING"}
        <5>1. edge'.step \notin HeldSteps
          BY <2>2, <2>4, <2>6, <4>2, Awaited, TargetSteps
        <5>2. QED BY <5>1 DEF HeldInStep
      <4>3. QED BY <4>1, <4>2
    <3>3. QED BY <1>1, <1>3, <2>4, <3>1, <3>2, ArmTypes, StageGoesOn
  <2>7. QED BY <2>5, <2>6
<1>6. QED BY <1>1, <1>4, <1>5

LEMMA TransitionRaisesStep ==
  ASSUME OrchIInv, NEW target \in Targets, TransitionRaises(target)
  PROVE  OrchIInv'
<1>1. /\ edge.step \in Active /\ edge' = Raised(edge) /\ NoFiles /\ UNCHANGED serverVars
      /\ hasPublished' = hasPublished /\ published' = published /\ passed' = passed
  BY TargetSteps DEF TransitionRaises, At, Raise, NoServer, NoArm, armVars
<1>2. StagesKept /\ EdgeIInv' /\ FailedStageNotCounted'
  BY <1>1, FilesAlone
<1>3. QED BY <1>1, <1>2, ArmTypes, LocalRaise

-----------------------------------------------------------------------------
\* The steps that leave a stage behind, or have none: the next stage, begin,
\* complete, and the ends of the process.
LEMMA BetweenStages ==
  ASSUME OrchIInv, EdgeIInv', StoreFollows', NoFailureYet', FailedStageNotCounted',
         \A r \in Runs : runs'[r].stages = runs[r].stages,
         UNCHANGED serverVars, published' = published, passed' = passed,
         hasPublished' \in BOOLEAN, HeldInStep', edge' \in EdgeRec,
         edge'.step \notin StageSteps
  PROVE  OrchIInv'
<1>1. ServerPart'
  BY ServerUntouched
<1>2. StageInStep' /\ OwnTrialOrNone'
  BY OutsideStage
<1>3. OrchTypeOK'
  BY TypesKept, ServerTypes, ArmTypes DEF serverVars, OrchIInv, OrchTypeOK
<1>4. QED BY <1>1, <1>2, <1>3 DEF ServerPart, OrchIInv

\* The stage directories are the same, and no stage is open that was not.
LEMMA NoNewFailure ==
  ASSUME OrchIInv, \A r \in Runs : runs'[r].stages = runs[r].stages,
         ~stageActive' \/ UNCHANGED <<activeRun, completedStages, stageActive>>,
         edge'.step \in Active =>
            edge'.run \in Runs /\ \A i \in Stages : ~runs[edge'.run].stages[i].failure
  PROVE  NoFailureYet'
<1>1. \A t \in Trials : StageOf(t)'.evidence = "ABSENT" => ~StageOf(t)'.failure
  BY Facts DEF OrchIInv, NoFailureYet, StageOf
<1>2. stageActive' => runs'[activeRun'].stages[completedStages'].evidence # "ABSENT"
  BY EdgeAuditAssumption DEF OrchIInv, NoFailureYet, EdgeIInv, EdgeTypeOK
<1>3. QED BY <1>1, <1>2 DEF NoFailureYet

LEMMA NextStageFields ==
  ASSUME OrchIInv, NEW f, f = NextStage
  PROVE  /\ f \in EdgeRec /\ f.run = edge.run /\ f.session = edge.session
         /\ f.cleanup = edge.cleanup /\ f.trialStarted = edge.trialStarted
         /\ \/ f.step = "start-stage" /\ f.stage = edge.stage + 1
            \/ f.step = "COMPLETED" /\ f.stage = edge.stage /\ edge.stage + 1 = NumStages
<1>1. edge.stage \in Stages
  BY Facts
<1>2. CASE edge.stage + 1 \in Stages
  <2>1. PICK e : e = To("start-stage")
    OBVIOUS
  <2>2. /\ e \in EdgeRec /\ e.step = "start-stage" /\ SameRest(edge, e)
        /\ e.session = edge.session
    BY <2>1, ArmTypes, AllSteps, Stepped DEF To
  <2>3. f = [e EXCEPT !.stage = edge.stage + 1]
    BY <1>2, <2>1, <2>2 DEF NextStage, SameRest, SameRun
  <2>4. /\ f \in EdgeRec /\ f.step = e.step /\ f.run = e.run /\ f.stage = edge.stage + 1
        /\ f.trialStarted = e.trialStarted /\ f.cleanup = e.cleanup
    BY <1>2, <2>2, <2>3, StageSet
  <2>5. f.session = e.session
    BY <2>2, <2>3 DEF EdgeRec
  <2>6. QED BY <2>2, <2>4, <2>5 DEF SameRest, SameRun
<1>3. CASE edge.stage + 1 \notin Stages
  <2>1. f = To("COMPLETED") /\ edge.stage + 1 = NumStages
    BY <1>1, <1>3, EdgeAuditAssumption DEF NextStage, Stages
  <2>2. /\ f \in EdgeRec /\ f.step = "COMPLETED" /\ SameRest(edge, f)
        /\ f.session = edge.session
    BY <2>1, ArmTypes, AllSteps, Stepped DEF To
  <2>3. QED BY <2>1, <2>2 DEF SameRest, SameRun
<1>4. QED BY <1>2, <1>3

LEMMA HandoffStep ==
  ASSUME OrchIInv, Transition("HANDOFF")
  PROVE  OrchIInv'
<1>1. /\ edge.step = "HANDOFF" /\ UNCHANGED serverVars
      /\ hasPublished' = hasPublished /\ published' = published /\ passed' = passed
      /\ SetPipelineState("HANDOFF") \/ SetPipelineStateFails("HANDOFF")
      /\ \/ edge' = [NextStage EXCEPT !.pipeline = "HANDOFF"]
         \/ edge' = Raised([edge EXCEPT !.pipeline = "HANDOFF"])
  BY DEF Transition, After, At, NoServer, NoArm, armVars
<1>2. /\ "HANDOFF" \in PipelineStates /\ "HANDOFF" \in Targets /\ edge.step \in Active
      /\ edge.step \in HeldSteps
  BY <1>1, TargetSteps DEF Targets
<1>3. StagesKept /\ EdgeIInv' /\ FailedStageNotCounted'
  BY <1>1, <1>2, ReportEffect
<1>4. CASE edge' = Raised([edge EXCEPT !.pipeline = "HANDOFF"])
  BY <1>2, <1>4, TransitionFailsStep
<1>5. CASE edge' = [NextStage EXCEPT !.pipeline = "HANDOFF"]
  <2>1. PICK a : a = NextStage
    OBVIOUS
  <2>2. /\ a \in EdgeRec /\ a.run = edge.run /\ a.cleanup = edge.cleanup
        /\ \/ a.step = "start-stage" /\ a.stage = edge.stage + 1
           \/ a.step = "COMPLETED"
    BY <2>1, NextStageFields
  <2>3. edge' = [a EXCEPT !.pipeline = "HANDOFF"]
    BY <1>5, <2>1
  <2>4. edge' \in EdgeRec /\ edge'.step = a.step /\ SameRest(a, edge')
    BY <1>2, <2>2, <2>3, PipelineSet
  <2>5. /\ edge'.run = edge.run /\ edge'.cleanup = edge.cleanup
        /\ \/ edge'.step = "start-stage" /\ edge'.stage = edge.stage + 1
           \/ edge'.step = "COMPLETED"
    BY <2>2, <2>4 DEF SameRest, SameRun
  <2>6. /\ UNCHANGED <<activeRun, completedStages, stageActive>>
        /\ \A r \in Runs : runs'[r].stages = runs[r].stages
    BY <1>3 DEF StagesKept
  <2>7. edge.run \in Runs /\ activeRun = edge.run /\ completedStages = edge.stage + 1
    BY <1>1, <1>2 DEF OrchIInv, StoreFollows, At
  <2>8. edge'.step \notin StageSteps
    BY <2>5, TargetSteps DEF StageSteps, Unbegun, Underway, Asking, Acting, Resting, Judged
  <2>9. edge'.step \in Opening => edge'.step = "start-stage"
    BY <2>5 DEF Opening
  <2>10. StoreFollows'
    BY <2>5, <2>6, <2>7, <2>8, <2>9 DEF StoreFollows, At
  <2>11. NoFailureYet'
    <3>1. \A i \in Stages : ~runs[edge.run].stages[i].failure
      BY <1>2 DEF OrchIInv, NoFailureYet
    <3>2. QED BY <2>5, <2>6, <2>7, <3>1, NoNewFailure
  <2>12. HeldInStep'
    BY <1>1, <1>2, <2>5, HeldOn
  <2>13. QED BY <1>1, <1>3, <2>4, <2>6, <2>8, <2>10, <2>11, <2>12, ArmTypes, BetweenStages
<1>6. QED BY <1>1, <1>4, <1>5

LEMMA BeginCallStep ==
  ASSUME OrchIInv, Begin
  PROVE  OrchIInv'
<1>1. /\ edge.step = "begin" /\ UNCHANGED serverVars
      /\ hasPublished' = hasPublished /\ published' = published /\ passed' = passed
      /\ \/ EdgeBegin(edge.run) /\ edge' = To("PREFLIGHT")
         \/ EdgeBeginFails(edge.run) /\ edge' = To("over")
  BY DEF Begin, At, NoServer, NoArm, armVars, GoTo
<1>2. /\ edge.run \in Runs /\ edge.stage = 0 /\ completedStages = 0 /\ ~stageActive
      /\ edge.step \in HeldSteps /\ runs[edge.run] \in RunDir
  BY <1>1, Facts DEF OrchIInv, StoreFollows, EdgeIInv, EdgeTypeOK, At, HeldSteps
<1>3. EdgeIInv'
  BY <1>1, <1>2, BeginStep DEF OrchIInv
<1>4. /\ edge' \in EdgeRec /\ SameRun(edge, edge') /\ edge'.cleanup = edge.cleanup
      /\ \/ EdgeBegin(edge.run) /\ edge'.step = "PREFLIGHT"
         \/ edge'.step = "over"
  BY <1>1, StepOf, AllSteps
<1>5. /\ completedStages' = 0 /\ ~stageActive'
      /\ EdgeBegin(edge.run) => activeRun' = edge.run
      /\ \/ runs' = runs
         \/ /\ RunIsNew(edge.run)
            /\ \E dir : /\ WriteRun(edge.run, dir)
                        /\ \/ dir = Begun(edge.run)
                           \/ dir = [runs[edge.run] EXCEPT !.manifest = "EMPTY"]
  BY <1>1, <1>2 DEF EdgeBegin, EdgeBeginFails, edgeVars
<1>6. RunIsNew(edge.run) => /\ runs[edge.run].completed = 0
                            /\ \A i \in Stages : ~runs[edge.run].stages[i].failure
  <2>1. ASSUME RunIsNew(edge.run)
        PROVE  /\ runs[edge.run].completed = 0
               /\ \A i \in Stages : runs[edge.run].stages[i].evidence = "ABSENT"
    BY <1>2, <2>1 DEF RunIsNew, OrchIInv, EdgeIInv, RunInOrder
  <2>2. ASSUME NEW i \in Stages, runs[edge.run].stages[i].evidence = "ABSENT"
        PROVE  ~runs[edge.run].stages[i].failure
    <3>1. <<edge.run, i>> \in Trials
      BY <1>2 DEF Trials
    <3>2. QED BY <2>2, <3>1 DEF OrchIInv, NoFailureYet, StageOf
  <2>3. QED BY <2>1, <2>2
<1>7. /\ \A r \in Runs : runs'[r].stages = runs[r].stages
      /\ \A r \in Runs : runs'[r].completed = runs[r].completed
  <2>1. CASE runs' = runs
    BY <2>1
  <2>2. ASSUME RunIsNew(edge.run), NEW dir, WriteRun(edge.run, dir),
               \/ dir = Begun(edge.run)
               \/ dir = [runs[edge.run] EXCEPT !.manifest = "EMPTY"]
        PROVE  \A r \in Runs : /\ runs'[r].stages = runs[r].stages
                               /\ runs'[r].completed = runs[r].completed
    <3>1. dir.stages = runs[edge.run].stages /\ dir.completed = 0
      BY <1>2, <1>6, <2>2, ManifestFields DEF Begun, RunDir
    <3>2. runs'[edge.run] = dir /\ \A q \in Runs : q # edge.run => runs'[q] = runs[q]
      BY <1>2, <2>2, RunWritten DEF OrchIInv, EdgeIInv
    <3>3. QED BY <1>6, <2>2, <3>1, <3>2
  <2>3. QED BY <1>5, <2>1, <2>2
<1>8. FailedStageNotCounted'
  BY <1>7 DEF OrchIInv, FailedStageNotCounted
<1>9. edge'.step \in Active => EdgeBegin(edge.run) /\ edge'.step = "PREFLIGHT"
  BY <1>4, CallSteps
<1>10. /\ edge'.run = edge.run /\ edge'.stage = 0
       /\ edge'.step \notin StageSteps /\ ~At("begin")' /\ ~At("HANDOFF")'
  BY <1>2, <1>4, TargetSteps, CallSteps DEF SameRun, At
<1>11. StoreFollows'
  BY <1>2, <1>5, <1>9, <1>10, TargetSteps, CallSteps DEF StoreFollows
<1>12. NoFailureYet'
  <2>1. edge'.step \in Active => RunIsNew(edge.run)
    BY <1>9 DEF EdgeBegin
  <2>2. QED BY <1>2, <1>5, <1>6, <1>7, <1>10, <2>1, NoNewFailure
<1>13. HeldInStep'
  BY <1>1, <1>2, <1>4, HeldOn
<1>14. QED
  BY <1>1, <1>3, <1>4, <1>7, <1>8, <1>10, <1>11, <1>12, <1>13, ArmTypes, BetweenStages

\* The process has no run of the store any more.
LEMMA Gone ==
  ASSUME OrchIInv, EdgeIInv', Released, FailedStageNotCounted',
         \A r \in Runs : runs'[r].stages = runs[r].stages,
         UNCHANGED serverVars, published' = published, passed' = passed,
         hasPublished' \in BOOLEAN, HeldInStep', edge' \in EdgeRec,
         edge'.step # "over" => edge'.run \in Runs,
         edge'.step = "begin" => edge'.stage = 0,
         edge'.step \in Ended \cup {"begin"}
  PROVE  OrchIInv'
<1>1. /\ edge'.step \notin Active /\ edge'.step \notin StageSteps
      /\ edge'.step \notin Opening \cup StageSteps /\ ~At("HANDOFF")'
  BY DEF Ended, Active, StageSteps, Opening, Unbegun, Underway, Asking, Acting, Resting,
         Judged, Closing, Cleanup, At
<1>2. StoreFollows'
  BY <1>1 DEF StoreFollows, Released, At
<1>3. NoFailureYet'
  BY <1>1, NoNewFailure DEF Released
<1>4. QED BY <1>1, <1>2, <1>3, BetweenStages

LEMMA DieStep ==
  ASSUME OrchIInv, Die
  PROVE  OrchIInv'
<1>1. /\ edge.step \notin Ended /\ edge' = To("died") /\ UNCHANGED serverVars
      /\ Released /\ runs' = runs
      /\ hasPublished' = hasPublished /\ published' = published /\ passed' = passed
  BY DEF Die, EdgeExit, GoTo, NoServer, NoArm, armVars
<1>2. EdgeIInv'
  BY <1>1, ReleaseStep DEF OrchIInv, EdgeIInv, EdgeTypeOK
<1>3. edge' \in EdgeRec /\ edge'.step = "died" /\ edge'.run = edge.run
  BY <1>1, StepOf, AllSteps DEF SameRun
<1>4. edge.run \in Runs
  BY <1>1, Facts DEF Ended
<1>5. HeldInStep'
  BY <1>3 DEF HeldInStep, HeldSteps, Opening, Judged, Closing
<1>6. FailedStageNotCounted'
  BY <1>1 DEF OrchIInv, FailedStageNotCounted
<1>7. QED BY <1>1, <1>2, <1>3, <1>4, <1>5, <1>6, ArmTypes, Gone DEF Ended

LEMMA NewProcessFields ==
  ASSUME NEW r \in Runs, NEW f, f = NewProcess(r)
  PROVE  /\ f \in EdgeRec /\ f.step = "begin" /\ f.run = r /\ f.stage = 0
         /\ f.trialStarted = FALSE /\ f.cleanup = {} /\ f.pipeline = "CREATED"
<1>1. 0 \in Stages /\ 0 \in 0 .. MaxChunks - 1 /\ 0 \in 0 .. MaxInstances
  BY EdgeAuditAssumption, OrchestratorAssumption DEF Stages
<1>2. "begin" \in Steps /\ "CREATED" \in PipelineStates
  BY AllSteps DEF PipelineStates
<1>3. QED BY <1>1, <1>2 DEF NewProcess, EdgeRec

LEMMA StartRunStep ==
  ASSUME OrchIInv, NEW r \in Runs, StartRun(r)
  PROVE  OrchIInv'
<1>1. /\ edge' = NewProcess(r) /\ UNCHANGED serverVars /\ Released /\ runs' = runs
      /\ hasPublished' = FALSE /\ published' = published /\ passed' = passed
  BY DEF StartRun, EdgeExit, NoServer
<1>2. EdgeIInv'
  BY <1>1, ReleaseStep DEF OrchIInv, EdgeIInv, EdgeTypeOK
<1>3. edge' \in EdgeRec /\ edge'.step = "begin" /\ edge'.run = r /\ edge'.stage = 0
  BY <1>1, NewProcessFields
<1>4. HeldInStep'
  BY <1>1 DEF HeldInStep
<1>5. FailedStageNotCounted'
  BY <1>1 DEF OrchIInv, FailedStageNotCounted
<1>6. QED BY <1>1, <1>2, <1>3, <1>4, <1>5, Gone

LEMMA CompleteCallStep ==
  ASSUME OrchIInv, CompleteCall
  PROVE  OrchIInv'
<1>1. /\ edge.step = "complete" /\ UNCHANGED serverVars
      /\ hasPublished' = hasPublished /\ published' = published /\ passed' = passed
      /\ \/ EdgeComplete /\ edge' = To("over")
         \/ EdgeCompleteFails /\ edge' = Raised(edge)
  BY DEF CompleteCall, At, NoServer, NoArm, armVars, GoTo, Raise
<1>2. EdgeIInv'
  BY <1>1, CompleteStep DEF OrchIInv
<1>3. edge.step \in Active /\ edge.step \in HeldSteps
  BY <1>1, TargetSteps DEF HeldSteps
<1>4. /\ runs' = runs \/ WriteRun(activeRun, RunCompleted)
      /\ EdgeCompleteFails => UNCHANGED <<activeRun, completedStages, stageActive>>
      /\ EdgeComplete => Released
  BY <1>1 DEF EdgeComplete, EdgeCompleteFails, Fields
<1>5. /\ \A r \in Runs : runs'[r].stages = runs[r].stages
      /\ FailedStageNotCounted'
  <2>1. CASE runs' = runs
    BY <2>1 DEF OrchIInv, FailedStageNotCounted
  <2>2. CASE WriteRun(activeRun, RunCompleted)
    <3>1. /\ runs'[activeRun] = RunCompleted
          /\ \A q \in Runs : q # activeRun => runs'[q] = runs[q]
      BY <1>3, <2>2, OpenRun, RunWritten DEF OrchIInv, EdgeIInv
    <3>2. RunCompleted.stages = runs[activeRun].stages
      BY <1>3, OpenRun, ManifestFields DEF RunCompleted
    <3>3. \A r \in Runs : runs'[r].stages = runs[r].stages
      BY <3>1, <3>2
    <3>4. ASSUME NEW r \in Runs, NEW i \in Stages, runs'[r].stages[i].failure
          PROVE  runs'[r].completed <= i
      <4>1. r # activeRun
        BY <1>3, <3>3, <3>4, OpenRun
      <4>2. QED BY <3>1, <3>3, <3>4, <4>1 DEF OrchIInv, FailedStageNotCounted
    <3>5. QED BY <3>3, <3>4 DEF FailedStageNotCounted
  <2>3. QED BY <1>4, <2>1, <2>2
<1>6. CASE EdgeComplete /\ edge' = To("over")
  <2>1. edge' \in EdgeRec /\ edge'.step = "over" /\ edge'.cleanup = edge.cleanup
    BY <1>6, StepOf, AllSteps
  <2>2. HeldInStep'
    BY <1>1, <1>3, <2>1, HeldOn
  <2>3. QED BY <1>1, <1>2, <1>4, <1>5, <1>6, <2>1, <2>2, ArmTypes, Gone DEF Ended
<1>7. CASE EdgeCompleteFails /\ edge' = Raised(edge)
  <2>1. StagesKept
    BY <1>4, <1>5, <1>7 DEF StagesKept
  <2>2. QED BY <1>1, <1>2, <1>3, <1>5, <1>7, <2>1, ArmTypes, LocalRaise
<1>8. QED BY <1>1, <1>6, <1>7

-----------------------------------------------------------------------------
\* The calls that write in a stage directory: the server and the arm wait.
Earned(t) == /\ trials[t].verdict = "COMMITTED" /\ Even(t) /\ Lines(t) > 0
             /\ "joint_gate" \in passed[t]
             /\ t[2] \in Checked => "checker" \in passed[t]

FilesMove(t) ==
    /\ StageOf(t)'.evidence = "ABSENT" => StageOf(t).evidence = "ABSENT"
    /\ \/ Lines(t)' = Lines(t)
       \/ /\ Lines(t)' = Lines(t) + 1
          /\ published[t] = Lines(t) + 1 /\ Recorded(t) = Lines(t) + 1
          /\ ~HasCompleted(t[1], t[2])' /\ \A c \in late : ~Concerns(c, t)
    /\ HasCompleted(t[1], t[2])' => HasCompleted(t[1], t[2]) \/ Earned(t)

LEMMA ServerWaits ==
  ASSUME OrchIInv, UNCHANGED serverVars, published' = published, passed' = passed,
         \A t \in Trials : FilesMove(t),
         \A c \in late : \A t \in Trials :
            Concerns(c, t) => (edge'.step \in StageSteps => t # Trial')
  PROVE  ServerPart'
<1>1. service' = service /\ trials' = trials /\ late' = late
  BY DEF serverVars
<1>2. ASSUME NEW t \in Trials
      PROVE  /\ Recorded(t)' = Recorded(t) /\ published'[t] = published[t]
             /\ StageOf(t)'.evidence = "ABSENT" => StageOf(t).evidence = "ABSENT"
             /\ Lines(t)' = Lines(t) \/ /\ Lines(t)' = Lines(t) + 1
                                        /\ published[t] = Lines(t) + 1
                                        /\ Recorded(t) = Lines(t) + 1
                                        /\ ~HasCompleted(t[1], t[2])'
                                        /\ \A c \in late : ~Concerns(c, t)
             /\ HasCompleted(t[1], t[2])' => HasCompleted(t[1], t[2]) \/ Earned(t)
  BY <1>1, <1>2 DEF FilesMove, Recorded
<1>3. ServerKeeps'
  <2>1. ASSUME NEW t \in Trials
        PROVE  /\ service'.trial = t => trials'[t].verdict = "open"
               /\ trials'[t].verdict = "unused" => Recorded(t)' = 0
               /\ StageOf(t)'.evidence = "ABSENT" =>
                     Even(t)' /\ Lines(t)' = 0 /\ trials'[t].verdict = "unused"
    <3>1. StageOf(t).evidence = "ABSENT" =>
            Even(t) /\ Lines(t) = 0 /\ trials[t].verdict = "unused"
      BY DEF OrchIInv, ServerKeeps
    <3>2. StageOf(t)'.evidence = "ABSENT" => Lines(t)' = Lines(t)
      BY <1>2, <3>1, Facts DEF Even
    <3>3. StageOf(t)'.evidence = "ABSENT" =>
            Even(t)' /\ Lines(t)' = 0 /\ trials'[t].verdict = "unused"
      BY <1>1, <1>2, <3>1, <3>2 DEF Even
    <3>4. QED BY <1>1, <1>2, <3>3 DEF OrchIInv, ServerKeeps
  <2>2. ASSUME NEW c \in late, NEW t \in Trials, Concerns(c, t)
        PROVE  /\ StageOf(t)'.evidence # "ABSENT"
               /\ edge'.step \in StageSteps => t # Trial'
               /\ Lines(t)' = Lines(t)
    BY <1>2, <2>2 DEF OrchIInv, ServerKeeps
  <2>3. ASSUME NEW c \in late, c.name = "infer"
        PROVE  Recorded(c.trial)' = Lines(c.trial)'
    <3>1. c.trial \in Trials /\ Concerns(c, c.trial)
      BY <2>3, CommandFields DEF OrchIInv, OrchTypeOK, Concerns
    <3>2. Recorded(c.trial) = Lines(c.trial)
      BY <2>3 DEF OrchIInv, ServerKeeps
    <3>3. PICK t \in Trials : t = c.trial
      BY <3>1
    <3>4. Recorded(t)' = Recorded(t) /\ Lines(t)' = Lines(t)
      BY <1>2, <2>2, <3>1, <3>3
    <3>5. QED BY <3>2, <3>3, <3>4
  <2>4. service'.instance <= MaxInstances
    BY <1>1 DEF OrchIInv, ServerKeeps
  <2>5. \A c, d \in late' : c = d
    BY <1>1 DEF OrchIInv, ServerKeeps
  <2>6. \A c \in late' : \A t \in Trials :
          Concerns(c, t) => /\ StageOf(t)'.evidence # "ABSENT"
                            /\ edge'.step \in StageSteps => t # Trial'
    BY <1>1, <2>2
  <2>7. \A c \in late' : c.name = "infer" => Recorded(c.trial)' = Lines(c.trial)'
    BY <1>1, <2>3
  <2>8. QED BY <2>1, <2>4, <2>5, <2>6, <2>7 DEF ServerKeeps, Concerns
<1>4. EveryActionAccountedFor'
  <2>1. ASSUME NEW t \in Trials
        PROVE  /\ Lines(t)' <= published'[t] /\ published'[t] <= trials'[t].recorded
               /\ trials'[t].recorded <= Lines(t)' + 1
    <3>1. /\ Lines(t) <= published[t] /\ published[t] <= Recorded(t)
          /\ Recorded(t) <= Lines(t) + 1
      BY DEF OrchIInv, EveryActionAccountedFor, Recorded
    <3>2. trials'[t].recorded = Recorded(t) /\ published'[t] = published[t]
      BY <1>1 DEF Recorded
    <3>3. Lines(t) \in Nat /\ Recorded(t) \in Nat /\ published[t] \in Nat
      BY Facts
    <3>4. \/ Lines(t)' = Lines(t)
          \/ Lines(t)' = Lines(t) + 1 /\ published[t] = Lines(t) + 1 /\ Recorded(t) = Lines(t) + 1
      BY <1>2
    <3>5. QED BY <3>1, <3>2, <3>3, <3>4
  <2>2. QED BY <2>1 DEF EveryActionAccountedFor
<1>5. CompletedStageIsTrue'
  <2>1. ASSUME NEW t \in Trials, HasCompleted(t[1], t[2])'
        PROVE  /\ trials'[t].verdict = "COMMITTED" /\ trials'[t].recorded = Lines(t)'
               /\ published'[t] = Lines(t)' /\ Lines(t)' > 0
               /\ "joint_gate" \in passed'[t]
               /\ t[2] \in Checked => "checker" \in passed'[t]
    <3>1. Lines(t)' = Lines(t)
      BY <1>2, <2>1
    <3>2. HasCompleted(t[1], t[2]) => Earned(t)
      BY DEF OrchIInv, CompletedStageIsTrue, Earned, Even, Recorded
    <3>3. Earned(t)
      BY <1>2, <2>1, <3>2
    <3>4. QED BY <1>1, <3>1, <3>3 DEF Earned, Even, Recorded
  <2>2. QED BY <2>1 DEF CompletedStageIsTrue
<1>6. QED BY <1>3, <1>4, <1>5 DEF ServerPart

LEMMA WroteStage ==
  ASSUME OrchIInv, EdgeIInv', StoreFollows', NoFailureYet', FailedStageNotCounted',
         UNCHANGED serverVars, hasPublished' = hasPublished, published' = published,
         passed' = passed,
         \A t \in Trials : FilesMove(t),
         \A c \in late : \A t \in Trials :
            Concerns(c, t) => (edge'.step \in StageSteps => t # Trial'),
         HeldInStep', edge' \in EdgeRec, StageInStep', OwnTrialOrNone'
  PROVE  OrchIInv'
<1>1. ServerPart'
  BY ServerWaits
<1>2. OrchTypeOK'
  BY TypesKept, ServerTypes, ArmTypes DEF serverVars, OrchIInv, OrchTypeOK
<1>3. QED BY <1>1, <1>2 DEF ServerPart, OrchIInv

\* Only stage i of run r has new files.
OneStage(r, i) == /\ \A q \in Runs : q # r => runs'[q] = runs[q]
                  /\ \A j \in Stages : j # i => runs'[r].stages[j] = runs[r].stages[j]

LEMMA OtherStages ==
  ASSUME OrchIInv, NEW r \in Runs, NEW i \in Stages, OneStage(r, i),
         NEW t \in Trials, t # <<r, i>>
  PROVE  StageOf(t)' = StageOf(t) /\ FilesMove(t)
<1>1. t = <<t[1], t[2]>> /\ t[1] \in Runs /\ t[2] \in Stages
  BY DEF Trials
<1>2. runs'[t[1]].stages[t[2]] = runs[t[1]].stages[t[2]]
  <2>1. CASE t[1] # r
    BY <1>1, <2>1 DEF OneStage
  <2>2. CASE t[1] = r
    <3>1. t[2] # i
      BY <1>1, <2>2
    <3>2. QED BY <1>1, <2>2, <3>1 DEF OneStage
  <2>3. QED BY <2>1, <2>2
<1>3. QED BY <1>2 DEF StageOf, FilesMove, Lines, HasCompleted

LEMMA EvidenceSet ==
  ASSUME NEW dir \in RunDir, NEW i \in Stages, NEW v,
         NEW new, new = [dir EXCEPT !.stages[i].evidence = v]
  PROVE  /\ new.completed = dir.completed
         /\ \A j \in Stages : j # i => new.stages[j] = dir.stages[j]
         /\ new.stages[i].evidence = v
         /\ new.stages[i].failure = dir.stages[i].failure
         /\ new.stages[i].lines = dir.stages[i].lines
<1>1. dir.stages \in [Stages -> StageDir] /\ dir.stages[i] \in StageDir
  BY DEF RunDir
<1>2. PICK s : s = [dir.stages[i] EXCEPT !.evidence = v]
  OBVIOUS
<1>3. /\ s.evidence = v /\ s.failure = dir.stages[i].failure
      /\ s.lines = dir.stages[i].lines
  BY <1>1, <1>2 DEF StageDir
<1>4. /\ new.completed = dir.completed /\ new.stages[i] = s
      /\ \A j \in Stages : j # i => new.stages[j] = dir.stages[j]
  BY <1>1, <1>2 DEF RunDir
<1>5. QED BY <1>3, <1>4

LEMMA LineAdded ==
  ASSUME NEW dir \in RunDir, NEW i \in Stages,
         NEW new, new = [dir EXCEPT !.stages[i].lines = @ + 1]
  PROVE  /\ new.completed = dir.completed
         /\ \A j \in Stages : j # i => new.stages[j] = dir.stages[j]
         /\ new.stages[i].lines = dir.stages[i].lines + 1
         /\ new.stages[i].evidence = dir.stages[i].evidence
         /\ new.stages[i].failure = dir.stages[i].failure
<1>1. dir.stages \in [Stages -> StageDir] /\ dir.stages[i] \in StageDir
  BY DEF RunDir
<1>2. PICK s : s = [dir.stages[i] EXCEPT !.lines = @ + 1]
  OBVIOUS
<1>3. /\ s.lines = dir.stages[i].lines + 1 /\ s.evidence = dir.stages[i].evidence
      /\ s.failure = dir.stages[i].failure
  BY <1>1, <1>2 DEF StageDir
<1>4. /\ new.completed = dir.completed /\ new.stages[i] = s
      /\ \A j \in Stages : j # i => new.stages[j] = dir.stages[j]
  BY <1>1, <1>2 DEF RunDir
<1>5. QED BY <1>3, <1>4

\* The same of what a call writes in the directory of the active run.
LEMMA EvidenceIs ==
  ASSUME NEW old \in RunDir, runs[activeRun] = old, NEW i \in Stages, NEW v,
         NEW new, new = InStage(i, "evidence", v)
  PROVE  /\ new.completed = old.completed
         /\ \A j \in Stages : j # i => new.stages[j] = old.stages[j]
         /\ new.stages[i].evidence = v
         /\ new.stages[i].failure = old.stages[i].failure
         /\ new.stages[i].lines = old.stages[i].lines
<1>1. new = [old EXCEPT !.stages[i].evidence = v]
  BY DEF InStage
<1>2. QED BY <1>1, EvidenceSet

LEMMA FailureIs ==
  ASSUME NEW old \in RunDir, runs[activeRun] = old, NEW i \in Stages,
         stageActive, i = completedStages, NEW new, new = StageFailed
  PROVE  /\ new.completed = old.completed
         /\ \A j \in Stages : j # i => new.stages[j] = old.stages[j]
         /\ new.stages[i].evidence = old.stages[i].evidence
         /\ new.stages[i].lines = old.stages[i].lines
<1>1. new = [old EXCEPT !.stages[i].failure = TRUE]
  BY DEF StageFailed, InStage
<1>2. old.stages \in [Stages -> StageDir] /\ old.stages[i] \in StageDir
  BY DEF RunDir
<1>3. PICK s : s = [old.stages[i] EXCEPT !.failure = TRUE]
  OBVIOUS
<1>4. s.evidence = old.stages[i].evidence /\ s.lines = old.stages[i].lines
  BY <1>2, <1>3 DEF StageDir
<1>5. /\ new.completed = old.completed /\ new.stages[i] = s
      /\ \A j \in Stages : j # i => new.stages[j] = old.stages[j]
  BY <1>1, <1>2, <1>3 DEF RunDir
<1>6. QED BY <1>4, <1>5

LEMMA LineIs ==
  ASSUME NEW old \in RunDir, runs[activeRun] = old, NEW i \in Stages,
         NEW new, new = InStage(i, "lines", 1)
  PROVE  /\ new.completed = old.completed
         /\ \A j \in Stages : j # i => new.stages[j] = old.stages[j]
         /\ new.stages[i].lines = old.stages[i].lines + 1
         /\ new.stages[i].evidence = old.stages[i].evidence
         /\ new.stages[i].failure = old.stages[i].failure
<1>1. new = [old EXCEPT !.stages[i].lines = @ + 1]
  BY DEF InStage
<1>2. QED BY <1>1, LineAdded

LEMMA StartStageCallStep ==
  ASSUME OrchIInv, StartStageCall
  PROVE  OrchIInv'
<1>1. /\ edge.step = "start-stage" /\ UNCHANGED serverVars
      /\ hasPublished' = hasPublished /\ published' = published /\ passed' = passed
      /\ StartStage(edge.stage) \/ StartStageFails(edge.stage)
      /\ \/ edge' = Raised(edge)
         \/ StartStage(edge.stage) /\ edge' = To("RESETTING")
  BY DEF StartStageCall, At, NoServer, NoArm, armVars, GoTo, Raise
<1>2. EdgeIInv'
  BY <1>1, Facts, StartStep DEF OrchIInv
<1>3. edge.step \in Opening /\ edge.step \in Active /\ edge.step \in HeldSteps
  BY <1>1, TargetSteps DEF HeldSteps
<1>4. /\ edge.run \in Runs /\ edge.stage \in Stages /\ Trial \in Trials
      /\ activeRun = edge.run /\ completedStages = edge.stage
      /\ runs[edge.run] \in RunDir
      /\ \A i \in Stages : ~runs[edge.run].stages[i].failure
  BY <1>1, <1>3, Facts, OpenRun DEF OrchIInv, StoreFollows
<1> PICK t \in Trials : t = Trial
  BY <1>4
<1>5. CASE UNCHANGED edgeVars /\ edge' = Raised(edge)
  BY <1>1, <1>3, <1>5, ArmTypes, FilesAlone, LocalRaise DEF NoFiles
<1>6. ASSUME NEW e \in {"EMPTY", "ACTIVE"}, CanStart(edge.stage), stageActive' = TRUE,
             WriteRun(activeRun, InStage(edge.stage, "evidence", e)),
             UNCHANGED <<activeRun, completedStages>>,
             edge' = Raised(edge) \/ (e = "ACTIVE" /\ edge' = To("RESETTING"))
      PROVE  OrchIInv'
  <2>1. PICK dir : dir = InStage(edge.stage, "evidence", e)
    OBVIOUS
  <2>2. PICK old \in RunDir : old = runs[activeRun]
    BY <1>4
  <2>3. runs'[edge.run] = dir /\ \A q \in Runs : q # edge.run => runs'[q] = runs[q]
    BY <1>4, <1>6, <2>1, RunWritten DEF OrchIInv, EdgeIInv
  <2>4. /\ dir.completed = runs[edge.run].completed
        /\ \A j \in Stages : j # edge.stage => dir.stages[j] = runs[edge.run].stages[j]
        /\ dir.stages[edge.stage].evidence = e
        /\ dir.stages[edge.stage].failure = runs[edge.run].stages[edge.stage].failure
        /\ dir.stages[edge.stage].lines = runs[edge.run].stages[edge.stage].lines
    BY <1>4, <2>1, <2>2, EvidenceIs
  <2>5. OneStage(edge.run, edge.stage)
    BY <2>3, <2>4 DEF OneStage
  <2>6. t = <<edge.run, edge.stage>>
    BY DEF Trial
  <2>7. /\ StageOf(t)'.evidence = e /\ ~StageOf(t)'.failure /\ Lines(t)' = Lines(t)
        /\ StageOf(t).evidence = "ABSENT"
    BY <1>4, <1>6, <2>3, <2>4, <2>6 DEF StageOf, Lines, CanStart
  <2>8. \A u \in Trials : u # t => StageOf(u)' = StageOf(u) /\ FilesMove(u)
    BY <1>4, <2>5, <2>6, OtherStages
  <2>9. FilesMove(t)
    BY <1>6, <2>7 DEF FilesMove, StageOf, HasCompleted
  <2>10. /\ edge' \in EdgeRec /\ SameRun(edge, edge') /\ edge'.cleanup = edge.cleanup
         /\ \/ edge'.step = "safe-stop" /\ edge'.step \in Cleanup
            \/ edge'.step = "RESETTING" /\ e = "ACTIVE"
    <3>1. CASE edge' = Raised(edge)
      BY <3>1, ArmTypes, RaisedFields DEF SameRest, Cleanup
    <3>2. CASE e = "ACTIVE" /\ edge' = To("RESETTING")
      BY <3>2, StepOf, AllSteps
    <3>3. QED BY <1>6, <3>1, <3>2
  <2>11. Trial' = t /\ edge'.run = edge.run /\ edge'.stage = edge.stage
    BY <2>10 DEF SameRun, Trial
  <2>12. \A c \in late : \A u \in Trials :
           Concerns(c, u) => (edge'.step \in StageSteps => u # Trial')
    BY <2>7, <2>11 DEF OrchIInv, ServerKeeps
  <2>13. StoreFollows'
    <3>1. edge'.step \notin {"begin", "HANDOFF"} /\ edge'.step # "over"
      BY <2>10 DEF Cleanup
    <3>2. edge'.step \in Opening \cup StageSteps => edge'.step = "RESETTING"
      BY <2>10, CleanupFollows, <1>3 DEF Within, Opening, Cleanup
    <3>3. edge'.step \in StageSteps => StageOf(Trial)'.evidence = "ACTIVE"
      <4>1. StageOf(t)' = StageOf(Trial)'
        BY <2>11 DEF StageOf
      <4>2. QED BY <2>7, <2>10, <3>2, <4>1
    <3>4. QED BY <1>4, <1>6, <2>11, <3>1, <3>2, <3>3 DEF StoreFollows, At
  <2>14. NoFailureYet'
    <3>1. \A i \in Stages : ~runs'[edge.run].stages[i].failure
      BY <1>4, <2>3, <2>4
    <3>2. \A u \in Trials : StageOf(u)'.evidence = "ABSENT" => ~StageOf(u)'.failure
      BY <2>7, <2>8 DEF OrchIInv, NoFailureYet
    <3>3. runs'[activeRun'].stages[completedStages'].evidence # "ABSENT"
      BY <1>4, <1>6, <2>3, <2>4
    <3>4. QED BY <2>11, <3>1, <3>2, <3>3 DEF NoFailureYet
  <2>15. FailedStageNotCounted'
    <3>1. ASSUME NEW r \in Runs, NEW i \in Stages, runs'[r].stages[i].failure
          PROVE  runs'[r].completed <= i
      <4>1. r # edge.run
        BY <1>4, <2>3, <2>4, <3>1
      <4>2. QED BY <2>3, <3>1, <4>1 DEF OrchIInv, FailedStageNotCounted
    <3>2. QED BY <3>1 DEF FailedStageNotCounted
  <2>16. HeldInStep'
    BY <1>1, <1>3, <2>10, HeldOn
  <2>17. StageInStep' /\ OwnTrialOrNone'
    <3>1. CASE edge'.step \notin StageSteps
      BY <3>1, OutsideStage
    <3>2. CASE edge'.step \in StageSteps
      <4>1. edge'.step \in Unbegun
        BY <2>10, <3>2, TargetSteps, <1>3, CleanupFollows
      <4>2. Even(t) /\ Lines(t) = 0 /\ trials[t].verdict = "unused"
        BY <2>7 DEF OrchIInv, ServerKeeps
      <4>3. Even(t)' /\ Lines(t)' = 0 /\ trials'[t].verdict = "unused"
        BY <1>1, <2>7, <4>2 DEF Even, Recorded, serverVars
      <4>4. QED BY <2>11, <3>2, <4>1, <4>3, PhaseReached
    <3>3. QED BY <3>1, <3>2
  <2>18. \A u \in Trials : FilesMove(u)
    BY <2>8, <2>9
  <2>19. QED
    BY <1>1, <1>2, <2>10, <2>12, <2>13, <2>14, <2>15, <2>16, <2>17, <2>18, WroteStage
<1>7. QED
  <2>1. CASE StartStage(edge.stage)
    <3>1. /\ CanStart(edge.stage) /\ stageActive' = TRUE
          /\ WriteRun(activeRun, InStage(edge.stage, "evidence", "ACTIVE"))
          /\ UNCHANGED <<activeRun, completedStages>>
      BY <2>1 DEF StartStage
    <3>2. QED BY <1>1, <1>6, <3>1
  <2>2. CASE StartStageFails(edge.stage) /\ edge' = Raised(edge)
    BY <1>5, <1>6, <2>2 DEF StartStageFails
  <2>3. QED BY <1>1, <2>1, <2>2

LEMMA CompleteStageCallStep ==
  ASSUME OrchIInv, CompleteStageCall
  PROVE  OrchIInv'
<1>1. PICK e \in StageEvidence :
        /\ edge.step = "complete-stage" /\ UNCHANGED serverVars
        /\ hasPublished' = hasPublished /\ published' = published /\ passed' = passed
        /\ CompleteStage(e) \/ CompleteStageFails(e)
        /\ edge' = Raised(edge) \/ (CompleteStage(e) /\ edge' = To("HANDOFF"))
  <2>1. PICK e : e = [joint_gate   |-> "PASSED",
                      checker      |-> IF edge.stage \in Checked THEN "PASSED"
                                       ELSE "NOT_REQUIRED",
                      server_audit |-> "PASSED", edge_audit |-> "PASSED"]
    OBVIOUS
  <2>2. e \in StageEvidence
    BY <2>1 DEF StageEvidence
  <2>3. QED BY <2>1, <2>2 DEF CompleteStageCall, At, NoServer, NoArm, armVars, GoTo, Raise
<1>2. EdgeIInv'
  BY <1>1, CompleteStageStep DEF OrchIInv
<1>3. /\ edge.step \in Judged /\ edge.step \in StageSteps /\ edge.step \in Active
      /\ edge.step \in HeldSteps
  BY <1>1, CallSteps DEF HeldSteps
<1>4. /\ edge.run \in Runs /\ edge.stage \in Stages /\ Trial \in Trials
      /\ activeRun = edge.run /\ completedStages = edge.stage
      /\ runs[edge.run] \in RunDir
      /\ \A i \in Stages : ~runs[edge.run].stages[i].failure
  <2>1. activeRun = edge.run /\ completedStages = edge.stage
    BY <1>3 DEF OrchIInv, StoreFollows
  <2>2. edge.run \in Runs /\ runs[edge.run] \in RunDir
        /\ \A i \in Stages : ~runs[edge.run].stages[i].failure
    BY <1>3, <2>1, OpenRun
  <2>3. QED BY <1>1, <2>1, <2>2, Facts
<1> PICK t \in Trials : t = Trial
  BY <1>4
<1>5. Earned(t)
  <2>1. t[2] = edge.stage
    BY DEF Trial
  <2>2. QED BY <1>1, <1>3, <2>1 DEF OrchIInv, StageInStep, Earned, At
<1>6. CASE UNCHANGED edgeVars /\ edge' = Raised(edge)
  BY <1>1, <1>3, <1>6, ArmTypes, FilesAlone, LocalRaise DEF NoFiles
<1>7. ASSUME NEW dir, WriteRun(activeRun, dir), dir = StageCompleted \/ dir = HandedOff,
             activeRun' = activeRun,
             \/ completedStages' = completedStages + 1 /\ ~stageActive'
             \/ completedStages' = completedStages /\ edge' = Raised(edge),
             edge' = Raised(edge) \/ edge' = To("HANDOFF")
      PROVE  OrchIInv'
  <2>1. runs'[edge.run] = dir /\ \A q \in Runs : q # edge.run => runs'[q] = runs[q]
    BY <1>4, <1>7, RunWritten DEF OrchIInv, EdgeIInv
  <2>2. PICK old \in RunDir : old = runs[activeRun]
    BY <1>4
  <2>3. PICK new : new = StageCompleted
    OBVIOUS
  <2>4. /\ \A j \in Stages : j # edge.stage => new.stages[j] = old.stages[j]
        /\ new.stages[edge.stage].evidence = "COMPLETED"
        /\ new.stages[edge.stage].failure = old.stages[edge.stage].failure
        /\ new.stages[edge.stage].lines = old.stages[edge.stage].lines
    <3>1. new = InStage(edge.stage, "evidence", "COMPLETED")
      BY <1>4, <2>3 DEF StageCompleted
    <3>2. QED BY <1>4, <2>2, <3>1, EvidenceIs
  <2>5. dir.stages = new.stages
    <3>1. HandedOff.stages = new.stages
      <4>1. new = [old EXCEPT !.stages[edge.stage].evidence = "COMPLETED"]
        BY <1>4, <2>2, <2>3 DEF StageCompleted, InStage
      <4>2. QED BY <2>3, <4>1 DEF HandedOff, Manifest, RunDir
    <3>2. QED BY <1>7, <2>3, <3>1
  <2>6. OneStage(edge.run, edge.stage)
    BY <1>4, <2>1, <2>2, <2>4, <2>5 DEF OneStage
  <2>7. t = <<edge.run, edge.stage>>
    BY DEF Trial
  <2>8. /\ StageOf(t)'.evidence = "COMPLETED" /\ ~StageOf(t)'.failure
        /\ Lines(t)' = Lines(t)
    BY <1>4, <2>1, <2>2, <2>4, <2>5, <2>7 DEF StageOf, Lines
  <2>9. \A u \in Trials : u # t => StageOf(u)' = StageOf(u) /\ FilesMove(u)
    BY <1>4, <2>6, <2>7, OtherStages
  <2>10. \A u \in Trials : FilesMove(u)
    BY <1>5, <2>8, <2>9 DEF FilesMove
  <2>11. /\ edge' \in EdgeRec /\ SameRun(edge, edge') /\ edge'.cleanup = edge.cleanup
         /\ \/ edge'.step = "safe-stop"
            \/ edge'.step = "HANDOFF" /\ completedStages' = completedStages + 1
    <3>1. CASE edge' = Raised(edge)
      BY <3>1, ArmTypes, RaisedFields DEF SameRest
    <3>2. CASE edge' = To("HANDOFF")
      <4>1. edge' # Raised(edge)
        <5>1. Raised(edge).step = "safe-stop"
          BY ArmTypes, RaisedFields
        <5>2. edge'.step = "HANDOFF"
          BY <3>2, StepOf, AllSteps
        <5>3. QED BY <5>1, <5>2
      <4>2. QED BY <1>7, <3>2, <4>1, StepOf, AllSteps
    <3>3. QED BY <1>7, <3>1, <3>2
  <2>12. /\ edge'.step \notin StageSteps /\ edge'.step \notin Opening
         /\ edge'.step # "over" /\ edge'.step # "begin"
    BY <2>11, TargetSteps DEF StageSteps, Unbegun, Underway, Asking, Acting, Resting, Judged,
                              Opening
  <2>13. edge'.run = edge.run /\ edge'.stage = edge.stage
    BY <2>11 DEF SameRun
  <2>14. StoreFollows'
    BY <1>4, <1>7, <2>11, <2>12, <2>13 DEF StoreFollows, At
  <2>15. \A i \in Stages : ~runs'[edge.run].stages[i].failure
    BY <1>4, <2>1, <2>2, <2>4, <2>5
  <2>16. NoFailureYet'
    <3>1. \A u \in Trials : StageOf(u)'.evidence = "ABSENT" => ~StageOf(u)'.failure
      BY <2>8, <2>9 DEF OrchIInv, NoFailureYet
    <3>2. stageActive' => runs'[activeRun'].stages[completedStages'].evidence # "ABSENT"
      BY <1>4, <1>7, <2>1, <2>4, <2>5
    <3>3. QED BY <2>13, <2>15, <3>1, <3>2 DEF NoFailureYet
  <2>17. FailedStageNotCounted'
    <3>1. ASSUME NEW r \in Runs, NEW i \in Stages, runs'[r].stages[i].failure
          PROVE  runs'[r].completed <= i
      <4>1. r # edge.run
        BY <2>15, <3>1
      <4>2. QED BY <2>1, <3>1, <4>1 DEF OrchIInv, FailedStageNotCounted
    <3>2. QED BY <3>1 DEF FailedStageNotCounted
  <2>18. HeldInStep'
    BY <1>1, <1>3, <2>11, HeldOn
  <2>19. StageInStep' /\ OwnTrialOrNone'
    BY <2>12, OutsideStage
  <2>20. QED
    BY <1>1, <1>2, <2>10, <2>11, <2>12, <2>14, <2>16, <2>17, <2>18, <2>19, WroteStage
<1>8. QED
  <2>1. CASE CompleteStage(e)
    BY <1>1, <1>7, <2>1 DEF CompleteStage, CountStage
  <2>2. CASE CompleteStageFails(e) /\ edge' = Raised(edge)
    <3>1. CASE UNCHANGED edgeVars
      BY <1>6, <2>2, <3>1
    <3>2. CASE WriteRun(activeRun, StageCompleted) /\ Fields
      BY <1>7, <2>2, <3>2 DEF Fields
    <3>3. CASE /\ CountStage /\ activeRun' = activeRun
               /\ WriteRun(activeRun, StageCompleted) \/ WriteRun(activeRun, HandedOff)
      BY <1>7, <2>2, <3>3 DEF CountStage
    <3>4. QED BY <2>2, <3>1, <3>2, <3>3 DEF CompleteStageFails
  <2>3. QED BY <1>1, <2>1, <2>2

LEMMA FailRunStep ==
  ASSUME OrchIInv, FailRun
  PROVE  OrchIInv'
<1>1. /\ edge.step = "fail" /\ UNCHANGED serverVars
      /\ hasPublished' = hasPublished /\ published' = published /\ passed' = passed
      /\ EdgeFail(FinalState) \/ EdgeFailFails(FinalState)
      /\ edge' = [To("over") EXCEPT !.pipeline = FinalState]
  BY DEF FailRun, At, NoServer, NoArm, armVars
<1>2. FinalState \in PipelineStates
  BY ArmTypes DEF FinalState, EdgeRec, PipelineStates
<1>3. EdgeIInv'
  BY <1>1, <1>2, FailStep DEF OrchIInv
<1>4. edge.step \in Active /\ edge.step \in HeldSteps
  BY <1>1 DEF Active, Cleanup, HeldSteps
<1>5. edge' \in EdgeRec /\ edge'.step = "over" /\ edge'.cleanup = edge.cleanup
  <2>1. PICK a : a = To("over")
    OBVIOUS
  <2>2. a \in EdgeRec /\ a.step = "over" /\ SameRest(edge, a)
    BY <2>1, ArmTypes, AllSteps, Stepped DEF To
  <2>3. edge' = [a EXCEPT !.pipeline = FinalState]
    BY <1>1, <2>1
  <2>4. edge' \in EdgeRec /\ edge'.step = a.step /\ SameRest(a, edge')
    BY <1>2, <2>2, <2>3, PipelineSet
  <2>5. QED BY <2>2, <2>4 DEF SameRest
<1>6. /\ edge'.step \notin StageSteps /\ edge'.step \notin Active
      /\ edge'.step \notin Opening \cup StageSteps
  BY <1>5 DEF StageSteps, Unbegun, Underway, Asking, Acting, Resting, Judged, Opening, Active,
              Closing, Cleanup
<1>7. StoreFollows'
  BY <1>5, <1>6 DEF StoreFollows, At
<1>8. HeldInStep'
  BY <1>1, <1>4, <1>5, HeldOn
<1>9. StageInStep' /\ OwnTrialOrNone'
  BY <1>6, OutsideStage
<1>10. /\ activeRun \in Runs /\ runs[activeRun] \in RunDir /\ completedStages \in 0 .. NumStages
       /\ \A i \in Stages : ~runs[activeRun].stages[i].failure
       /\ runs[activeRun].completed <= completedStages
       /\ stageActive => /\ completedStages \in Stages
                         /\ runs[activeRun].stages[completedStages].evidence # "ABSENT"
  BY <1>4, OpenRun DEF OrchIInv, EdgeIInv, HeldInOrder, NoFailureYet
<1>11. /\ ~stageActive' \/ Fields
       /\ \/ runs' = runs
          \/ WriteRun(activeRun, StageFailed)
          \/ WriteRun(activeRun, RunFailed(FinalState))
  BY <1>1 DEF EdgeFail, EdgeFailFails, Released, Fields, edgeVars
<1>12. /\ stageActive' => UNCHANGED <<activeRun, completedStages, stageActive>>
       /\ \A q \in Runs : q # activeRun => runs'[q] = runs[q]
       /\ \A i \in Stages : /\ runs'[activeRun].stages[i].evidence = runs[activeRun].stages[i].evidence
                            /\ runs'[activeRun].stages[i].lines = runs[activeRun].stages[i].lines
                            /\ runs'[activeRun].stages[i].failure =>
                                  stageActive /\ i = completedStages
       /\ runs'[activeRun].completed <= completedStages
  <2>1. CASE runs' = runs
    BY <1>10, <1>11, <2>1 DEF Fields
  <2>2. ASSUME NEW dir, WriteRun(activeRun, dir),
               dir = StageFailed \/ dir = RunFailed(FinalState)
        PROVE  /\ \A q \in Runs : q # activeRun => runs'[q] = runs[q]
               /\ \A i \in Stages :
                     /\ runs'[activeRun].stages[i].evidence = runs[activeRun].stages[i].evidence
                     /\ runs'[activeRun].stages[i].lines = runs[activeRun].stages[i].lines
                     /\ runs'[activeRun].stages[i].failure => stageActive /\ i = completedStages
               /\ runs'[activeRun].completed <= completedStages
    <3>1. runs'[activeRun] = dir /\ \A q \in Runs : q # activeRun => runs'[q] = runs[q]
      BY <1>10, <2>2, RunWritten DEF OrchIInv, EdgeIInv
    <3>2. PICK old \in RunDir : old = runs[activeRun]
      BY <1>10
    <3>3. PICK new : new = StageFailed
      OBVIOUS
    <3>4. /\ new.completed = old.completed
          /\ \A i \in Stages : /\ new.stages[i].evidence = old.stages[i].evidence
                               /\ new.stages[i].lines = old.stages[i].lines
                               /\ new.stages[i].failure => stageActive /\ i = completedStages
      <4>1. CASE stageActive
        <5>1. completedStages \in Stages
          BY <1>10, <4>1
        <5>2. PICK i \in Stages : i = completedStages
          BY <5>1
        <5>3. /\ new.completed = old.completed
              /\ \A j \in Stages : j # i => new.stages[j] = old.stages[j]
              /\ new.stages[i].evidence = old.stages[i].evidence
              /\ new.stages[i].lines = old.stages[i].lines
          BY <3>2, <3>3, <4>1, <5>2, FailureIs
        <5>4. QED BY <1>10, <3>2, <4>1, <5>2, <5>3
      <4>2. CASE ~stageActive
        BY <1>10, <3>2, <3>3, <4>2 DEF StageFailed
      <4>3. QED BY <4>1, <4>2
    <3>5. dir.stages = new.stages /\ dir.completed \in {new.completed, completedStages}
      <4>1. new \in RunDir
        <5>1. CASE stageActive
          <6>1. new = [old EXCEPT !.stages[completedStages].failure = TRUE]
            BY <3>2, <3>3, <5>1 DEF StageFailed, InStage
          <6>2. RunInOrder(old) /\ HeldInOrder(old, completedStages)
            BY <1>10, <3>2, Held, EdgeAuditAssumption DEF OrchIInv
          <6>3. QED BY <1>10, <5>1, <6>1, <6>2, OtherFilesInOrder
        <5>2. CASE ~stageActive
          BY <3>2, <3>3, <5>2 DEF StageFailed
        <5>3. QED BY <5>1, <5>2
      <4>2. CASE dir = StageFailed
        BY <3>3, <4>2
      <4>3. CASE dir = RunFailed(FinalState)
        BY <3>3, <4>1, <4>3, ManifestFields DEF RunFailed
      <4>4. QED BY <2>2, <4>2, <4>3
    <3>6. dir.completed <= completedStages
      BY <1>10, <3>2, <3>4, <3>5
    <3>7. QED BY <3>1, <3>2, <3>4, <3>5, <3>6
  <2>3. stageActive' => UNCHANGED <<activeRun, completedStages, stageActive>>
    BY <1>11 DEF Fields
  <2>4. QED BY <1>11, <2>1, <2>2, <2>3
<1>13. ASSUME NEW u \in Trials
       PROVE  /\ FilesMove(u)
              /\ StageOf(u)'.evidence = "ABSENT" => ~StageOf(u)'.failure
  <2>1. u[1] \in Runs /\ u[2] \in Stages
    BY Facts
  <2>2. CASE u[1] # activeRun
    BY <1>12, <2>1, <2>2 DEF OrchIInv, NoFailureYet, StageOf, FilesMove, Lines, HasCompleted
  <2>3. CASE u[1] = activeRun
    BY <1>10, <1>12, <2>1, <2>3 DEF StageOf, FilesMove, Lines, HasCompleted
  <2>4. QED BY <2>2, <2>3
<1>14. NoFailureYet'
  <2>1. stageActive' => runs'[activeRun'].stages[completedStages'].evidence # "ABSENT"
    BY <1>10, <1>12
  <2>2. QED BY <1>6, <1>13, <2>1 DEF NoFailureYet
<1>15. FailedStageNotCounted'
  <2>1. ASSUME NEW r \in Runs, NEW i \in Stages, runs'[r].stages[i].failure
        PROVE  runs'[r].completed <= i
    <3>1. CASE r = activeRun
      BY <1>12, <2>1, <3>1
    <3>2. CASE r # activeRun
      BY <1>12, <2>1, <3>2 DEF OrchIInv, FailedStageNotCounted
    <3>3. QED BY <3>1, <3>2
  <2>2. QED BY <2>1 DEF FailedStageNotCounted
<1>16. QED
  BY <1>1, <1>3, <1>5, <1>6, <1>7, <1>8, <1>9, <1>13, <1>14, <1>15, WroteStage

LEMMA RecordCallStep ==
  ASSUME OrchIInv, Record
  PROVE  OrchIInv'
<1>1. /\ edge.step = "record" /\ UNCHANGED serverVars
      /\ hasPublished' = hasPublished /\ published' = published /\ passed' = passed
      /\ \/ UNCHANGED edgeVars /\ edge' = Raised(edge)
         \/ /\ RecordRollout
            /\ \/ edge' = Raised(edge)
               \/ edge.result = "rest" /\ edge' = To("stop")
               \/ /\ edge.sequence + 1 < MaxChunks
                  /\ edge' = [To("infer") EXCEPT !.sequence = @ + 1]
  BY DEF Record, RecordRolloutFails, Fields, edgeVars, GateHolds, At, NoServer, NoArm, armVars,
         GoTo, Raise
<1>2. /\ edge.step \in Acting /\ edge.step \in StageSteps /\ edge.step \in Active
      /\ edge.step \in Underway
  BY <1>1, CallSteps DEF Acting
<1>3. /\ edge.run \in Runs /\ edge.stage \in Stages /\ Trial \in Trials
      /\ activeRun = edge.run /\ completedStages = edge.stage
      /\ runs[edge.run] \in RunDir
      /\ \A i \in Stages : ~runs[edge.run].stages[i].failure
  <2>1. activeRun = edge.run /\ completedStages = edge.stage
    BY <1>2 DEF OrchIInv, StoreFollows
  <2>2. edge.run \in Runs /\ runs[edge.run] \in RunDir
        /\ \A i \in Stages : ~runs[edge.run].stages[i].failure
    BY <1>2, <2>1, OpenRun
  <2>3. QED BY <1>1, <2>1, <2>2, Facts
<1> PICK t \in Trials : t = Trial
  BY <1>3
<1>4. /\ published[t] = Lines(t) + 1 /\ Recorded(t) = Lines(t) + 1
      /\ edge.session \in Sessions /\ StageOf(t).evidence = "ACTIVE"
      /\ edge.result = "rest" => "joint_gate" \in passed[t]
      /\ \A c \in late : ~Concerns(c, t)
  BY <1>1, <1>2 DEF OrchIInv, StageInStep, StoreFollows, ServerKeeps, At
<1>5. CASE UNCHANGED edgeVars /\ edge' = Raised(edge)
  BY <1>1, <1>2, <1>5, ArmTypes, FilesAlone, LocalRaise DEF NoFiles
<1>6. CASE /\ RecordRollout
           /\ \/ edge' = Raised(edge)
              \/ edge.result = "rest" /\ edge' = To("stop")
              \/ /\ edge.sequence + 1 < MaxChunks
                 /\ edge' = [To("infer") EXCEPT !.sequence = @ + 1]
  <2>1. PICK dir : dir = InStage(completedStages, "lines", 1)
    OBVIOUS
  <2>2. WriteRun(activeRun, dir) /\ UNCHANGED <<activeRun, completedStages, stageActive>>
    BY <1>6, <2>1 DEF RecordRollout, Fields
  <2>3. runs'[edge.run] = dir /\ \A q \in Runs : q # edge.run => runs'[q] = runs[q]
    BY <1>3, <2>2, RunWritten DEF OrchIInv, EdgeIInv
  <2>4. PICK old \in RunDir : old = runs[activeRun]
    BY <1>3
  <2>5. /\ dir.completed = old.completed
        /\ \A j \in Stages : j # edge.stage => dir.stages[j] = old.stages[j]
        /\ dir.stages[edge.stage].lines = old.stages[edge.stage].lines + 1
        /\ dir.stages[edge.stage].evidence = old.stages[edge.stage].evidence
        /\ dir.stages[edge.stage].failure = old.stages[edge.stage].failure
    BY <1>3, <2>1, <2>4, LineIs
  <2>6. OneStage(edge.run, edge.stage)
    BY <1>3, <2>3, <2>4, <2>5 DEF OneStage
  <2>7. t = <<edge.run, edge.stage>>
    BY DEF Trial
  <2>8. /\ StageOf(t)'.evidence = "ACTIVE" /\ ~StageOf(t)'.failure
        /\ Lines(t)' = Lines(t) + 1
    BY <1>3, <1>4, <2>3, <2>4, <2>5, <2>7 DEF StageOf, Lines
  <2>9. \A u \in Trials : u # t => StageOf(u)' = StageOf(u) /\ FilesMove(u)
    BY <1>3, <2>6, <2>7, OtherStages
  <2>10. FilesMove(t)
    BY <1>4, <2>8 DEF FilesMove, StageOf, HasCompleted
  <2>11. EdgeIInv'
    BY <1>6, RecordStep DEF OrchIInv
  <2>12. /\ edge' \in EdgeRec /\ SameRun(edge, edge') /\ edge'.session = edge.session
         /\ \/ edge'.step = "safe-stop"
            \/ edge'.step = "stop" /\ edge.result = "rest"
            \/ edge'.step = "infer"
    <3>1. CASE edge' = Raised(edge)
      BY <3>1, ArmTypes, RaisedFields DEF SameRest
    <3>2. CASE edge.result = "rest" /\ edge' = To("stop")
      BY <3>2, StepOf, AllSteps
    <3>3. CASE /\ edge.sequence + 1 < MaxChunks
               /\ edge' = [To("infer") EXCEPT !.sequence = @ + 1]
      <4>1. PICK e : e = To("infer")
        OBVIOUS
      <4>2. /\ e \in EdgeRec /\ e.step = "infer" /\ SameRest(edge, e)
            /\ e.session = edge.session
        BY <4>1, ArmTypes, AllSteps, Stepped DEF To
      <4>3. e.sequence = edge.sequence /\ edge.sequence \in 0 .. MaxChunks - 1
        BY <4>1, ArmTypes DEF To, EdgeRec
      <4>4. PICK n \in 0 .. MaxChunks - 1 : n = e.sequence + 1
        BY <3>3, <4>3, OrchestratorAssumption
      <4>5. edge' = [e EXCEPT !.sequence = n]
        BY <3>3, <4>1, <4>4
      <4>6. /\ edge' \in EdgeRec /\ edge'.step = e.step /\ SameRest(e, edge')
            /\ edge'.session = e.session
        BY <4>2, <4>5, SequenceSet
      <4>7. QED BY <4>2, <4>6 DEF SameRest, SameRun
    <3>4. QED BY <1>6, <3>1, <3>2, <3>3
  <2>13. Trial' = t /\ edge'.run = edge.run /\ edge'.stage = edge.stage
    BY <2>12 DEF SameRun, Trial
  <2>14. \A c \in late : \A u \in Trials :
           Concerns(c, u) => (edge'.step \in StageSteps => u # Trial')
    BY <1>4, <2>13
  <2>15. edge'.step \notin {"over", "begin", "HANDOFF"} /\ edge'.step \notin HeldSteps
    BY <2>12 DEF HeldSteps, Opening, Judged, Closing
  <2>16. StoreFollows'
    <3>1. StageOf(Trial)'.evidence = "ACTIVE"
      <4>1. StageOf(t)' = StageOf(Trial)'
        BY <2>13 DEF StageOf
      <4>2. QED BY <2>8, <4>1
    <3>2. QED BY <1>3, <2>2, <2>13, <2>15, <3>1 DEF StoreFollows, At
  <2>17. \A i \in Stages : ~runs'[edge.run].stages[i].failure
    BY <1>3, <2>3, <2>4, <2>5
  <2>18. NoFailureYet'
    <3>1. \A u \in Trials : StageOf(u)'.evidence = "ABSENT" => ~StageOf(u)'.failure
      BY <2>8, <2>9 DEF OrchIInv, NoFailureYet
    <3>2. stageActive' => runs'[activeRun'].stages[completedStages'].evidence # "ABSENT"
      BY <1>3, <2>2, <2>3, <2>4, <2>5 DEF OrchIInv, NoFailureYet
    <3>3. QED BY <2>13, <2>17, <3>1, <3>2 DEF NoFailureYet
  <2>19. FailedStageNotCounted'
    <3>1. ASSUME NEW r \in Runs, NEW i \in Stages, runs'[r].stages[i].failure
          PROVE  runs'[r].completed <= i
      <4>1. r # edge.run
        BY <2>17, <3>1
      <4>2. QED BY <2>3, <3>1, <4>1 DEF OrchIInv, FailedStageNotCounted
    <3>2. QED BY <3>1 DEF FailedStageNotCounted
  <2>20. HeldInStep'
    BY <2>15 DEF HeldInStep
  <2>21. StageInStep' /\ OwnTrialOrNone'
    <3>1. CASE edge'.step = "safe-stop"
      BY <3>1, OutsideStage DEF StageSteps, Unbegun, Underway, Asking, Acting, Resting, Judged
    <3>2. CASE edge'.step \in {"stop", "infer"}
      <4>1. Even(t)' /\ Lines(t)' > 0 /\ passed' = passed
        <5>1. Recorded(t)' = Recorded(t)
          BY <1>1 DEF Recorded, serverVars
        <5>2. Even(t)'
          BY <1>1, <1>4, <2>8, <5>1 DEF Even
        <5>3. Lines(t) \in Nat
          BY Facts
        <5>4. QED BY <1>1, <2>8, <5>2, <5>3
      <4>2. OwnTrialOrNone'
        BY <1>1, <1>2, <2>12, OwnTrialKept DEF serverVars
      <4>3. edge'.session \in Sessions
        BY <1>4, <2>12
      <4>4. CASE edge'.step = "stop"
        <5>1. /\ edge'.step \in Resting /\ edge'.step \in StageSteps
              /\ "joint_gate" \in passed'[t]
          BY <1>4, <2>12, <4>1, <4>4, CallSteps
        <5>2. QED BY <2>13, <4>1, <4>2, <4>3, <5>1, PhaseReached
      <4>5. CASE edge'.step = "infer"
        <5>1. edge'.step \in Asking /\ edge'.step \in StageSteps
          BY <4>5, CallSteps
        <5>2. QED BY <2>13, <4>1, <4>2, <4>3, <5>1, PhaseReached
      <4>6. QED BY <3>2, <4>4, <4>5
    <3>3. QED BY <2>12, <3>1, <3>2
  <2>22. \A u \in Trials : FilesMove(u)
    BY <2>9, <2>10
  <2>23. QED
    BY <1>1, <2>11, <2>12, <2>14, <2>16, <2>18, <2>19, <2>20, <2>21, <2>22, WroteStage
<1>7. QED BY <1>1, <1>5, <1>6

-----------------------------------------------------------------------------
\* The invariant.
LEMMA FirstProcess ==
  ASSUME OrchInit
  PROVE  edge \in EdgeRec /\ edge.step = "over" /\ edge.cleanup = {}
<1>1. 0 \in Stages /\ 0 \in 0 .. MaxChunks - 1 /\ 0 \in 0 .. MaxInstances
  BY EdgeAuditAssumption, OrchestratorAssumption DEF Stages
<1>2. "over" \in Steps /\ "CREATED" \in PipelineStates
  BY AllSteps DEF PipelineStates
<1>3. edge = [run |-> NoRun, step |-> "over", pipeline |-> "CREATED", stage |-> 0,
              sequence |-> 0, result |-> "none", session |-> NoSession,
              trialStarted |-> FALSE, server |-> 0, cleanup |-> {}]
  BY DEF OrchInit, NewProcess
<1>4. QED BY <1>1, <1>2, <1>3 DEF EdgeRec

LEMMA OrchInitIInv ==
  ASSUME OrchInit
  PROVE  OrchIInv
<1>1. EdgeIInv
  BY EdgeInitIInv DEF OrchInit
<1>2. edge \in EdgeRec /\ edge.step = "over"
  BY FirstProcess
<1>3. /\ service = [state |-> "STARTING", skill |-> NoSkill, trial |-> NoTrial,
                    session |-> NoSession, instance |-> 1]
      /\ opened = {} /\ late = {} /\ published = [t \in Trials |-> 0]
      /\ trials = [t \in Trials |-> [verdict |-> "unused", skill |-> NoSkill, recorded |-> 0]]
      /\ passed = [t \in Trials |-> {}] /\ hasPublished = FALSE
      /\ stageActive = FALSE /\ runs = [r \in Runs |-> NoRunDir]
  BY DEF OrchInit, EdgeInit, Server!ServiceInit, Server!Started
<1>4. Server!ServiceTypeOK
  BY <1>3 DEF Server!ServiceTypeOK, Server!Verdicts
<1>5. OrchTypeOK
  BY <1>1, <1>2, <1>3, <1>4, EdgeRecIs DEF OrchTypeOK, EdgeIInv
<1>6. ASSUME NEW t \in Trials
      PROVE  /\ StageOf(t).evidence = "ABSENT" /\ ~StageOf(t).failure /\ Lines(t) = 0
             /\ published[t] = 0 /\ Recorded(t) = 0 /\ trials[t].verdict = "unused"
             /\ trials[t].recorded = 0
  <2>1. t[1] \in Runs /\ t[2] \in Stages
    BY DEF Trials
  <2>2. runs[t[1]].stages[t[2]] = NoStageDir
    BY <1>3, <2>1 DEF NoRunDir
  <2>3. StageOf(t).evidence = "ABSENT" /\ ~StageOf(t).failure /\ Lines(t) = 0
    BY <2>2 DEF StageOf, Lines, NoStageDir
  <2>4. QED BY <1>3, <2>3 DEF Recorded
<1>7. /\ edge.step \notin Active /\ edge.step \notin StageSteps
      /\ edge.step \notin Opening \cup StageSteps
      /\ ~At("begin") /\ ~At("HANDOFF") /\ ~At("publish") /\ ~At("record")
      /\ ~At("complete-stage")
  BY <1>2 DEF StageSteps, Unbegun, Underway, Asking, Acting, Resting, Judged, Opening, Active,
              Closing, Cleanup, At
<1>8. StoreFollows
  BY <1>2, <1>7 DEF StoreFollows
<1>9. ServerKeeps
  <2>1. service.instance <= MaxInstances
    BY <1>3, OrchestratorAssumption
  <2>2. \A t \in Trials : service.trial # t
    BY <1>3, Ids
  <2>3. QED BY <1>3, <1>6, <2>1, <2>2 DEF ServerKeeps, Even
<1>10. StageInStep /\ OwnTrialOrNone
  BY <1>2, <1>7 DEF StageInStep, OwnTrialOrNone, StageSteps, Unbegun, Underway, Asking, Acting,
                    Resting, Judged
<1>11. HeldInStep
  BY <1>3 DEF HeldInStep
<1>12. NoFailureYet
  BY <1>3, <1>6, <1>7 DEF NoFailureYet
<1>13. CompletedStageIsTrue
  BY <1>6 DEF CompletedStageIsTrue, HasCompleted, StageOf
<1>14. EveryActionAccountedFor
  BY <1>6 DEF EveryActionAccountedFor
<1>15. FailedStageNotCounted
  <2>1. ASSUME NEW r \in Runs, NEW i \in Stages PROVE ~runs[r].stages[i].failure
    <3>1. <<r, i>> \in Trials
      BY DEF Trials
    <3>2. QED BY <1>6, <3>1 DEF StageOf
  <2>2. QED BY <2>1 DEF FailedStageNotCounted
<1>16. QED
  BY <1>1, <1>5, <1>8, <1>9, <1>10, <1>11, <1>12, <1>13, <1>14, <1>15 DEF OrchIInv

LEMMA OrchNextIInv ==
  ASSUME OrchIInv, [OrchNext]_orchVars
  PROVE  OrchIInv'
<1>1. CASE EdgeStep
  <2>1. ASSUME NEW s \in Targets, Transition(s) \/ TransitionRaises(s)
        PROVE  OrchIInv'
    <3>1. CASE s = "HANDOFF" /\ Transition(s)
      BY <3>1, HandoffStep
    <3>2. CASE s # "HANDOFF" /\ Transition(s)
      BY <3>2, TransitionStep
    <3>3. QED BY <2>1, <3>1, <3>2, TransitionRaisesStep
  <2>2. CASE Begin \/ StartStageCall \/ CompleteStageCall \/ CompleteCall
    BY <2>2, BeginCallStep, StartStageCallStep, CompleteStageCallStep, CompleteCallStep
  <2>3. CASE Local("preflight", "start-stage") \/ Local("begin-stage", "ROLLOUT")
    BY <2>3, PreflightStep, BeginStageStep
  <2>4. CASE PrepareSkill \/ BeginTrial \/ OpenSession \/ CloseSession \/ EndTrial \/ Infer
    BY <2>4, PrepareSkillStep, BeginTrialStep, OpenSessionStep, CloseSessionStep, EndTrialStep,
       InferStep
  <2>5. CASE Reset \/ Publish \/ Record \/ StopArm \/ JointGate \/ Checker
    BY <2>5, ResetStep, PublishStep, RecordCallStep, StopArmStep, JointGateStep, CheckerStep
  <2>6. CASE SafeStopArm \/ SafeClose \/ SafeAbort \/ FailRun
    BY <2>6, SafeStopArmStep, SafeCloseStep, SafeAbortStep, FailRunStep
  <2>7. QED BY <1>1, <2>1, <2>2, <2>3, <2>4, <2>5, <2>6 DEF EdgeStep
<1>2. ASSUME NEW r \in Runs, StartRun(r)
      PROVE  OrchIInv'
  BY <1>2, StartRunStep
<1>3. CASE Vanish
  <2>1. late' \subseteq late
    BY <1>3 DEF Vanish
  <2>2. QED BY <1>3, <2>1, IdleStep DEF Vanish
<1>4. CASE UNCHANGED orchVars
  <2>1. /\ NoFiles /\ NoArm /\ edge' = edge /\ UNCHANGED <<service, opened, trials>>
        /\ late' = late
    BY <1>4 DEF orchVars, serverVars, NoFiles, NoArm
  <2>2. late' \subseteq late
    BY <2>1
  <2>3. QED BY <2>1, <2>2, IdleStep
<1>5. QED BY <1>1, <1>2, <1>3, <1>4, DieStep, ArriveStep, MisfortuneStep DEF OrchNext

-----------------------------------------------------------------------------
\* What a run of any length over any number of runs and stages keeps.

\* The inductive invariant: the run's step, the two stores, the server and
\* what is on its way to it agree (PipelineOrchestrator with its clients).
THEOREM OrchestratorInvariantHolds == OrchSpec => []OrchIInv
<1>1. OrchInit => OrchIInv
  BY OrchInitIInv
<1>2. OrchIInv /\ [OrchNext]_orchVars => OrchIInv'
  BY OrchNextIInv
<1>3. QED BY <1>1, <1>2, PTL DEF OrchSpec

\* Every value the edge process, its store and the server keep has its type.
THEOREM OrchAlwaysTyped == OrchSpec => []OrchTypeOK
<1>1. OrchIInv => OrchTypeOK
  BY DEF OrchIInv
<1>2. QED BY <1>1, OrchestratorInvariantHolds, PTL

\* S-013: completed evidence is true, whatever the server did late, lost or
\* half done and wherever the edge stopped (_run_stage, complete_stage).
THEOREM CompletedStageAlwaysTrue == OrchSpec => []CompletedStageIsTrue
<1>1. OrchIInv => CompletedStageIsTrue
  BY DEF OrchIInv
<1>2. QED BY <1>1, OrchestratorInvariantHolds, PTL

\* S-012: the edge's lines, the chunks given to the arm and the server's lines
\* of a trial differ by one at most, the last (_rollout, InferenceClient.infer).
THEOREM EveryActionAlwaysAccountedFor == OrchSpec => []EveryActionAccountedFor
<1>1. OrchIInv => EveryActionAccountedFor
  BY DEF OrchIInv
<1>2. QED BY <1>1, OrchestratorInvariantHolds, PTL

\* S-019: a stage that failed is never counted by its run's manifest, however
\* complete_stage and fail fail themselves.
THEOREM FailedStageNeverCounted == OrchSpec => []FailedStageNotCounted
<1>1. OrchIInv => FailedStageNotCounted
  BY DEF OrchIInv
<1>2. QED BY <1>1, OrchestratorInvariantHolds, PTL

\* S-015: the arm is at rest, or its stop is known to have failed, before any
\* remote cleanup and at the end of every run (_safe_stop).
THEOREM ArmAlwaysHeldFirst == OrchSpec => []ArmHeldFirst
<1>1. OrchIInv => ArmHeldFirst
  BY DEF OrchIInv, HeldInStep, HeldSteps, ArmHeldFirst
<1>2. QED BY <1>1, OrchestratorInvariantHolds, PTL

-----------------------------------------------------------------------------
\* Without late calls: what holds of the skill and of the trials left open.
LEMMA UnstartedSteps ==
  /\ {"safe-stop", "safe-close", "safe-abort"} \cap Unstarted = {}
  /\ "fail" \in Unstarted /\ "begin" \in Unstarted
  /\ Unbegun \subseteq Unstarted /\ Judged \subseteq Unstarted /\ Opening \subseteq Unstarted
  /\ Closing \subseteq Unstarted
  /\ Unstarted \cap Underway = {} /\ Unbegun \cap (Underway \cup Judged) = {}
  /\ (Opening \cup Closing \cup Cleanup) \cap (Underway \cup Judged) = {}
  /\ {"safe-stop", "safe-close", "safe-abort", "fail"} = Cleanup /\ Cleanup \subseteq Active
  /\ "begin-trial" \in Unbegun
  /\ {"over", "died", "begin"} \cap (Active \cup Underway \cup Judged) = {}
  /\ {"over", "died"} \cap Unstarted = {}
  BY DEF Unstarted, Active, Opening, StageSteps, Unbegun, Underway, Asking, Acting, Resting,
         Judged, Closing, Cleanup

\* A step within a run that begins no trial and gives the arm nothing.
LEMMA PromptGoesOn ==
  ASSUME OrchIInv, PromptIInv, late' = {}, published' = published,
         \A t \in Trials : trials'[t].skill = trials[t].skill,
         service'.trial \in {service.trial, NoTrial},
         edge.step \in Active, edge'.step \in Active, edge'.run = edge.run,
         edge.cleanup \subseteq edge'.cleanup,
         edge'.step \in Underway \cup Judged =>
            edge.step \in Underway \cup Judged /\ Trial' = Trial,
         edge'.step \in Unstarted => ~edge'.trialStarted,
         edge.trialStarted => \/ edge'.trialStarted
                              \/ service'.trial = NoTrial
                              \/ "abort_trial" \in edge'.cleanup,
         edge'.step = "begin-trial" => service'.skill = Skill'
  PROVE  PromptIInv'
<1>1. edge'.step # "over" /\ edge'.step # "begin"
  BY CallSteps
<1>2. edge'.step \in Underway \cup Judged => trials'[Trial'].skill = Skill'
  <2>1. ASSUME edge'.step \in Underway \cup Judged
        PROVE  trials'[Trial'].skill = Skill'
    <3>1. edge.step \in Underway \cup Judged /\ Trial' = Trial
      BY <2>1
    <3>2. Trial \in Trials /\ trials[Trial].skill = Skill
      BY <3>1, Facts, CallSteps DEF PromptIInv
    <3>3. Skill' = Skill
      <4>1. edge'.stage = edge.stage
        BY <3>1 DEF Trial
      <4>2. QED BY <4>1 DEF Skill
    <3>4. PICK t \in Trials : t = Trial
      BY <3>2
    <3>5. QED BY <3>1, <3>2, <3>3, <3>4
  <2>2. QED BY <2>1
<1>3. PlannedSkillServed'
  BY DEF PromptIInv, PlannedSkillServed
<1>4. Mine' => Mine /\ service'.trial # NoTrial
  <2>1. ASSUME NEW i \in Stages, service'.trial = <<edge'.run, i>>
        PROVE  service'.trial = service.trial /\ service.trial = <<edge.run, i>>
               /\ service'.trial # NoTrial
    <3>1. edge.run \in Runs
      BY CallSteps, Facts
    <3>2. <<edge.run, i>> \in Trials
      BY <3>1 DEF Trials
    <3>3. service'.trial # NoTrial
      BY <2>1, <3>2, Ids
    <3>4. QED BY <2>1, <3>3
  <2>2. QED BY <2>1 DEF Mine
<1>5. edge'.step \in Active /\ Mine' => edge'.trialStarted \/ "abort_trial" \in edge'.cleanup
  BY <1>4 DEF PromptIInv
<1>6. NothingLeftOnServer'
  BY <1>1 DEF NothingLeftOnServer
<1>7. QED BY <1>1, <1>2, <1>3, <1>5, <1>6 DEF PromptIInv, At

\* A call on the files, the robot, the gate or the checker.
Goes(s, n) ==
    \/ n \in {"safe-stop", "safe-close", "safe-abort"}
    \/ s \in Unstarted /\ n \in Unstarted /\ n # "begin-trial"
       /\ (n \in Judged => s \in Judged)
    \/ s \in Underway /\ n \in Underway

LEMMA PromptLocal ==
  ASSUME OrchIInv, PromptIInv, UNCHANGED serverVars, published' = published,
         edge.step \in Active, edge'.step \in Active, edge'.run = edge.run,
         edge.cleanup \subseteq edge'.cleanup, edge'.trialStarted = edge.trialStarted,
         edge'.step \in StageSteps => edge'.stage = edge.stage,
         Goes(edge.step, edge'.step)
  PROVE  PromptIInv'
<1>1. /\ late' = {} /\ \A t \in Trials : trials'[t].skill = trials[t].skill
      /\ service'.trial \in {service.trial, NoTrial}
  BY DEF serverVars, PromptIInv
<1>2. edge'.step \in Underway \cup Judged =>
         edge.step \in Underway \cup Judged /\ Trial' = Trial
  BY UnstartedSteps, CallSteps DEF Goes, Trial
<1>3. edge'.step \in Unstarted => ~edge'.trialStarted
  BY UnstartedSteps DEF Goes, PromptIInv
<1>4. edge'.step # "begin-trial"
  BY UnstartedSteps DEF Goes
<1>5. QED BY <1>1, <1>2, <1>3, <1>4, PromptGoesOn

LEMMA ToOrRaised ==
  ASSUME OrchIInv, NEW s \in Steps, edge' = To(s) \/ edge' = Raised(edge)
  PROVE  /\ SameRest(edge, edge') /\ edge'.step \in {s, "safe-stop"}
         /\ edge' = To(s) => edge'.step = s
<1>1. CASE edge' = To(s)
  <2>1. /\ edge'.step = s /\ SameRun(edge, edge')
        /\ edge'.cleanup = edge.cleanup /\ edge'.trialStarted = edge.trialStarted
    BY <1>1, StepOf
  <2>2. QED BY <2>1 DEF SameRest
<1>2. CASE edge' = Raised(edge)
  <2>1. edge'.step = "safe-stop" /\ SameRest(edge, edge')
    BY <1>2, ArmTypes, RaisedFields
  <2>2. edge' = To(s) => edge'.step = s
    BY StepOf
  <2>3. QED BY <2>1, <2>2
<1>3. QED BY <1>1, <1>2

\* One step forward, or an exception.
LEMMA PromptTo ==
  ASSUME OrchIInv, PromptIInv, UNCHANGED serverVars, published' = published,
         edge.step \in Active, NEW s \in Steps, s \in Active, Goes(edge.step, s),
         edge' = To(s) \/ edge' = Raised(edge)
  PROVE  PromptIInv'
<1>1. SameRest(edge, edge') /\ edge'.step \in {s, "safe-stop"}
  BY ToOrRaised
<1>2. Goes(edge.step, edge'.step) /\ edge'.step \in Active
  BY <1>1, UnstartedSteps DEF Goes
<1>3. QED BY <1>1, <1>2, PromptLocal DEF SameRest, SameRun

LEMMA StageAndArmPrompt ==
  ASSUME OrchIInv, PromptIInv,
         \/ StartStageCall \/ CompleteStageCall
         \/ Local("preflight", "start-stage") \/ Local("begin-stage", "ROLLOUT")
         \/ Reset \/ StopArm \/ JointGate \/ Checker
  PROVE  PromptIInv'
<1> DEFINE Move(s, n) == /\ edge.step = s /\ UNCHANGED serverVars /\ published' = published
                         /\ edge' = To(n) \/ edge' = Raised(edge)
<1> USE DEF At, NoServer, NoArm, armVars, GoTo, Raise
<1>1. \/ Move("start-stage", "RESETTING") \/ Move("complete-stage", "HANDOFF")
      \/ Move("preflight", "start-stage") \/ Move("begin-stage", "ROLLOUT")
      \/ Move("reset", "PREPARING_POLICY") \/ Move("stop", "close-session")
      \/ Move("joint-gate", "CHECKING") \/ Move("checker", "complete-stage")
  <2>1. CASE StartStageCall \/ CompleteStageCall
    BY <2>1 DEF StartStageCall, CompleteStageCall
  <2>2. CASE Local("preflight", "start-stage") \/ Local("begin-stage", "ROLLOUT")
    BY <2>2 DEF Local
  <2>3. CASE Reset \/ StopArm
    BY <2>3 DEF Reset, StopArm
  <2>4. CASE JointGate \/ Checker
    BY <2>4 DEF JointGate, Checker
  <2>5. QED BY <2>1, <2>2, <2>3, <2>4
<1> HIDE DEF At, NoServer, NoArm, armVars, GoTo, Raise
<1>2. PICK s, n : /\ Move(s, n)
                  /\ <<s, n>> \in {<<"start-stage", "RESETTING">>,
                       <<"complete-stage", "HANDOFF">>, <<"preflight", "start-stage">>,
                       <<"begin-stage", "ROLLOUT">>, <<"reset", "PREPARING_POLICY">>,
                       <<"stop", "close-session">>, <<"joint-gate", "CHECKING">>,
                       <<"checker", "complete-stage">>}
  BY <1>1
<1>3. n \in Steps /\ s \in Active /\ n \in Active /\ Goes(s, n)
  BY <1>2, AllSteps, CallSteps, TargetSteps, UnstartedSteps
  DEF Goes, Opening, Closing
<1>4. QED BY <1>2, <1>3, PromptTo

\* A call that reaches the server at once, or never.
LEMMA PromptEffect ==
  ASSUME OrchIInv, PromptIInv, ~LateCalls, NEW c \in Command,
         Unanswered(c) \/ (Executed(c) /\ late' = late)
  PROVE  /\ late' = {}
         /\ service'.trial \in {service.trial, NoTrial} \cup BeginsOf(c)
         /\ \A t \in Trials : t \notin BeginsOf(c) => trials'[t].skill = trials[t].skill
<1>1. late = {} /\ ServerSound
  BY Facts DEF PromptIInv
<1>2. CASE NoServer
  BY <1>1, <1>2 DEF NoServer, serverVars
<1>3. CASE (Executed(c) \/ ExecutedInPart(c)) /\ late' = late
  <2>1. PICK prepares : prepares = (c.name = "prepare-skill")
    OBVIOUS
  <2>2. ServerStep(BeginsOf(c), InfersOf(c), prepares)
    BY <1>1, <1>3, <2>1, CommandServes
  <2>3. QED BY <1>1, <1>3, <2>2 DEF ServerStep
<1>4. QED BY <1>2, <1>3 DEF Unanswered

\* A call that begins no trial.
LEMMA PromptCall ==
  ASSUME OrchIInv, PromptIInv, ~LateCalls, published' = published,
         NEW c \in Command, BeginsOf(c) = {},
         Unanswered(c) \/ (Executed(c) /\ late' = late),
         edge.step \in Active, edge'.step \in Active, edge'.run = edge.run,
         edge.cleanup \subseteq edge'.cleanup,
         edge'.step \in Underway \cup Judged =>
            edge.step \in Underway \cup Judged /\ Trial' = Trial,
         edge'.step \in Unstarted => ~edge'.trialStarted,
         edge.trialStarted => \/ edge'.trialStarted
                              \/ service'.trial = NoTrial
                              \/ "abort_trial" \in edge'.cleanup,
         edge'.step = "begin-trial" => service'.skill = Skill'
  PROVE  PromptIInv'
<1>1. /\ late' = {} /\ service'.trial \in {service.trial, NoTrial}
      /\ \A t \in Trials : trials'[t].skill = trials[t].skill
  BY PromptEffect
<1>2. QED BY <1>1, PromptGoesOn

\* One that raises: the safe stop is next.
LEMMA PromptCallRaises ==
  ASSUME OrchIInv, PromptIInv, ~LateCalls, NoArm, NEW c \in Command, BeginsOf(c) = {},
         Unanswered(c), edge.step \in Active, edge' = Raised(edge)
  PROVE  PromptIInv'
<1>1. edge'.step = "safe-stop" /\ SameRest(edge, edge')
  BY ArmTypes, RaisedFields
<1>2. /\ edge'.step \in Active /\ edge'.step \notin Underway \cup Judged
      /\ edge'.step \notin Unstarted /\ edge'.step # "begin-trial"
  BY <1>1, UnstartedSteps
<1>3. edge'.run = edge.run /\ edge'.cleanup = edge.cleanup
      /\ edge'.trialStarted = edge.trialStarted
  BY <1>1 DEF SameRest, SameRun
<1>4. QED BY <1>2, <1>3, PromptCall DEF NoArm, armVars

LEMMA PrepareSkillPrompt ==
  ASSUME OrchIInv, PromptIInv, ~LateCalls, PrepareSkill
  PROVE  PromptIInv'
<1> DEFINE c == [name |-> "prepare-skill", skill |-> Skill]
<1>1. /\ edge.step = "prepare-skill" /\ edge.step \in Unbegun /\ edge.step \in Active /\ NoArm
      /\ Answered(c, To("begin-trial")) \/ (Unanswered(c) /\ edge' = Raised(edge))
  BY CallSteps DEF PrepareSkill, ControlCall, At
<1>2. Skill \in Skills
  BY <1>1, Facts, OrchestratorAssumption, CallSteps DEF Skill
<1>3. c \in Command /\ BeginsOf(c) = {} /\ c.name = "prepare-skill" /\ c.skill = Skill
  BY <1>2 DEF Command, BeginsOf
<1> HIDE DEF c
<1>4. CASE Unanswered(c) /\ edge' = Raised(edge)
  BY <1>1, <1>3, <1>4, PromptCallRaises
<1>5. CASE Answered(c, To("begin-trial"))
  <2>1. PICK e : e = To("begin-trial")
    OBVIOUS
  <2>2. e \in EdgeRec /\ e.step = "begin-trial" /\ SameRest(edge, e)
    BY <2>1, ArmTypes, AllSteps, Stepped DEF To
  <2>3. /\ edge'.step = "begin-trial" /\ SameRest(e, edge') /\ Executed(c) /\ late' = late
    BY <1>5, <2>1, <2>2, AnsweredFields
  <2>4. /\ edge'.run = edge.run /\ edge'.stage = edge.stage /\ edge'.cleanup = edge.cleanup
        /\ edge'.trialStarted = edge.trialStarted
    BY <2>2, <2>3 DEF SameRest, SameRun
  <2>5. service'.skill = Skill
    BY <1>2, <1>3, <2>3, PrepareSkillServes, Facts DEF Executed
  <2>6. Skill' = Skill
    BY <2>4 DEF Skill
  <2>7. ~edge.trialStarted
    BY <1>1, UnstartedSteps DEF PromptIInv
  <2>8. edge'.step \in Active /\ edge'.step \notin Underway \cup Judged
    BY <2>3, UnstartedSteps, CallSteps
  <2>9. QED
    BY <1>1, <1>3, <2>3, <2>4, <2>5, <2>6, <2>7, <2>8, PromptCall DEF NoArm, armVars
<1>6. QED BY <1>1, <1>4, <1>5

LEMMA BeginTrialPrompt ==
  ASSUME OrchIInv, PromptIInv, ~LateCalls, BeginTrial
  PROVE  PromptIInv'
<1> DEFINE c == [name |-> "begin-trial", trial |-> Trial]
           begun == [To("open-session") EXCEPT !.trialStarted = TRUE]
<1>1. /\ edge.step = "begin-trial" /\ edge.step \in Unbegun /\ edge.step \in Active
      /\ published' = published
      /\ Answered(c, begun) \/ (Unanswered(c) /\ edge' = Raised(Starting))
  BY CallSteps DEF BeginTrial, ControlCall, At, NoArm, armVars
<1>2. Trial \in Trials /\ edge \in EdgeRec
  BY <1>1, Facts, CallSteps
<1> PICK t \in Trials : t = Trial
  BY <1>2
<1>3. c \in Command /\ c.name = "begin-trial" /\ c.trial = t /\ BeginsOf(c) = {t}
  BY <1>2 DEF Command, BeginsOf
<1> HIDE DEF c
<1>4. /\ edge'.run = edge.run /\ edge'.stage = edge.stage /\ edge'.trialStarted
      /\ \/ edge'.step = "safe-stop" /\ Unanswered(c)
         \/ /\ edge'.step = "open-session" /\ Executed(c) /\ late' = late
            /\ service'.trial = t /\ trials'[t].skill = Skill
  <2>1. CASE Unanswered(c) /\ edge' = Raised(Starting)
    <3>1. /\ Starting \in EdgeRec /\ SameRun(edge, Starting) /\ Starting.trialStarted
      BY <1>2, StartedSet DEF Starting
    <3>2. edge'.step = "safe-stop" /\ SameRest(Starting, edge')
      BY <2>1, <3>1, RaisedFields
    <3>3. QED BY <2>1, <3>1, <3>2 DEF SameRest, SameRun
  <2>2. CASE Answered(c, begun)
    <3>1. /\ begun \in EdgeRec /\ begun.step = "open-session" /\ SameRun(edge, begun)
          /\ begun.trialStarted = TRUE
      <4>1. PICK e : e = To("open-session")
        OBVIOUS
      <4>2. e \in EdgeRec /\ e.step = "open-session" /\ SameRest(edge, e)
        BY <1>2, <4>1, AllSteps, Stepped DEF To
      <4>3. begun = [e EXCEPT !.trialStarted = TRUE]
        BY <4>1
      <4> HIDE DEF begun
      <4>4. QED BY <4>2, <4>3, StartedSet DEF SameRest, SameRun
    <3> HIDE DEF begun
    <3>2. edge'.step = "open-session" /\ SameRest(begun, edge') /\ Executed(c) /\ late' = late
      BY <2>2, <3>1, AnsweredFields
    <3>3. Server!BeginTrial(t)
      BY <1>3, <3>2 DEF Executed
    <3>4. service'.trial = t /\ trials'[t].skill = service.skill /\ service.skill # NoSkill
      BY <3>3, BeginTrialServes, Facts
    <3>5. service.skill = Skill
      BY <1>1, <3>4 DEF PromptIInv, At
    <3>6. QED BY <3>1, <3>2, <3>4, <3>5 DEF SameRest, SameRun
  <2>3. QED BY <1>1, <2>1, <2>2
<1>5. /\ late' = {} /\ service'.trial \in {service.trial, NoTrial, t}
      /\ \A u \in Trials : u # t => trials'[u].skill = trials[u].skill
  BY <1>3, <1>4, PromptEffect
<1>6. published[t] = 0
  <2>1. Even(t) /\ Lines(t) = 0
    BY <1>1 DEF OrchIInv, StageInStep
  <2>2. QED BY <2>1 DEF Even
<1>7. PlannedSkillServed'
  <2>1. ASSUME NEW u \in Trials, published'[u] > 0
        PROVE  trials'[u].skill = Plan[u[1]][u[2]]
    <3>1. u # t
      BY <1>1, <1>6, <2>1
    <3>2. QED BY <1>1, <1>5, <2>1, <3>1 DEF PromptIInv, PlannedSkillServed
  <2>2. QED BY <2>1 DEF PlannedSkillServed
<1>8. edge'.step \in Underway \cup Judged => trials'[Trial'].skill = Skill'
  <2>1. Trial' = t /\ Skill' = Skill
    BY <1>4 DEF Trial, Skill
  <2>2. edge'.step # "safe-stop" => trials'[t].skill = Skill
    BY <1>4
  <2>3. QED BY <2>1, <2>2, UnstartedSteps
<1>9. /\ edge'.step \notin {"over", "begin", "begin-trial"} /\ edge'.step \notin Unstarted
  BY <1>4, UnstartedSteps, CallSteps
<1>10. QED BY <1>4, <1>5, <1>7, <1>8, <1>9 DEF PromptIInv, NothingLeftOnServer, At

\* An answered call of a trial that goes on.
LEMMA PromptAnswered ==
  ASSUME OrchIInv, PromptIInv, ~LateCalls, NoArm, NEW c \in Command, BeginsOf(c) = {},
         Executed(c), late' = late, edge.step \in Underway, edge'.step \in Underway,
         SameRest(edge, edge')
  PROVE  PromptIInv'
<1>1. /\ edge'.run = edge.run /\ edge'.cleanup = edge.cleanup
      /\ edge'.trialStarted = edge.trialStarted /\ Trial' = Trial
  BY DEF SameRest, SameRun, Trial
<1>2. /\ edge.step \in Active /\ edge'.step \in Active /\ edge'.step \notin Unstarted
      /\ edge'.step # "begin-trial"
  BY CallSteps, UnstartedSteps
<1>3. QED BY <1>1, <1>2, PromptCall DEF NoArm, armVars

LEMMA OpenSessionPrompt ==
  ASSUME OrchIInv, PromptIInv, ~LateCalls, OpenSession
  PROVE  PromptIInv'
<1> DEFINE c == [name |-> "open-session"]
           given == [To("READY_TO_ROLLOUT") EXCEPT !.session = service'.session]
<1>1. /\ edge.step = "open-session" /\ edge.step \in Underway /\ edge.step \in Active /\ NoArm
      /\ Answered(c, given) \/ (Unanswered(c) /\ edge' = Raised(edge))
  BY CallSteps DEF OpenSession, At, Raise
<1>2. c \in Command /\ c.name = "open-session" /\ BeginsOf(c) = {}
  BY DEF Command, BeginsOf
<1> HIDE DEF c
<1>3. CASE Unanswered(c) /\ edge' = Raised(edge)
  BY <1>1, <1>2, <1>3, PromptCallRaises
<1>4. CASE Answered(c, given)
  <2>1. PICK s \in Sessions : Server!OpenSession(s)
    BY <1>2, <1>4 DEF Answered, Executed
  <2>2. service'.session = s
    BY <2>1, OpenSessionServes, Facts
  <2>3. PICK e : e = To("READY_TO_ROLLOUT")
    OBVIOUS
  <2>4. e \in EdgeRec /\ e.step = "READY_TO_ROLLOUT" /\ SameRest(edge, e)
    BY <2>3, ArmTypes, AllSteps, Stepped DEF To
  <2>5. given = [e EXCEPT !.session = s]
    BY <2>2, <2>3
  <2> HIDE DEF given
  <2>6. given \in EdgeRec /\ given.step = e.step /\ SameRest(e, given)
    BY <2>4, <2>5, SessionSet
  <2>7. edge'.step = given.step /\ SameRest(given, edge') /\ Executed(c) /\ late' = late
    BY <1>4, <2>6, AnsweredFields
  <2>8. SameRest(edge, edge') /\ edge'.step \in Underway
    BY <2>4, <2>6, <2>7, CallSteps DEF SameRest, SameRun
  <2>9. QED BY <1>1, <1>2, <2>7, <2>8, PromptAnswered
<1>5. QED BY <1>1, <1>3, <1>4

LEMMA CloseSessionPrompt ==
  ASSUME OrchIInv, PromptIInv, ~LateCalls, CloseSession
  PROVE  PromptIInv'
<1> DEFINE c == [name |-> "close-session", session |-> edge.session]
           closed == [To("end-trial") EXCEPT !.session = NoSession]
<1>1. /\ edge.step = "close-session" /\ edge.step \in Underway /\ edge.step \in Active /\ NoArm
      /\ Answered(c, closed) \/ (Unanswered(c) /\ edge' = Raised(edge))
  BY CallSteps DEF CloseSession, ControlCall, At
<1>2. edge.session \in Sessions
  BY <1>1 DEF OrchIInv, StageInStep
<1>3. c \in Command /\ c.name = "close-session" /\ BeginsOf(c) = {}
  BY <1>2 DEF Command, BeginsOf
<1> HIDE DEF c
<1>4. CASE Unanswered(c) /\ edge' = Raised(edge)
  BY <1>1, <1>3, <1>4, PromptCallRaises
<1>5. CASE Answered(c, closed)
  <2>1. PICK e : e = To("end-trial")
    OBVIOUS
  <2>2. e \in EdgeRec /\ e.step = "end-trial" /\ SameRest(edge, e)
    BY <2>1, ArmTypes, AllSteps, Stepped DEF To
  <2>3. closed = [e EXCEPT !.session = NoSession] /\ NoSession \in Sessions \cup {NoSession}
    BY <2>1
  <2> HIDE DEF closed
  <2>4. closed \in EdgeRec /\ closed.step = e.step /\ SameRest(e, closed)
    BY <2>2, <2>3, SessionSet
  <2>5. edge'.step = closed.step /\ SameRest(closed, edge') /\ Executed(c) /\ late' = late
    BY <1>5, <2>4, AnsweredFields
  <2>6. SameRest(edge, edge') /\ edge'.step \in Underway
    BY <2>2, <2>4, <2>5, CallSteps DEF SameRest, SameRun
  <2>7. QED BY <1>1, <1>3, <2>5, <2>6, PromptAnswered
<1>6. QED BY <1>1, <1>4, <1>5

LEMMA EndTrialPrompt ==
  ASSUME OrchIInv, PromptIInv, ~LateCalls, EndTrial
  PROVE  PromptIInv'
<1> DEFINE c == [name |-> "end-trial"]
           ended == [To("JOINT_GATE") EXCEPT !.trialStarted = FALSE]
<1>1. /\ edge.step = "end-trial" /\ edge.step \in Underway /\ edge.step \in Active /\ NoArm
      /\ Answered(c, ended) \/ (Unanswered(c) /\ edge' = Raised(edge))
  BY CallSteps DEF EndTrial, ControlCall, At
<1>2. c \in Command /\ c.name = "end-trial" /\ BeginsOf(c) = {}
  BY DEF Command, BeginsOf
<1> HIDE DEF c
<1>3. CASE Unanswered(c) /\ edge' = Raised(edge)
  BY <1>1, <1>2, <1>3, PromptCallRaises
<1>4. CASE Answered(c, ended)
  <2>1. PICK e : e = To("JOINT_GATE")
    OBVIOUS
  <2>2. e \in EdgeRec /\ e.step = "JOINT_GATE" /\ SameRest(edge, e)
    BY <2>1, ArmTypes, AllSteps, Stepped DEF To
  <2>3. ended = [e EXCEPT !.trialStarted = FALSE]
    BY <2>1
  <2> HIDE DEF ended
  <2>4. /\ ended \in EdgeRec /\ ended.step = e.step /\ SameRun(e, ended)
        /\ ended.cleanup = e.cleanup /\ ended.trialStarted = FALSE
    BY <2>2, <2>3, StartedSet
  <2>5. edge'.step = ended.step /\ SameRest(ended, edge') /\ Executed(c) /\ late' = late
    BY <1>4, <2>4, AnsweredFields
  <2>6. /\ edge'.step = "JOINT_GATE" /\ edge'.run = edge.run /\ edge'.cleanup = edge.cleanup
        /\ ~edge'.trialStarted /\ Trial' = Trial
    BY <2>2, <2>4, <2>5 DEF SameRest, SameRun, Trial
  <2>7. service'.trial = NoTrial
    BY <1>2, <2>5, EndTrialServes, Facts DEF Executed
  <2>8. edge'.step \in Active /\ edge'.step # "begin-trial"
    BY <2>6, CallSteps
  <2>9. QED BY <1>1, <1>2, <2>5, <2>6, <2>7, <2>8, PromptCall DEF NoArm, armVars
<1>5. QED BY <1>1, <1>3, <1>4

LEMMA InferPrompt ==
  ASSUME OrchIInv, PromptIInv, ~LateCalls, Infer
  PROVE  PromptIInv'
<1> DEFINE c == [name |-> "infer", session |-> edge.session, trial |-> Trial]
<1>1. /\ edge.step = "infer" /\ edge.step \in Underway /\ edge.step \in Active /\ NoArm
      /\ \/ Executed(c) /\ late' = late /\ edge' = To("publish")
         \/ Unanswered(c) /\ edge' = Raised(edge)
  BY CallSteps DEF Infer, InferUnanswered, GoTo, Raise, At
<1>2. Trial \in Trials /\ edge.session \in Sessions
  BY <1>1, Facts DEF OrchIInv, StageInStep
<1>3. c \in Command /\ BeginsOf(c) = {}
  BY <1>2 DEF Command, BeginsOf
<1> HIDE DEF c
<1>4. CASE Unanswered(c) /\ edge' = Raised(edge)
  BY <1>1, <1>3, <1>4, PromptCallRaises
<1>5. CASE Executed(c) /\ late' = late /\ edge' = To("publish")
  <2>1. edge'.step = "publish" /\ SameRest(edge, edge')
    BY <1>5, ArmTypes, AllSteps, Stepped DEF To
  <2>2. edge'.step \in Underway
    BY <2>1 DEF Underway, Acting
  <2>3. QED BY <1>1, <1>3, <1>5, <2>1, <2>2, PromptAnswered
<1>6. QED BY <1>1, <1>4, <1>5

\* The safe stop.
LEMMA SafeStopArmPrompt ==
  ASSUME OrchIInv, PromptIInv, SafeStopArm
  PROVE  PromptIInv'
<1>1. PICK e : e = To("safe-close")
  OBVIOUS
<1>2. /\ edge.step = "safe-stop" /\ UNCHANGED serverVars /\ published' = published
      /\ edge' = e \/ edge' = Noted(e, "action_stop")
  BY <1>1 DEF SafeStopArm, At, GoTo, NoServer
<1>3. e \in EdgeRec /\ e.step = "safe-close" /\ SameRest(edge, e)
  BY <1>1, ArmTypes, AllSteps, Stepped DEF To
<1>4. /\ edge'.step = "safe-close" /\ edge'.run = edge.run
      /\ edge.cleanup \subseteq edge'.cleanup /\ edge'.trialStarted = edge.trialStarted
  <2>1. CASE edge' = e
    BY <1>3, <2>1 DEF SameRest, SameRun
  <2>2. CASE edge' = Noted(e, "action_stop")
    BY <1>3, <2>2, NotedFields DEF SameRest, SameRun
  <2>3. QED BY <1>2, <2>1, <2>2
<1>5. /\ edge.step \in Active /\ edge'.step \in Active /\ edge'.step \notin StageSteps
      /\ Goes(edge.step, edge'.step)
  BY <1>2, <1>4, UnstartedSteps, CallSteps DEF Goes
<1>6. QED BY <1>2, <1>4, <1>5, PromptLocal

LEMMA SafeClosePrompt ==
  ASSUME OrchIInv, PromptIInv, ~LateCalls, SafeClose
  PROVE  PromptIInv'
<1> DEFINE c == [name |-> "close-session", session |-> edge.session]
           e == To("safe-abort")
           next == [e EXCEPT !.session = NoSession]
<1>1. /\ edge.step = "safe-close" /\ edge.step \in Active /\ NoArm
      /\ \/ UNCHANGED serverVars /\ edge' = e
         \/ edge.session # NoSession /\ CleanupCall(c, next, "close_session")
  BY UnstartedSteps DEF SafeClose, At, NoServer, GoTo
<1>2. e \in EdgeRec /\ e.step = "safe-abort" /\ SameRest(edge, e)
  BY ArmTypes, Stepped, AllSteps DEF To
<1>3. /\ "safe-abort" \in Active /\ "safe-abort" \notin Unstarted
      /\ "safe-abort" \notin Underway \cup Judged
  BY UnstartedSteps
<1>4. CASE UNCHANGED serverVars /\ edge' = e
  BY <1>1, <1>2, <1>3, <1>4, CallSteps, PromptLocal DEF Goes, SameRest, SameRun, NoArm, armVars
<1>5. CASE edge.session # NoSession /\ CleanupCall(c, next, "close_session")
  <2>1. c \in Command /\ BeginsOf(c) = {}
    BY <1>5, ArmTypes DEF EdgeRec, Command, BeginsOf
  <2> HIDE DEF c, e
  <2>2. next \in EdgeRec /\ next.step = "safe-abort" /\ SameRest(edge, next)
    <3>1. NoSession \in Sessions \cup {NoSession}
      OBVIOUS
    <3>2. next.step = e.step /\ SameRest(e, next) /\ next \in EdgeRec
      BY <1>2, <3>1, SessionSet
    <3>3. QED BY <1>2, <3>2 DEF SameRest, SameRun
  <2> HIDE DEF next
  <2>3. /\ Unanswered(c) \/ (Executed(c) /\ late' = late)
        /\ edge'.step = "safe-abort" /\ edge'.run = edge.run
        /\ edge.cleanup \subseteq edge'.cleanup /\ edge'.trialStarted = edge.trialStarted
    <3>1. CASE Answered(c, next)
      BY <2>2, <3>1, AnsweredFields DEF SameRest, SameRun
    <3>2. CASE Unanswered(c) /\ edge' = Noted(next, "close_session")
      BY <2>2, <3>2, NotedFields DEF SameRest, SameRun
    <3>3. QED BY <1>5, <3>1, <3>2 DEF CleanupCall
  <2>4. QED BY <1>1, <1>3, <2>1, <2>3, PromptCall DEF NoArm, armVars
<1>6. QED BY <1>1, <1>4, <1>5

LEMMA SafeAbortPrompt ==
  ASSUME OrchIInv, PromptIInv, ~LateCalls, SafeAbort
  PROVE  PromptIInv'
<1> DEFINE c == [name |-> "abort"]
           e == To("fail")
           next == [e EXCEPT !.trialStarted = FALSE]
<1>1. /\ edge.step = "safe-abort" /\ edge.step \in Active /\ NoArm
      /\ \/ ~edge.trialStarted /\ UNCHANGED serverVars /\ edge' = e
         \/ CleanupCall(c, next, "abort_trial")
  BY UnstartedSteps DEF SafeAbort, At, NoServer, GoTo
<1>2. e \in EdgeRec /\ e.step = "fail" /\ SameRest(edge, e)
  BY ArmTypes, Stepped, AllSteps DEF To
<1>3. "fail" \in Active /\ "fail" \notin Underway \cup Judged
  BY UnstartedSteps
<1>4. CASE ~edge.trialStarted /\ UNCHANGED serverVars /\ edge' = e
  <2>1. /\ late' = {} /\ service'.trial = service.trial
        /\ \A t \in Trials : trials'[t].skill = trials[t].skill
    BY <1>4 DEF serverVars, PromptIInv
  <2>2. /\ edge'.step = "fail" /\ edge'.run = edge.run /\ edge'.cleanup = edge.cleanup
        /\ ~edge'.trialStarted
    BY <1>2, <1>4 DEF SameRest, SameRun
  <2>3. QED BY <1>1, <1>3, <1>4, <2>1, <2>2, PromptGoesOn DEF NoArm, armVars
<1>5. CASE CleanupCall(c, next, "abort_trial")
  <2>1. c \in Command /\ BeginsOf(c) = {} /\ c.name = "abort"
    BY DEF Command, BeginsOf
  <2> HIDE DEF c, e
  <2>2. /\ next \in EdgeRec /\ next.step = "fail" /\ SameRun(edge, next)
        /\ next.cleanup = edge.cleanup /\ next.trialStarted = FALSE
    BY <1>2, StartedSet DEF SameRest, SameRun
  <2> HIDE DEF next
  <2>3. /\ Unanswered(c) \/ (Executed(c) /\ late' = late)
        /\ edge'.step = "fail" /\ edge'.run = edge.run /\ ~edge'.trialStarted
        /\ edge.cleanup \subseteq edge'.cleanup
        /\ service'.trial = NoTrial \/ "abort_trial" \in edge'.cleanup
    <3>1. CASE Answered(c, next)
      <4>1. /\ Executed(c) /\ late' = late /\ edge'.step = next.step /\ SameRest(next, edge')
        BY <2>2, <3>1, AnsweredFields
      <4>2. service'.trial = NoTrial
        BY <2>1, <4>1, AbortServes, Facts DEF Executed
      <4>3. QED BY <2>2, <4>1, <4>2 DEF SameRest, SameRun
    <3>2. CASE Unanswered(c) /\ edge' = Noted(next, "abort_trial")
      BY <2>2, <3>2, NotedFields DEF SameRun
    <3>3. QED BY <1>5, <3>1, <3>2 DEF CleanupCall
  <2>4. QED BY <1>1, <1>3, <2>1, <2>3, PromptCall DEF NoArm, armVars
<1>6. QED BY <1>1, <1>4, <1>5

LEMMA RecordPrompt ==
  ASSUME OrchIInv, PromptIInv, Record
  PROVE  PromptIInv'
<1>1. /\ edge.step = "record" /\ UNCHANGED serverVars /\ published' = published
      /\ \/ edge' = Raised(edge) \/ edge' = To("stop")
         \/ /\ edge.sequence + 1 < MaxChunks
            /\ edge' = [To("infer") EXCEPT !.sequence = @ + 1]
  BY DEF Record, At, NoServer, NoArm, armVars, GoTo, Raise
<1>2. /\ edge.step \in Underway /\ edge.step \in Active
      /\ {"stop", "infer"} \subseteq Underway /\ {"stop", "infer"} \subseteq StageSteps
  BY <1>1, CallSteps DEF Acting
<1>3. SameRest(edge, edge') /\ edge'.step \in {"safe-stop", "stop", "infer"}
  <2>1. CASE edge' = Raised(edge) \/ edge' = To("stop")
    BY <2>1, ToOrRaised, AllSteps
  <2>2. CASE /\ edge.sequence + 1 < MaxChunks
             /\ edge' = [To("infer") EXCEPT !.sequence = @ + 1]
    <3>1. PICK e : e = To("infer")
      OBVIOUS
    <3>2. e \in EdgeRec /\ e.step = "infer" /\ SameRest(edge, e)
      BY <3>1, ArmTypes, AllSteps, Stepped DEF To
    <3>3. e.sequence = edge.sequence /\ edge.sequence \in 0 .. MaxChunks - 1
      BY <3>1, ArmTypes DEF To, EdgeRec
    <3>4. PICK n \in 0 .. MaxChunks - 1 : n = e.sequence + 1
      BY <2>2, <3>3, OrchestratorAssumption
    <3>5. edge' = [e EXCEPT !.sequence = n]
      BY <2>2, <3>1, <3>4
    <3>6. edge'.step = e.step /\ SameRest(e, edge')
      BY <3>2, <3>5, SequenceSet
    <3>7. QED BY <3>2, <3>6 DEF SameRest, SameRun
  <2>3. QED BY <1>1, <2>1, <2>2
<1>4. Goes(edge.step, edge'.step) /\ edge'.step \in Active
  BY <1>2, <1>3, UnstartedSteps, CallSteps DEF Goes
<1>5. QED BY <1>1, <1>2, <1>3, <1>4, PromptLocal DEF SameRest, SameRun

\* A transition, made or failed: the server waits.
LEMMA TransitionPrompt ==
  ASSUME OrchIInv, PromptIInv, NEW target \in Targets,
         Transition(target) \/ TransitionRaises(target)
  PROVE  PromptIInv'
<1>1. /\ edge.step = target /\ UNCHANGED serverVars /\ published' = published
      /\ \/ edge' = [After(target) EXCEPT !.pipeline = target]
         \/ edge' = Raised([edge EXCEPT !.pipeline = target])
         \/ edge' = Raised(edge)
  BY DEF Transition, TransitionRaises, At, NoServer, NoArm, armVars, Raise
<1>2. target \in PipelineStates /\ edge.step \in Active
  BY <1>1, TargetSteps
<1>3. CASE \/ edge' = Raised([edge EXCEPT !.pipeline = target])
           \/ edge' = Raised(edge)
  <2>1. PICK e \in EdgeRec : SameRest(edge, e) /\ edge' = Raised(e)
    <3>1. [edge EXCEPT !.pipeline = target] \in EdgeRec
          /\ SameRest(edge, [edge EXCEPT !.pipeline = target])
      BY <1>2, ArmTypes, PipelineSet
    <3>2. SameRest(edge, edge) /\ edge \in EdgeRec
      BY ArmTypes DEF SameRest, SameRun
    <3>3. QED BY <1>3, <3>1, <3>2
  <2>2. edge'.step = "safe-stop" /\ SameRest(e, edge')
    BY <2>1, RaisedFields
  <2>3. Goes(edge.step, edge'.step) /\ edge'.step \in Active /\ edge'.step \notin StageSteps
    BY <2>2, UnstartedSteps, CallSteps DEF Goes
  <2>4. QED BY <1>1, <1>2, <2>1, <2>2, <2>3, PromptLocal DEF SameRest, SameRun
<1>4. CASE target # "HANDOFF" /\ edge' = [After(target) EXCEPT !.pipeline = target]
  <2>1. PICK a : a = After(target)
    OBVIOUS
  <2>2. /\ a \in EdgeRec /\ SameRun(edge, a)
        /\ a.cleanup = edge.cleanup /\ a.trialStarted = edge.trialStarted
        /\ \/ target = "PREFLIGHT" /\ a.step = "preflight"
           \/ target = "RESETTING" /\ a.step \in {"reset", "PREPARING_POLICY"}
           \/ target = "PREPARING_POLICY" /\ a.step = "prepare-skill"
           \/ target = "READY_TO_ROLLOUT" /\ a.step = "begin-stage"
           \/ target = "ROLLOUT" /\ a.step = "infer"
           \/ target = "JOINT_GATE" /\ a.step = "joint-gate"
           \/ target = "CHECKING" /\ a.step = "checker"
           \/ target = "COMPLETED" /\ a.step = "complete"
    BY <1>4, <2>1, AfterFields
  <2>3. edge' = [a EXCEPT !.pipeline = target]
    BY <1>4, <2>1
  <2>4. edge'.step = a.step /\ SameRest(a, edge')
    BY <1>2, <2>2, <2>3, PipelineSet
  <2>5. Goes(edge.step, edge'.step) /\ edge'.step \in Active
    <3>1. edge'.step # "begin-trial"
      BY <2>2, <2>4
    <3>2. CASE target \in {"READY_TO_ROLLOUT", "ROLLOUT"}
      BY <1>1, <2>2, <2>4, <3>2, CallSteps DEF Goes
    <3>3. CASE target \in {"PREFLIGHT", "COMPLETED"}
      <4>1. edge'.step \notin Judged
        BY <2>2, <2>4, <3>3, TargetSteps, CallSteps
      <4>2. edge.step \in Opening \cup Closing /\ edge'.step \in Opening \cup Closing
        BY <1>1, <2>2, <2>4, <3>3, TargetSteps
      <4>3. QED BY <3>1, <4>1, <4>2, TargetSteps, UnstartedSteps DEF Goes
    <3>4. CASE target \in {"RESETTING", "PREPARING_POLICY"}
      <4>1. edge.step \in Unbegun /\ edge'.step \in Unbegun
        BY <1>1, <2>2, <2>4, <3>4, TargetSteps
      <4>2. QED BY <3>1, <4>1, CallSteps, UnstartedSteps DEF Goes
    <3>5. CASE target \in {"JOINT_GATE", "CHECKING"}
      <4>1. edge.step \in Judged /\ edge'.step \in Judged
        BY <1>1, <2>2, <2>4, <3>5, CallSteps
      <4>2. QED BY <3>1, <4>1, CallSteps, UnstartedSteps DEF Goes
    <3>6. QED BY <2>2, <3>2, <3>3, <3>4, <3>5
  <2>6. QED BY <1>1, <1>2, <2>2, <2>4, <2>5, PromptLocal DEF SameRest, SameRun
<1>5. CASE target = "HANDOFF" /\ edge' = [After(target) EXCEPT !.pipeline = target]
  <2>1. PICK a : a = NextStage
    OBVIOUS
  <2>2. /\ a \in EdgeRec /\ a.run = edge.run /\ a.cleanup = edge.cleanup
        /\ a.trialStarted = edge.trialStarted /\ a.step \in {"start-stage", "COMPLETED"}
    BY <2>1, NextStageFields
  <2>3. edge' = [a EXCEPT !.pipeline = target]
    BY <1>5, <2>1 DEF After
  <2>4. edge'.step = a.step /\ SameRest(a, edge')
    BY <1>2, <2>2, <2>3, PipelineSet
  <2>5. edge'.step \in Opening \cup Closing /\ edge.step \in Closing
    BY <1>1, <1>5, <2>2, <2>4, TargetSteps
  <2>6. edge'.step \notin StageSteps /\ edge'.step \in Active
    BY <2>2, <2>4, TargetSteps, CallSteps
       DEF StageSteps, Unbegun, Underway, Asking, Acting, Resting, Judged
  <2>7. Goes(edge.step, edge'.step)
    BY <2>5, <2>6, UnstartedSteps, CallSteps DEF Goes
  <2>8. QED BY <1>1, <1>2, <2>2, <2>4, <2>6, <2>7, PromptLocal DEF SameRest, SameRun
<1>6. QED BY <1>1, <1>3, <1>4, <1>5

LEMMA PublishPrompt ==
  ASSUME OrchIInv, PromptIInv, Publish
  PROVE  PromptIInv'
<1>1. /\ edge.step = "publish" /\ UNCHANGED serverVars
      /\ published' \in {published, [published EXCEPT ![Trial] = @ + 1]}
      /\ \/ edge' = Raised(edge)
         \/ \E r \in {"rest", "more", "stopped"} : edge' = [To("record") EXCEPT !.result = r]
  BY DEF Publish, At, NoServer, NoArm, armVars, Raise
<1>2. /\ edge.step \in Underway /\ edge.step \in Active
      /\ "record" \in Underway /\ "record" \in Active
  BY <1>1, CallSteps DEF Acting
<1>3. SameRest(edge, edge') /\ edge'.step \in {"safe-stop", "record"}
  <2>1. CASE edge' = Raised(edge)
    BY <2>1, ToOrRaised, AllSteps
  <2>2. ASSUME NEW r \in {"rest", "more", "stopped"}, edge' = [To("record") EXCEPT !.result = r]
        PROVE  SameRest(edge, edge') /\ edge'.step = "record"
    <3>1. PICK e : e = To("record")
      OBVIOUS
    <3>2. e \in EdgeRec /\ e.step = "record" /\ SameRest(edge, e)
      BY <3>1, <1>2, ArmTypes, CallSteps, Stepped DEF To
    <3>3. edge' = [e EXCEPT !.result = r] /\ r \in {"none", "more", "rest", "stopped"}
      BY <2>2, <3>1
    <3>4. edge'.step = e.step /\ SameRest(e, edge')
      BY <3>2, <3>3, ResultSet
    <3>5. QED BY <3>2, <3>4 DEF SameRest, SameRun
  <2>3. QED BY <1>1, <2>1, <2>2
<1>4. Trial \in Trials /\ trials[Trial].skill = Skill
  BY <1>2, Facts, CallSteps DEF PromptIInv
<1> PICK t \in Trials : t = Trial
  BY <1>4
<1>5. /\ Trial' = t /\ Skill' = Skill /\ edge'.run = edge.run
      /\ edge'.cleanup = edge.cleanup /\ edge'.trialStarted = edge.trialStarted
  BY <1>3 DEF SameRest, SameRun, Trial, Skill
<1>6. late' = {} /\ trials' = trials /\ service' = service
  BY <1>1 DEF serverVars, PromptIInv
<1>7. PlannedSkillServed'
  <2>1. ASSUME NEW u \in Trials, published'[u] > 0
        PROVE  trials'[u].skill = Plan[u[1]][u[2]]
    <3>1. CASE u = t
      <4>1. Skill = Plan[t[1]][t[2]]
        BY DEF Trial, Skill
      <4>2. QED BY <1>4, <1>6, <3>1, <4>1
    <3>2. CASE u # t
      <4>1. published'[u] = published[u]
        BY <1>1, <3>2, ArmTypes
      <4>2. QED BY <1>6, <2>1, <4>1 DEF PromptIInv, PlannedSkillServed
    <3>3. QED BY <3>1, <3>2
  <2>2. QED BY <2>1 DEF PlannedSkillServed
<1>8. /\ edge'.step \notin {"over", "begin", "begin-trial"} /\ edge'.step \notin Unstarted
  BY <1>2, <1>3, UnstartedSteps, CallSteps
<1>9. Mine' => Mine
  BY <1>5, <1>6 DEF Mine
<1>10. Mine => edge.trialStarted \/ "abort_trial" \in edge.cleanup
  BY <1>2 DEF PromptIInv
<1>11. trials'[Trial'].skill = Skill'
  BY <1>4, <1>5, <1>6
<1>12. QED
  BY <1>5, <1>6, <1>7, <1>8, <1>9, <1>10, <1>11 DEF PromptIInv, NothingLeftOnServer, At

\* The run begins, and ends.
LEMMA PromptOutside ==
  ASSUME PromptIInv, UNCHANGED serverVars, published' = published,
         edge'.step \notin Active,
         edge'.step = "begin" => ~edge'.trialStarted /\ edge'.pipeline = "CREATED",
         edge'.step = "over" => /\ NothingLeftOnServer'
                                /\ edge'.run \in Runs \/ edge'.pipeline = "CREATED"
  PROVE  PromptIInv'
<1>1. late' = {} /\ PlannedSkillServed'
  BY DEF serverVars, PromptIInv, PlannedSkillServed
<1>2. /\ edge'.step \notin Underway \cup Judged /\ edge'.step # "begin-trial"
      /\ edge'.step \in Unstarted => edge'.step = "begin"
  BY CallSteps DEF Unstarted, Active, StageSteps, Cleanup
<1>3. NothingLeftOnServer'
  BY DEF NothingLeftOnServer
<1>4. QED BY <1>1, <1>2, <1>3 DEF PromptIInv, At

LEMMA BeginPrompt ==
  ASSUME OrchIInv, PromptIInv, Begin
  PROVE  PromptIInv'
<1>1. /\ edge.step = "begin" /\ UNCHANGED serverVars /\ published' = published
      /\ \/ EdgeBegin(edge.run) /\ edge' = To("PREFLIGHT")
         \/ edge' = To("over")
  BY DEF Begin, At, NoServer, NoArm, armVars, GoTo
<1>2. /\ edge.pipeline = "CREATED" /\ ~edge.trialStarted /\ edge.run \in Runs
  BY <1>1, Facts, UnstartedSteps DEF PromptIInv, At
<1>3. CASE edge' = To("over")
  <2>1. edge'.step = "over" /\ edge'.pipeline = "CREATED"
    BY <1>2, <1>3, StepOf, AllSteps
  <2>2. NothingLeftOnServer'
    BY <2>1 DEF NothingLeftOnServer
  <2>3. QED BY <1>1, <2>1, <2>2, CallSteps, PromptOutside
<1>4. CASE EdgeBegin(edge.run) /\ edge' = To("PREFLIGHT")
  <2>1. /\ edge'.step = "PREFLIGHT" /\ edge'.run = edge.run /\ ~edge'.trialStarted
    BY <1>2, <1>4, StepOf, AllSteps DEF SameRun
  <2>2. service' = service /\ trials' = trials /\ late' = {}
    BY <1>1 DEF serverVars, PromptIInv
  <2>3. RunIsNew(edge.run)
    BY <1>4 DEF EdgeBegin
  <2>4. \A i \in Stages : runs[edge.run].stages[i].evidence = "ABSENT"
    BY <1>2, <2>3 DEF RunIsNew, OrchIInv, EdgeIInv, RunInOrder
  <2>5. ASSUME NEW i \in Stages
        PROVE  service.trial # <<edge.run, i>>
    <3>1. PICK t \in Trials : t = <<edge.run, i>>
      BY <1>2 DEF Trials
    <3>2. StageOf(t).evidence = "ABSENT"
      BY <2>4, <3>1 DEF StageOf
    <3>3. trials[t].verdict = "unused"
      BY <3>2 DEF OrchIInv, ServerKeeps
    <3>4. service.trial # t
      BY <3>3 DEF OrchIInv, ServerKeeps
    <3>5. QED BY <3>1, <3>4
  <2>6. ~Mine'
    BY <2>1, <2>2, <2>5 DEF Mine
  <2>7. /\ edge'.step \notin Underway \cup Judged
        /\ edge'.step \notin {"over", "begin", "begin-trial"}
    BY <2>1 DEF Underway, Asking, Acting, Resting, Judged
  <2>8. PlannedSkillServed'
    BY <1>1, <2>2 DEF PromptIInv, PlannedSkillServed
  <2>9. QED BY <2>1, <2>2, <2>6, <2>7, <2>8 DEF PromptIInv, NothingLeftOnServer, At
<1>5. QED BY <1>1, <1>3, <1>4

LEMMA OverPrompt ==
  ASSUME OrchIInv, PromptIInv, UNCHANGED serverVars, published' = published,
         edge.step \in {"complete", "fail"},
         edge'.step = "over", edge'.run = edge.run, edge'.cleanup = edge.cleanup
  PROVE  PromptIInv'
<1>1. edge.step \in Active /\ edge.step \in Unstarted
  BY UnstartedSteps DEF Active, Closing
<1>2. Mine => "abort_trial" \in edge.cleanup
  BY <1>1 DEF PromptIInv
<1>3. Mine' => Mine
  BY DEF Mine, serverVars
<1>4. NothingLeftOnServer'
  BY <1>2, <1>3 DEF NothingLeftOnServer, Mine
<1>5. edge'.step \notin Active /\ edge'.run \in Runs
  BY Facts, CallSteps
<1>6. QED BY <1>4, <1>5, PromptOutside

LEMMA EndsPrompt ==
  ASSUME OrchIInv, PromptIInv,
         CompleteCall \/ FailRun \/ Die \/ \E r \in Runs : StartRun(r)
  PROVE  PromptIInv'
<1>1. CASE CompleteCall
  <2>1. /\ edge.step = "complete" /\ UNCHANGED serverVars /\ published' = published
        /\ edge' = To("over") \/ edge' = Raised(edge)
    BY <1>1 DEF CompleteCall, At, NoServer, NoArm, armVars, GoTo, Raise
  <2>2. CASE edge' = To("over")
    <3>1. /\ edge'.step = "over" /\ edge'.run = edge.run /\ edge'.cleanup = edge.cleanup
      BY <2>2, StepOf, AllSteps DEF SameRun
    <3>2. QED BY <2>1, <3>1, OverPrompt
  <2>3. CASE edge' = Raised(edge)
    <3>1. edge'.step = "safe-stop" /\ SameRest(edge, edge')
      BY <2>3, ArmTypes, RaisedFields
    <3>2. /\ edge.step \in Active /\ edge'.step \in Active /\ edge'.step \notin StageSteps
          /\ Goes(edge.step, edge'.step)
      BY <2>1, <3>1, UnstartedSteps, TargetSteps, CallSteps DEF Goes
    <3>3. QED BY <2>1, <3>1, <3>2, PromptLocal DEF SameRest, SameRun
  <2>4. QED BY <2>1, <2>2, <2>3
<1>2. CASE FailRun
  <2>1. /\ edge.step = "fail" /\ UNCHANGED serverVars /\ published' = published
        /\ edge' = [To("over") EXCEPT !.pipeline = FinalState]
    BY <1>2 DEF FailRun, At, NoServer, NoArm, armVars
  <2>2. PICK e : e = To("over")
    OBVIOUS
  <2>3. e \in EdgeRec /\ e.step = "over" /\ SameRest(edge, e)
    BY <2>2, ArmTypes, AllSteps, Stepped DEF To
  <2>4. PICK p \in PipelineStates : p = FinalState
    BY ArmTypes DEF FinalState, EdgeRec, PipelineStates
  <2>5. edge'.step = e.step /\ SameRest(e, edge')
    BY <2>1, <2>2, <2>3, <2>4, PipelineSet
  <2>6. QED BY <2>1, <2>3, <2>5, OverPrompt DEF SameRest, SameRun
<1>3. CASE Die
  <2>1. UNCHANGED serverVars /\ published' = published /\ edge' = To("died")
    BY <1>3 DEF Die, NoServer, NoArm, armVars, GoTo
  <2>2. edge'.step = "died"
    BY <2>1, StepOf, AllSteps
  <2>3. QED BY <2>1, <2>2, UnstartedSteps, PromptOutside
<1>4. ASSUME NEW r \in Runs, StartRun(r)
      PROVE  PromptIInv'
  <2>1. UNCHANGED serverVars /\ published' = published /\ edge' = NewProcess(r)
    BY <1>4 DEF StartRun, NoServer
  <2>2. edge'.step = "begin" /\ edge'.trialStarted = FALSE /\ edge'.pipeline = "CREATED"
    BY <2>1, NewProcessFields
  <2>3. QED BY <2>1, <2>2, CallSteps, PromptOutside
<1>5. QED BY <1>1, <1>2, <1>3, <1>4

\* What the server does of its own accord, and what changes nothing.
LEMMA ServerPrompt ==
  ASSUME OrchIInv, PromptIInv, edge' = edge, published' = published, late' = {},
         \A t \in Trials : trials'[t].skill = trials[t].skill,
         service'.trial \in {service.trial, NoTrial},
         service'.skill \in {service.skill, NoSkill}
  PROVE  PromptIInv'
<1>1. Trial' = Trial /\ Skill' = Skill
  BY DEF Trial, Skill
<1>2. PlannedSkillServed'
  BY DEF PromptIInv, PlannedSkillServed
<1>3. edge.step \in Underway \cup Judged => trials'[Trial'].skill = Skill'
  <2>1. ASSUME edge.step \in Underway \cup Judged
        PROVE  trials'[Trial'].skill = Skill'
    <3>1. Trial \in Trials /\ trials[Trial].skill = Skill
      BY <2>1, CallSteps, Facts DEF PromptIInv
    <3>2. PICK t \in Trials : t = Trial
      BY <3>1
    <3>3. QED BY <1>1, <3>1, <3>2
  <2>2. QED BY <2>1
<1>4. edge.run \in Runs => (Mine' => Mine)
  <2>1. ASSUME NEW i \in Stages, edge.run \in Runs, service'.trial = <<edge.run, i>>
        PROVE  service.trial = <<edge.run, i>>
    <3>1. <<edge.run, i>> \in Trials
      BY <2>1 DEF Trials
    <3>2. QED BY <2>1, <3>1, Ids
  <2>2. QED BY <2>1 DEF Mine
<1>5. edge.step \in Active /\ Mine' => edge.trialStarted \/ "abort_trial" \in edge.cleanup
  BY <1>4, Facts, CallSteps DEF PromptIInv
<1>6. NothingLeftOnServer'
  <2>1. ASSUME edge.step = "over", edge.pipeline \in {"FAILED", "COMPLETED"},
               "abort_trial" \notin edge.cleanup
        PROVE  ~Mine'
    <3>1. edge.run \in Runs /\ ~Mine
      BY <2>1 DEF PromptIInv, NothingLeftOnServer, Mine, At
    <3>2. QED BY <1>4, <3>1
  <2>2. QED BY <2>1 DEF NothingLeftOnServer, Mine
<1>7. /\ edge.step = "begin-trial" => service'.skill \in {Skill', NoSkill}
      /\ edge.step \in Unstarted => ~edge.trialStarted
      /\ edge.step = "begin" => edge.pipeline = "CREATED"
      /\ edge.step = "over" => edge.run \in Runs \/ edge.pipeline = "CREATED"
  BY <1>1 DEF PromptIInv, At
<1>8. QED BY <1>2, <1>3, <1>5, <1>6, <1>7 DEF PromptIInv, At

LEMMA PromptInit ==
  ASSUME OrchInit
  PROVE  PromptIInv
<1>1. /\ edge.step = "over" /\ edge.pipeline = "CREATED" /\ late = {}
      /\ published = [t \in Trials |-> 0]
  <2>1. edge = [run |-> NoRun, step |-> "over", pipeline |-> "CREATED", stage |-> 0,
                sequence |-> 0, result |-> "none", session |-> NoSession,
                trialStarted |-> FALSE, server |-> 0, cleanup |-> {}]
    BY DEF OrchInit, NewProcess
  <2>2. QED BY <2>1 DEF OrchInit
<1>2. /\ edge.step \notin Active /\ edge.step \notin Unstarted
      /\ edge.step \notin Underway \cup Judged
  BY <1>1, UnstartedSteps, CallSteps DEF Active
<1>3. PlannedSkillServed /\ NothingLeftOnServer
  BY <1>1 DEF PlannedSkillServed, NothingLeftOnServer
<1>4. QED BY <1>1, <1>2, <1>3 DEF PromptIInv, At

LEMMA PromptNext ==
  ASSUME OrchIInv, PromptIInv, ~LateCalls, [OrchNext]_orchVars
  PROVE  PromptIInv'
<1>1. CASE EdgeStep
  <2>1. CASE Begin \/ CompleteCall \/ FailRun
    BY <2>1, BeginPrompt, EndsPrompt
  <2>2. CASE \/ StartStageCall \/ CompleteStageCall
             \/ Local("preflight", "start-stage") \/ Local("begin-stage", "ROLLOUT")
             \/ Reset \/ StopArm \/ JointGate \/ Checker
    BY <2>2, StageAndArmPrompt
  <2>3. ASSUME NEW s \in Targets, Transition(s) \/ TransitionRaises(s)
        PROVE  PromptIInv'
    BY <2>3, TransitionPrompt
  <2>4. CASE PrepareSkill \/ BeginTrial \/ OpenSession \/ CloseSession \/ EndTrial \/ Infer
    BY <2>4, PrepareSkillPrompt, BeginTrialPrompt, OpenSessionPrompt, CloseSessionPrompt,
       EndTrialPrompt, InferPrompt
  <2>5. CASE Publish \/ Record \/ SafeStopArm \/ SafeClose \/ SafeAbort
    BY <2>5, PublishPrompt, RecordPrompt, SafeStopArmPrompt, SafeClosePrompt, SafeAbortPrompt
  <2>6. QED BY <1>1, <2>1, <2>2, <2>3, <2>4, <2>5 DEF EdgeStep
<1>2. CASE Die \/ \E r \in Runs : StartRun(r)
  BY <1>2, EndsPrompt
<1>3. CASE Arrive \/ Vanish
  BY <1>3 DEF Arrive, Vanish, PromptIInv
<1>4. CASE ServerMisfortune
  <2>1. /\ Server!Misfortune /\ service'.instance <= MaxInstances
        /\ late' = late /\ edge' = edge /\ published' = published
    BY <1>4 DEF ServerMisfortune, NoArm, armVars
  <2>2. /\ ServerStep({}, {}, FALSE) /\ service'.trial \in {service.trial, NoTrial}
        /\ service'.skill \in {service.skill, NoSkill}
    BY <2>1, MisfortuneServes, Facts
  <2>3. late' = {} /\ \A t \in Trials : trials'[t].skill = trials[t].skill
    BY <2>1, <2>2 DEF ServerStep, PromptIInv
  <2>4. QED BY <2>1, <2>2, <2>3, ServerPrompt
<1>5. CASE UNCHANGED orchVars
  <2>1. /\ edge' = edge /\ published' = published /\ late' = {}
        /\ trials' = trials /\ service' = service
    BY <1>5 DEF orchVars, serverVars, armVars, PromptIInv
  <2>2. QED BY <2>1, ServerPrompt
<1>6. QED BY <1>1, <1>2, <1>3, <1>4, <1>5 DEF OrchNext

-----------------------------------------------------------------------------
\* What holds when no abandoned call reaches the server later.
THEOREM PromptInvariantHolds ==
  ASSUME ~LateCalls
  PROVE  OrchSpec => []PromptIInv
<1>1. OrchInit => PromptIInv
  BY PromptInit
<1>2. OrchIInv /\ PromptIInv /\ [OrchNext]_orchVars => PromptIInv'
  BY PromptNext
<1>3. QED BY <1>1, <1>2, OrchestratorInvariantHolds, PTL DEF OrchSpec

\* Every chunk the arm got was computed by the policy of the planned skill,
\* unless a call the edge gave up on still reaches the server: nothing on the
\* edge compares the session's skill with the stage's (_run_stage, _rollout).
THEOREM PlannedSkillAlwaysServed ==
  ASSUME ~LateCalls
  PROVE  OrchSpec => []PlannedSkillServed
<1>1. PromptIInv => PlannedSkillServed
  BY DEF PromptIInv
<1>2. QED BY <1>1, PromptInvariantHolds, PTL

\* minimal_runtime.md "Failure boundary": a run that ended left no trial of
\* its own open on the server, or knows that its abort failed, when no
\* abandoned call comes late (_trial_started, _safe_stop).
THEOREM NothingEverLeftOnServer ==
  ASSUME ~LateCalls
  PROVE  OrchSpec => []NothingLeftOnServer
<1>1. PromptIInv => NothingLeftOnServer
  BY DEF PromptIInv
<1>2. QED BY <1>1, PromptInvariantHolds, PTL

-----------------------------------------------------------------------------
\* The orchestrator only calls its store: what the store promises holds of runs.
LEMMA StepCallsStore ==
  ASSUME OrchIInv, OrchNext
  PROVE  EdgeCall \/ UNCHANGED edgeVars
<1>1. Targets \subseteq PipelineStates
  BY TargetSteps
<1>2. CASE Begin
  <2>1. edge.run \in Runs
    BY <1>2, Facts DEF Begin, At
  <2>2. QED BY <1>2, <2>1 DEF Begin, EdgeCall
<1>3. CASE \E s \in Targets : Transition(s) \/ TransitionRaises(s)
  BY <1>1, <1>3 DEF Transition, TransitionRaises, NoFiles, EdgeCall
<1>4. CASE StartStageCall
  BY <1>4, Facts DEF StartStageCall, EdgeCall
<1>5. CASE CompleteStageCall
  <2>1. PICK e : /\ e = [joint_gate   |-> "PASSED",
                         checker      |-> IF edge.stage \in Checked THEN "PASSED"
                                          ELSE "NOT_REQUIRED",
                         server_audit |-> "PASSED", edge_audit |-> "PASSED"]
                 /\ CompleteStage(e) \/ CompleteStageFails(e)
    BY <1>5 DEF CompleteStageCall
  <2>2. e \in StageEvidence
    BY <2>1 DEF StageEvidence
  <2>3. QED BY <2>1, <2>2 DEF EdgeCall
<1>6. CASE CompleteCall
  BY <1>6 DEF CompleteCall, EdgeCall
<1>7. CASE Record
  BY <1>7 DEF Record, EdgeCall
<1>8. CASE FailRun
  <2>1. FinalState \in PipelineStates
    BY ArmTypes DEF FinalState, EdgeRec, PipelineStates
  <2>2. QED BY <1>8, <2>1 DEF FailRun, EdgeCall
<1>9. CASE Die \/ \E r \in Runs : StartRun(r)
  BY <1>9 DEF Die, StartRun, EdgeCall
<1>10. CASE \/ Local("preflight", "start-stage") \/ Local("begin-stage", "ROLLOUT")
            \/ Reset \/ Publish \/ StopArm \/ JointGate \/ Checker \/ SafeStopArm
  BY <1>10 DEF Local, Reset, Publish, StopArm, JointGate, Checker, SafeStopArm, NoFiles
<1>11. CASE \/ PrepareSkill \/ BeginTrial \/ OpenSession \/ CloseSession \/ EndTrial \/ Infer
            \/ SafeClose \/ SafeAbort
  BY <1>11 DEF PrepareSkill, BeginTrial, OpenSession, CloseSession, EndTrial, Infer, SafeClose,
               SafeAbort, ControlCall, NoFiles
<1>12. CASE Arrive \/ Vanish \/ ServerMisfortune
  BY <1>12 DEF Arrive, Vanish, ServerMisfortune, NoFiles
<1>13. QED
  BY <1>2, <1>3, <1>4, <1>5, <1>6, <1>7, <1>8, <1>9, <1>10, <1>11, <1>12 DEF OrchNext, EdgeStep

\* S-014 for the orchestrator's runs: however it calls its store and wherever
\* it dies, a run id is used once, one run is open, and no later process
\* rewrites a verdict (main, PipelineOrchestrator.run, EdgeAuditStore).
THEOREM RunsImplementLedger == OrchSpec => EdgeImplementsLedger
<1>1. OrchInit => RunLedger!LedgerInit
  BY RunLedgerStart DEF OrchInit
<1>2. OrchIInv /\ [OrchNext]_orchVars => [RunLedger!LedgerNext]_(RunLedger!ledgerVars)
  <2>1. (UNCHANGED edgeVars) => UNCHANGED RunLedger!ledgerVars
    BY DEF edgeVars, RunLedger!ledgerVars, RunVerdict
  <2>2. (UNCHANGED orchVars) => UNCHANGED edgeVars
    BY DEF orchVars, edgeVars
  <2>3. OrchIInv => EdgeIInv
    BY DEF OrchIInv
  <2>4. QED BY <2>1, <2>2, <2>3, StepCallsStore, CallIsRunLedgerStep
<1>3. QED
  BY <1>1, <1>2, OrchestratorInvariantHolds, PTL
  DEF OrchSpec, EdgeImplementsLedger, RunLedger!LedgerSpec

\* S-013 for the orchestrator's runs, through every failure: stages complete
\* in order and a completed run is whole (run, _run_stage, complete).
THEOREM RunsInOrderAndWhole == OrchSpec => [](StagesCompleteInOrder /\ CompletedRunIsWhole)
<1>1. OrchIInv => StagesCompleteInOrder /\ CompletedRunIsWhole
  BY DEF OrchIInv, EdgeIInv, RunInOrder, StagesCompleteInOrder, CompletedRunIsWhole,
         HasCompleted
<1>2. QED BY <1>1, OrchestratorInvariantHolds, PTL
=============================================================================
