---------------------------- MODULE ArmExecutor ----------------------------
(***************************************************************************)
(* RosActionExecutor (edge/ros2_action.py) in every edge process of the    *)
(* host, with the joint callbacks of RosObservationSource and the gate.    *)
(* A process constructs its publishers, takes the action lock, looks for   *)
(* other publishers, and drives the arm stage by stage under one thread;   *)
(* its ROS callbacks run beside that thread, one at a time.  The poses     *)
(* commanded are left out: what matters is whether the last command moved  *)
(* the arm or held it.  exec, callback and the gate are those of the one   *)
(* process past its preflight (OneDriver).                                 *)
(***************************************************************************)
EXTENDS JointGate

CONSTANTS Procs, Free,
          Poses,         \* what the joint sensors may report
          ChunkRows,     \* rows of an action chunk
          ActionSteps    \* action_steps of a stage

ASSUME ExecutorAssumption == /\ Free \notin Procs
                             /\ Poses \subseteq Int
                             /\ ChunkRows \in Nat \ {0}
                             /\ ActionSteps \in Nat

VARIABLES proc,      \* where each process is
          lock,      \* who holds action_executor.lock
          exec,      \* _active_skill, _published_rows, rows left, _has_published
          callback,  \* the joint message being handled, if any: cached, not in the gate
          command,   \* history: what the last command did
          excused    \* history: a stop failed, or a process died, before it held

executorVars == <<lock, exec, command, excused>>
armVars == <<gateVars, proc, callback, executorVars>>

InGate   == {"snapshot", "armed", "decide"}
Driving  == {"idle", "ready", "staged", "row", "rest", "raised", "closing"} \cup InGate
JointMessage == [arm : Arms, pos : Poses]
Fresh == [skill |-> NoSkill, rows |-> 0, left |-> 0, hasPublished |-> FALSE]

ArmTypeOK ==
    /\ GateTypeOK
    /\ proc \in [Procs -> Driving \cup {"off", "built", "locked", "refused", "destroyed"}]
    /\ lock \in Procs \cup {Free}
    /\ exec \in [skill : Skills \cup {NoSkill}, rows : 0 .. ActionSteps,
                 left : 0 .. ChunkRows - 1, hasPublished : BOOLEAN]
    /\ callback \in {<<>>} \cup {<<m>> : m \in JointMessage}
    /\ command \in {"none", "motion", "hold"}
    /\ excused \in BOOLEAN

ArmInit == /\ GateInit
           /\ proc = [p \in Procs |-> "off"]
           /\ lock = Free
           /\ exec = Fresh
           /\ callback = <<>>
           /\ command = "none"
           /\ excused = FALSE

At(p, s)   == proc[p] = s
GoTo(p, s) == proc' = [proc EXCEPT ![p] = s]
Gate       == UNCHANGED <<gateVars, callback>>

\* reached_result is left: its local view is gone.
LeavesGate == view' = <<>> /\ UNCHANGED <<gate, seen, callback>>

\* The driving process is gone, and its executor and gate with it.
Gone == /\ gate' = NewGate /\ view' = <<>> /\ seen' = <<>>
        /\ callback' = <<>>
        /\ exec' = Fresh

-----------------------------------------------------------------------------
\* One process: construction, preflight, close.

\* main constructs the executor, and with it both publishers.
Construct(p) == At(p, "off") /\ GoTo(p, "built") /\ Gate /\ UNCHANGED executorVars

\* Mutant of LockIsFree: the lock is taken whoever holds it.
LockIsIgnored == TRUE

\* flock, not blocking.
LockIsFree == lock = Free

AcquireLock(p) ==
    /\ At(p, "built") /\ Gate
    /\ \/ LockIsFree /\ lock' = p /\ GoTo(p, "locked")
       \/ ~LockIsFree /\ UNCHANGED lock /\ GoTo(p, "refused")
    /\ UNCHANGED <<exec, command, excused>>

\* Another process's publishers are there, but discovery may not have found
\* them yet.
HasPublishers(p) == proc[p] \notin {"off", "destroyed"}
CheckPublishers(p) ==
    /\ At(p, "locked") /\ Gate /\ UNCHANGED executorVars
    /\ \/ GoTo(p, "idle")
       \/ (\E q \in Procs \ {p} : HasPublishers(q)) /\ GoTo(p, "refused")

\* The run fails before the preflight is complete; stop has nothing to do.
Refuse(p) == /\ proc[p] \in {"built", "locked"}
             /\ GoTo(p, "refused") /\ Gate /\ UNCHANGED executorVars

\* close: the node first, the lock last.
Destroy(p) == /\ proc[p] \in {"idle", "closing", "refused"}
              /\ GoTo(p, "destroyed")
              /\ IF proc[p] \in Driving THEN Gone ELSE Gate /\ UNCHANGED exec
              /\ UNCHANGED <<lock, command, excused>>

Released(p) == IF lock = p THEN Free ELSE lock

Unlock(p) == /\ At(p, "destroyed") /\ GoTo(p, "off") /\ Gate
             /\ lock' = Released(p)
             /\ UNCHANGED <<exec, command, excused>>

\* The process is killed: the system drops its lock and its publishers.
Die(p) == /\ proc[p] # "off"
          /\ GoTo(p, "off")
          /\ lock' = Released(p)
          /\ IF proc[p] \in Driving
             THEN Gone /\ excused' = (excused \/ command = "motion")
             ELSE Gate /\ UNCHANGED <<exec, excused>>
          /\ UNCHANGED command

-----------------------------------------------------------------------------
\* Commands.  _publish_pair notes that something was published.

Move(e) == /\ command' = "motion"
           /\ excused' = FALSE
           /\ exec' = [e EXCEPT !.hasPublished = TRUE]
           /\ UNCHANGED lock

\* An exception, or an interrupt, between two commands.
Raise(p) == /\ proc[p] \in Driving \ {"raised", "closing"}
            /\ GoTo(p, "raised") /\ LeavesGate /\ UNCHANGED executorVars

\* reset drives the arm and then waits for it to arrive.
Reset(p) == /\ At(p, "idle") /\ Move(exec) /\ Gate
            /\ GoTo(p, "ready") \/ GoTo(p, "raised")

BeginStage(p, k) == /\ proc[p] \in {"idle", "ready"}
                    /\ GateBegin(k)
                    /\ exec' = [exec EXCEPT !.skill = k, !.rows = 0]
                    /\ GoTo(p, "staged")
                    /\ UNCHANGED <<lock, callback, command, excused>>

\* Mutant of WithinBudget: a chunk is begun when one row is left.
WithinBudgetByARow == exec.rows < ActionSteps

\* _rollout raises (Raise) rather than exceed the stage's budget.
WithinBudget == exec.rows + ChunkRows <= ActionSteps

\* publish: the transition to the first row of a chunk.
FirstRow(p) == /\ At(p, "staged") /\ Gate
               /\ WithinBudget
               /\ Move([exec EXCEPT !.rows = @ + 1, !.left = ChunkRows - 1])
               /\ GoTo(p, "snapshot")

NextRow(p) == /\ At(p, "row") /\ Gate
              /\ Move([exec EXCEPT !.rows = @ + 1, !.left = @ - 1])
              /\ GoTo(p, "snapshot")

\* No joint rest: the next row, or back to the caller for another chunk.
GoOn(p) == GoTo(p, IF exec.left > 0 THEN "row" ELSE "staged")

\* reached_result, section by section.
TakeSnapshot(p) ==
    /\ At(p, "snapshot")
    /\ GateSnapshot(exec.skill)
    /\ IF view' = <<>> THEN GoOn(p) ELSE GoTo(p, "armed")
    /\ UNCHANGED <<callback, executorVars>>

ReadArmed(p) ==
    /\ At(p, "armed") /\ UNCHANGED executorVars
    /\ IF gate.armed THEN GoTo(p, "decide") /\ Gate ELSE GoOn(p) /\ LeavesGate

Decide(p) ==
    /\ At(p, "decide") /\ UNCHANGED executorVars
    /\ \/ GateJudgesDeparture(exec.skill) /\ GoOn(p) /\ UNCHANGED callback
       \/ /\ gate.departed
          /\ IF Reached(exec.skill, exec.rows) THEN GoTo(p, "rest") /\ Gate
             ELSE GoOn(p) /\ LeavesGate

-----------------------------------------------------------------------------
\* stop: after joint rest, and again from the safe stop after an exception.

Stopping(p) == proc[p] \in {"rest", "raised"}

\* Mutant of NeedsHold: only a stage is held, not a reset.
NeedsHoldInStage == exec.hasPublished /\ exec.skill # NoSkill

NeedsHold == exec.hasPublished

Hold == command' = "hold" /\ excused' = FALSE

Stop(p) ==
    /\ Stopping(p) /\ LeavesGate
    /\ IF NeedsHold THEN Hold ELSE UNCHANGED <<command, excused>>
    /\ exec' = [exec EXCEPT !.skill = NoSkill, !.hasPublished = @ /\ ~NeedsHold]
    /\ GoTo(p, IF At(p, "rest") THEN "idle" ELSE "closing")
    /\ UNCHANGED lock

\* The hold cannot be published, or not to the end: the safe stop follows,
\* or, if this was it, the failure is noted and the program ends.
StopFails(p) ==
    /\ Stopping(p) /\ LeavesGate
    /\ NeedsHold
    /\ \/ Hold
       \/ UNCHANGED command /\ excused' = (excused \/ command = "motion")
    /\ GoTo(p, IF At(p, "rest") THEN "raised" ELSE "closing")
    /\ UNCHANGED <<lock, exec>>

-----------------------------------------------------------------------------
\* The joint callbacks: the cache first, then the gate.  Those of a process
\* that is on its way out change only a gate nobody asks again.
Receive == /\ callback = <<>>
           /\ \E p \in Procs : proc[p] \in Driving \ {"raised", "closing"}
           /\ \E m \in JointMessage : callback' = <<m>>
           /\ UNCHANGED <<gateVars, proc, executorVars>>

UpdateGate == /\ callback # <<>>
              /\ Len(seen) < MaxSamples
              /\ GateUpdate(callback[1].arm, callback[1].pos)
              /\ callback' = <<>>
              /\ UNCHANGED <<proc, executorVars>>

ArmNext == \/ \E p \in Procs :
                 \/ Construct(p) \/ AcquireLock(p) \/ CheckPublishers(p)
                 \/ Refuse(p) \/ Destroy(p) \/ Unlock(p) \/ Die(p)
                 \/ Raise(p) \/ Reset(p) \/ FirstRow(p) \/ NextRow(p)
                 \/ \E k \in Skills : BeginStage(p, k)
                 \/ TakeSnapshot(p) \/ ReadArmed(p) \/ Decide(p)
                 \/ Stop(p) \/ StopFails(p)
           \/ Receive \/ UpdateGate

ArmSpec == ArmInit /\ [][ArmNext]_armVars

-----------------------------------------------------------------------------
\* A stage ends only by a real round trip, whatever samples arrive between
\* the sections of reached_result: since begin_stage an arming pose was seen,
\* a pose away from every target was seen, and then, no earlier than it, the
\* skill's full window of consecutive samples, all of them at one target; and
\* the stage had published its minimum of rows.
RestIsARoundTrip ==
    \A p \in Procs : At(p, "rest") =>
        LET k == exec.skill  profile == Profiles[k]
        IN  /\ Len(view) = profile.window_samples
            /\ \A i \in 1 .. Len(view) - 1 : view[i + 1] = view[i] + 1
            /\ \E i \in DOMAIN seen : IsArming(k, seen[i])
            /\ \E d \in 1 .. view[1] : ~TargetIsNear(k, seen[d])
            /\ \E t \in profile.targets : \A i \in DOMAIN view :
                  Abs(seen[view[i]] - t) <= profile.tolerance + profile.max_spread
            /\ exec.rows >= profile.min_publish_step

\* S-003: at most one process of the host is past its preflight, and only it
\* can command the arm, though the search for other publishers may miss some.
OneDriver == \A p \in Procs : proc[p] \in Driving => lock = p

\* S-015: whenever a stage is over, and whenever the arm is free for another
\* process, the arm's last command was to hold, unless the stop itself failed
\* or the process was killed (stop, _has_published, close).
LeftHolding ==
    lock = Free \/ (\E p \in Procs : At(p, "idle")) =>
        command # "motion" \/ excused
=============================================================================
