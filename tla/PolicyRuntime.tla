--------------------------- MODULE PolicyRuntime ---------------------------
(***************************************************************************)
(* The server process: PolicyRuntime (server/runtime.py) with its trial    *)
(* audit store, driven by                                                  *)
(*   - the asyncio event loop, ONE thread, which runs every control        *)
(*     command to completion (blocking on locks if it must), sends the     *)
(*     inference responses and reacts when a send fails;                   *)
(*   - worker threads (asyncio.to_thread), each running one infer() call.  *)
(* Two locks: _condition, held for a whole `with` block, so such a block   *)
(* is one action here; and _execution_lock, held across the policy call    *)
(* and acquired with a timeout, a variable here.  A command that is        *)
(* rejected changes nothing and is a stuttering step.                      *)
(***************************************************************************)
EXTENDS TrialAudit, FiniteSets

CONSTANTS Workers,      \* threads of the inference front end
          NoSession,    \* _session is None
          Loop,         \* the event-loop thread, as a lock owner
          Free          \* nobody owns _execution_lock

ASSUME PolicyRuntimeAssumption ==
    /\ Loop \notin Workers
    /\ Free \notin Workers
    /\ Loop # Free

VARIABLES state,          \* _state
          activeSkill,    \* _active_skill
          generation,     \* _generation
          session,        \* _session: the ACTIVE lease, or NoSession
          trialId,        \* _trial_id
          inFlight,       \* _in_flight
          executionLock,  \* owner of _execution_lock
          loop,           \* what the event-loop thread is executing
          pc,             \* pc[w]: where worker w is in infer()
          lease,          \* lease[w]: the lease (and response) w holds
          instance,       \* ordinal of this server process
          stopping,       \* the stop event is set, the listeners close
          opened,         \* session ids handed out so far (uuid4: never reused)
          delivered       \* history: responses the transport accepted

lockVars    == <<inFlight, executionLock, pc, lease>>
serviceVars == <<state, activeSkill, generation, session, trialId>>
vars == <<active, requestCount, disk, state, activeSkill, generation, session,
          trialId, inFlight, executionLock, loop, pc, lease, instance,
          stopping, opened, delivered>>

RuntimeStates == {"STARTING", "LOADING", "READY", "DRAINING", "SWITCHING",
                  "FAILED", "STOPPING"}

\* RUNTIME_TRANSITIONS of common/state.py.
RuntimeTransitions ==
    [s \in RuntimeStates |->
        CASE s = "STARTING"  -> {"LOADING", "STOPPING", "FAILED"}
          [] s = "LOADING"   -> {"READY", "FAILED", "STOPPING"}
          [] s = "READY"     -> {"DRAINING", "FAILED", "STOPPING"}
          [] s = "DRAINING"  -> {"SWITCHING", "FAILED", "STOPPING"}
          [] s = "SWITCHING" -> {"LOADING", "FAILED", "STOPPING"}
          [] s = "FAILED"    -> {"STOPPING"}
          [] s = "STOPPING"  -> {}]

\* SessionLease: `sequence` is next_sequence for the lease in `session`, and
\* the number of the request being served for the copy in lease[w].
Lease == [session : Sessions, trial : Trials, skill : Skills,
          generation : Generations, sequence : 0 .. MaxSequence + 1]

\* None is neither a SessionLease nor a session id.
ASSUME NoSessionAssumption == NoSession \notin Lease \cup Sessions

LoopSteps == {"idle", "prepare-lock", "prepare", "publish", "begin-lock",
              "begin", "abort-lock", "abort", "exited"}
LoopState == [step : LoopSteps, skill : Skills \cup {NoSkill},
              trial : Trials \cup {NoTrial}]
Idle == [step |-> "idle", skill |-> NoSkill, trial |-> NoTrial]
At(s) == loop.step = s
GoTo(s) == loop' = [loop EXCEPT !.step = s]

WorkerSteps == {"idle", "waiting", "validating", "policy", "recorded",
                "answering", "failing", "sending"}
InCriticalSection == {"policy", "recorded", "answering", "failing"}

RuntimeTypeOK ==
    /\ AuditTypeOK
    /\ state \in RuntimeStates
    /\ activeSkill \in Skills \cup {NoSkill}
    /\ generation \in Generations
    /\ session \in Lease \cup {NoSession}
    /\ trialId \in Trials \cup {NoTrial}
    /\ inFlight \in Nat
    /\ executionLock \in Workers \cup {Loop, Free}
    /\ loop \in LoopState
    /\ pc \in [Workers -> WorkerSteps]
    /\ lease \in [Workers -> Identity \cup {NoSession}]
    /\ instance \in 1 .. MaxInstances
    /\ stopping \in BOOLEAN
    /\ opened \subseteq Sessions
    /\ delivered \subseteq Identity

Init ==
    /\ AuditInit
    /\ instance = 1
    /\ opened = {}
    /\ delivered = {}
    /\ state = "STARTING"
    /\ activeSkill = NoSkill
    /\ generation = 0
    /\ session = NoSession
    /\ trialId = NoTrial
    /\ inFlight = 0
    /\ executionLock = Free
    /\ loop = Idle
    /\ pc = [w \in Workers |-> "idle"]
    /\ lease = [w \in Workers |-> NoSession]
    /\ stopping = FALSE

-----------------------------------------------------------------------------
\* Mutant of Fail: the session survives the failure.
FailKeepingSession ==
    /\ state' = IF state \in {"FAILED", "STOPPING"} THEN state ELSE "FAILED"
    /\ UNCHANGED <<activeSkill, generation, session>>

\* _fail_locked: invalidate the session; FAILED unless already FAILED or
\* STOPPING.  The trial, if any, stays open.
Fail == /\ session' = NoSession
        /\ state' = IF state \in {"FAILED", "STOPPING"} THEN state ELSE "FAILED"
        /\ UNCHANGED <<activeSkill, generation>>

\* Mutant of FailKeepingTrial: the runtime forgets the trial it failed in.
FailForgettingTrial == Fail /\ trialId' = NoTrial

FailKeepingTrial == Fail /\ UNCHANGED trialId

Control  == UNCHANGED <<loop, instance, stopping>>
Calls    == UNCHANGED <<inFlight, pc, lease>>
History  == UNCHANGED <<opened, delivered>>
Evidence == UNCHANGED auditVars

Quiet       == UNCHANGED serviceVars /\ Evidence     \* nothing visible changes
LoopFrame   == Calls /\ History /\ UNCHANGED <<instance, stopping>>
BlockFrame  == LoopFrame /\ UNCHANGED <<loop, executionLock>>
WorkerFrame == Control /\ History

\* Mutant of TakeLock: no mutual exclusion.
TakeLockAlways(owner) == executionLock' = owner

\* Mutant of Contended: acquire() without a timeout.
NeverTimesOut == FALSE

\* _execution_lock.acquire(timeout=...) gets the lock while it is free, and
\* may give up while it is not.
TakeLock(owner) == executionLock = Free /\ executionLock' = owner
ReleaseLock     == executionLock' = Free
Contended       == executionLock # Free

-----------------------------------------------------------------------------
(* prepare_skill.  Its first block runs READY -> DRAINING -> SWITCHING ->   *)
(* LOADING without releasing _condition when nothing is in flight, and     *)
(* DrainNeverWaits below says nothing ever is: the wait loop is dead code. *)

\* Mutants of CanPrepare: no test of the open trial, no test of the state.
CanPrepareDuringTrial == state \in {"STARTING", "READY"}
CanPrepareAnyState    == trialId = NoTrial

CanPrepare == trialId = NoTrial /\ state \in {"STARTING", "READY"}

PrepareSkill(k) ==
    /\ At("idle")
    /\ CanPrepare
    /\ generation < MaxGeneration
    /\ session' = NoSession
    /\ state' = "LOADING"
    /\ loop' = [Idle EXCEPT !.step = "prepare-lock", !.skill = k]
    /\ UNCHANGED <<activeSkill, generation, trialId, executionLock>>
    /\ LoopFrame /\ Evidence

\* The loop thread gets the execution lock, in any command that needs it.
LoopLocks(from, to) == At(from) /\ TakeLock(Loop) /\ GoTo(to) /\ LoopFrame /\ Quiet

PrepareLocks == LoopLocks("prepare-lock", "prepare")

PrepareLockTimeout ==
    /\ At("prepare-lock") /\ Contended
    /\ FailKeepingTrial
    /\ loop' = Idle
    /\ UNCHANGED executionLock /\ LoopFrame /\ Evidence

\* backend.prepare raises, or reports another skill.
PrepareFails ==
    /\ At("prepare")
    /\ FailKeepingTrial
    /\ ReleaseLock /\ loop' = Idle
    /\ LoopFrame /\ Evidence

PrepareReturns == At("prepare") /\ ReleaseLock /\ GoTo("publish") /\ LoopFrame /\ Quiet

PublishSkill ==
    /\ At("publish")
    /\ activeSkill' = loop.skill
    /\ generation' = generation + 1
    /\ state' = "READY"
    /\ loop' = Idle
    /\ UNCHANGED <<session, trialId, executionLock>>
    /\ LoopFrame /\ Evidence

-----------------------------------------------------------------------------
(* begin_trial: the execution lock, then one block.                        *)

BeginTrial(t) ==
    /\ At("idle")
    /\ loop' = [Idle EXCEPT !.step = "begin-lock", !.trial = t]
    /\ UNCHANGED executionLock /\ LoopFrame /\ Quiet

BeginTrialLocks == LoopLocks("begin-lock", "begin")

\* INFERENCE_BUSY: the service does not fail.
BeginTrialLockTimeout ==
    /\ At("begin-lock") /\ Contended
    /\ loop' = Idle
    /\ UNCHANGED executionLock /\ LoopFrame /\ Quiet

CanBeginTrial == state = "READY" /\ trialId = NoTrial /\ activeSkill # NoSkill

BeginTrialReturns == At("begin") /\ ReleaseLock /\ loop' = Idle /\ LoopFrame

BeginTrialRejected == BeginTrialReturns /\ ~CanBeginTrial /\ Quiet

BeginTrialSucceeds ==
    /\ BeginTrialReturns
    /\ CanBeginTrial
    /\ AuditBegin(loop.trial, activeSkill, generation)
    /\ trialId' = loop.trial
    /\ UNCHANGED <<state, activeSkill, generation, session>>

\* A RuntimeFault of the store is re-raised without failing the service.
BeginTrialAuditFails ==
    /\ BeginTrialReturns
    /\ CanBeginTrial
    /\ AuditBeginFails(loop.trial, activeSkill, generation)
    /\ UNCHANGED serviceVars

\* reset_prng raises.
BeginTrialPolicyFails ==
    BeginTrialReturns /\ CanBeginTrial /\ FailKeepingTrial /\ Evidence

-----------------------------------------------------------------------------
(* open_session, close_session, end_trial: one block each.                 *)

OpenSession(s) ==
    /\ At("idle")
    /\ state = "READY"
    /\ trialId # NoTrial
    /\ activeSkill # NoSkill
    /\ session = NoSession
    /\ s \notin opened
    /\ opened' = opened \cup {s}
    /\ session' = [session |-> s, trial |-> trialId, skill |-> activeSkill,
                   generation |-> generation, sequence |-> 0]
    /\ UNCHANGED <<state, activeSkill, generation, trialId, executionLock,
                   delivered>>
    /\ Control /\ Calls /\ Evidence

\* Mutant of CanCloseSession: in_flight is not looked at.
CanCloseBusySession == session # NoSession

CanCloseSession == session # NoSession /\ inFlight = 0

CloseSession ==
    /\ At("idle")
    /\ CanCloseSession
    /\ session' = NoSession
    /\ UNCHANGED <<state, activeSkill, generation, trialId>>
    /\ BlockFrame /\ Evidence

\* Mutant of CanEndTrial: an ACTIVE session does not keep the trial open.
CanEndLiveTrial == trialId # NoTrial

\* No check of _state: a FAILED server ends its trial too.
CanEndTrial == session = NoSession /\ trialId # NoTrial

EndTrial ==
    /\ At("idle")
    /\ CanEndTrial
    /\ AuditEnd
    /\ trialId' = NoTrial
    /\ UNCHANGED <<state, activeSkill, generation, session>>
    /\ BlockFrame

EndTrialAuditFails ==
    /\ At("idle")
    /\ CanEndTrial
    /\ AuditEndFails
    /\ FailKeepingTrial
    /\ BlockFrame

-----------------------------------------------------------------------------
(* abort: waits for the policy to be idle, then closes session and trial.  *)

Abort ==
    /\ At("idle")
    /\ GoTo("abort-lock")
    /\ UNCHANGED executionLock /\ LoopFrame /\ Quiet

AbortLocks == LoopLocks("abort-lock", "abort")

\* The policy held the lock for 30 s: the service fails, the trial stays open.
AbortLockTimeout ==
    /\ At("abort-lock") /\ Contended
    /\ FailKeepingTrial
    /\ loop' = Idle
    /\ UNCHANGED executionLock /\ LoopFrame /\ Evidence

AbortReturns == At("abort") /\ ReleaseLock /\ loop' = Idle /\ LoopFrame

AbortSucceeds ==
    /\ AbortReturns
    /\ session' = NoSession
    /\ trialId' = NoTrial
    /\ IF active = NoTrial THEN Evidence ELSE AuditTerminate("ABORTED")
    /\ UNCHANGED <<state, activeSkill, generation>>

AbortAuditFails ==
    /\ AbortReturns
    /\ AuditTerminateFails("ABORTED")
    /\ FailKeepingTrial

-----------------------------------------------------------------------------
(* infer, on a worker thread.                                              *)

Move(w, from, to) == pc[w] = from /\ pc' = [pc EXCEPT ![w] = to]

Request(w) ==
    /\ ~stopping
    /\ Move(w, "idle", "waiting")
    /\ UNCHANGED <<inFlight, executionLock, lease>>
    /\ WorkerFrame /\ Quiet

InferLockTimeout(w) ==
    /\ Contended
    /\ Move(w, "waiting", "idle")
    /\ UNCHANGED <<inFlight, executionLock, lease>>
    /\ WorkerFrame /\ Quiet

InferLocks(w) ==
    /\ TakeLock(w)
    /\ Move(w, "waiting", "validating")
    /\ UNCHANGED <<inFlight, lease>>
    /\ WorkerFrame /\ Quiet

\* Mutant of Admissible: the sequence number is not compared.
AdmissibleInAnyOrder(r) ==
    /\ session # NoSession
    /\ r = [session EXCEPT !.sequence = r.sequence]
    /\ state = "READY"

\* _validate_request_locked.  Nothing depends on the request before this
\* block, so its contents are chosen here.  Knowing the session id stands
\* for knowing the token too: both are handed out together.
Admissible(r) ==
    /\ session # NoSession
    /\ r.session = session.session
    /\ r.trial = session.trial /\ r.trial = trialId
    /\ r.skill = session.skill /\ r.skill = activeSkill
    /\ r.generation = session.generation /\ r.generation = generation
    /\ r.sequence = session.sequence
    /\ state = "READY"

Validate(w, r) ==
    /\ Admissible(r)
    /\ Move(w, "validating", "policy")
    /\ inFlight' = inFlight + 1
    /\ lease' = [lease EXCEPT ![w] = r]
    /\ UNCHANGED executionLock
    /\ WorkerFrame /\ Quiet

Reject(w, r) ==
    /\ ~Admissible(r)
    /\ Move(w, "validating", "idle")
    /\ ReleaseLock
    /\ UNCHANGED <<inFlight, lease>>
    /\ WorkerFrame /\ Quiet

\* The monotonic clock has passed expires_at: EXPIRED, the service goes on.
Expire(w) ==
    /\ session # NoSession
    /\ Move(w, "validating", "idle")
    /\ ReleaseLock
    /\ session' = NoSession
    /\ UNCHANGED <<state, activeSkill, generation, trialId, inFlight, lease>>
    /\ WorkerFrame /\ Evidence

\* Mutant of Record: a response without record_request.
RecordNothing(w) ==
    /\ Move(w, "policy", "recorded")
    /\ active # NoTrial
    /\ UNCHANGED <<inFlight, executionLock, lease>>
    /\ WorkerFrame /\ Quiet

\* Outside _condition: the policy call and record_request.
Record(w) ==
    /\ Move(w, "policy", "recorded")
    /\ AuditRecord(lease[w])
    /\ UNCHANGED serviceVars
    /\ UNCHANGED <<inFlight, executionLock, lease>>
    /\ WorkerFrame

\* The policy raises, or the store does (TRIAL_REQUIRED or an OSError).
InferFails(w) ==
    /\ Move(w, "policy", "failing")
    /\ Evidence \/ AuditRecordFails(lease[w])
    /\ FailKeepingTrial
    /\ UNCHANGED <<inFlight, executionLock, lease>>
    /\ WorkerFrame

\* `self._session is lease`: leases are identified by their session id.
HoldsLease(w) == session # NoSession /\ session.session = lease[w].session

\* Mutant of Confirm: the lease is not looked at again after the call.
ConfirmUnchecked(w) ==
    /\ Move(w, "recorded", "answering")
    /\ session' = IF session = NoSession THEN session
                  ELSE [session EXCEPT !.sequence = @ + 1]
    /\ UNCHANGED <<state, activeSkill, generation, trialId, inFlight,
                   executionLock, lease>>
    /\ WorkerFrame /\ Evidence

Confirm(w) ==
    /\ Move(w, "recorded", "answering")
    /\ HoldsLease(w)
    /\ session' = [session EXCEPT !.sequence = @ + 1]
    /\ UNCHANGED <<state, activeSkill, generation, trialId, inFlight,
                   executionLock, lease>>
    /\ WorkerFrame /\ Evidence

LeaseLost(w) ==
    /\ Move(w, "recorded", "failing")
    /\ ~HoldsLease(w)
    /\ FailKeepingTrial
    /\ UNCHANGED <<inFlight, executionLock, lease>>
    /\ WorkerFrame /\ Evidence

\* The finally block: in_flight - 1, notify_all, release the execution lock.
Leave(w) ==
    /\ \/ Move(w, "answering", "sending") /\ UNCHANGED lease
       \/ Move(w, "failing", "idle") /\ lease' = [lease EXCEPT ![w] = NoSession]
    /\ inFlight' = inFlight - 1
    /\ ReleaseLock
    /\ WorkerFrame /\ Quiet

-----------------------------------------------------------------------------
(* LoopbackInferenceServer._handle_connection, on the loop thread: send    *)
(* the response, or mark_transport_ambiguous when the send fails.          *)

Settle(w) == /\ At("idle")
             /\ Move(w, "sending", "idle")
             /\ lease' = [lease EXCEPT ![w] = NoSession]
             /\ UNCHANGED <<inFlight, executionLock, opened>>
             /\ Control

Deliver(w) ==
    /\ Settle(w)
    /\ ~stopping
    /\ delivered' = delivered \cup {lease[w]}
    /\ Quiet

\* mark_transport_ambiguous returns early when its session is gone.
SendFails(w) ==
    /\ Settle(w)
    /\ UNCHANGED delivered
    /\ ~HoldsLease(w)
    /\ Quiet

SendFailsAmbiguous(w) ==
    /\ Settle(w)
    /\ UNCHANGED delivered
    /\ HoldsLease(w)
    /\ \/ AuditTerminate("AMBIGUOUS_INFERENCE") /\ trialId' = NoTrial
       \/ AuditTerminateFails("AMBIGUOUS_INFERENCE") /\ UNCHANGED trialId
    /\ Fail

-----------------------------------------------------------------------------
(* run_server: the stop event closes the listeners; their handlers end     *)
(* before runtime.close() runs, on the same thread, and the process exits. *)

Stop ==
    /\ ~stopping
    /\ stopping' = TRUE
    /\ UNCHANGED <<loop, executionLock, instance>>
    /\ Calls /\ History /\ Quiet

Close ==
    /\ stopping
    /\ At("idle")
    /\ \A w \in Workers : pc[w] = "idle"
    /\ state' = "STOPPING"
    /\ session' = NoSession
    /\ \/ trialId = NoTrial /\ Evidence /\ UNCHANGED trialId
       \/ /\ trialId # NoTrial
          /\ AuditTerminate("ABORTED")
          /\ trialId' = NoTrial
       \/ trialId # NoTrial /\ AuditTerminateFails("ABORTED") /\ UNCHANGED trialId
    /\ GoTo("exited")
    /\ UNCHANGED <<activeSkill, generation, executionLock>>
    /\ LoopFrame

\* The process has exited, or dies anywhere (the files are then those of a
\* call that failed); the owner lock lets one new process take the root.
Restart ==
    /\ instance < MaxInstances
    /\ instance' = instance + 1
    /\ AuditRestart
    /\ state' = "STARTING"
    /\ activeSkill' = NoSkill
    /\ generation' = 0
    /\ session' = NoSession
    /\ trialId' = NoTrial
    /\ inFlight' = 0
    /\ executionLock' = Free
    /\ loop' = Idle
    /\ pc' = [w \in Workers |-> "idle"]
    /\ lease' = [w \in Workers |-> NoSession]
    /\ stopping' = FALSE
    /\ History

-----------------------------------------------------------------------------
\* What the loop thread does to finish the command it is in.
LoopStep ==
    \/ PrepareLocks \/ PrepareLockTimeout \/ PrepareFails \/ PrepareReturns
    \/ PublishSkill
    \/ BeginTrialLocks \/ BeginTrialLockTimeout \/ BeginTrialRejected
    \/ BeginTrialSucceeds \/ BeginTrialAuditFails \/ BeginTrialPolicyFails
    \/ AbortLocks \/ AbortLockTimeout \/ AbortSucceeds \/ AbortAuditFails

\* A control command arrives.
Command ==
    \/ \E k \in Skills : PrepareSkill(k)
    \/ \E t \in Trials : BeginTrial(t)
    \/ \E s \in Sessions : OpenSession(s)
    \/ CloseSession \/ EndTrial \/ EndTrialAuditFails \/ Abort

\* What worker w does to finish the call it is in.
WorkerStep(w) ==
    \/ InferLocks(w) \/ InferLockTimeout(w) \/ Expire(w)
    \/ \E r \in Identity : Validate(w, r) \/ Reject(w, r)
    \/ Record(w) \/ InferFails(w) \/ Confirm(w) \/ LeaseLost(w) \/ Leave(w)

Send(w) == Deliver(w) \/ SendFails(w) \/ SendFailsAmbiguous(w)

Next == \/ LoopStep \/ Command
        \/ \E w \in Workers : Request(w) \/ WorkerStep(w) \/ Send(w)
        \/ Stop \/ Close \/ Restart

Spec == Init /\ [][Next]_vars

\* The operating system runs both threads, a policy call returns or raises,
\* and asyncio runs every ready task in turn, so a handler with a response
\* to send gets the loop infinitely often unless a command holds it forever.
Fairness == /\ WF_vars(LoopStep)
            /\ \A w \in Workers : WF_vars(WorkerStep(w)) /\ SF_vars(Send(w))
=============================================================================
