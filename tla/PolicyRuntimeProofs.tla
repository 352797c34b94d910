------------------------ MODULE PolicyRuntimeProofs ------------------------
(***************************************************************************)
(* Invariants of PolicyRuntime, proved for every set of workers, trials,   *)
(* sessions and skills and for every bound.  IInv is inductive: there is a *)
(* lemma per handler with one step per action, then the theorems.          *)
(***************************************************************************)
EXTENDS PolicyRuntimeProperties, TrialAuditProofs, FiniteSetTheorems

USE TrialAuditAssumption, PolicyRuntimeAssumption, NoSessionAssumption

\* How actions are written.
USE DEF At, GoTo, Idle, Move, TakeLock, ReleaseLock, Contended,
        Fail, FailKeepingTrial, HoldsLease,
        Control, Calls, History, Evidence, Quiet, LoopFrame, BlockFrame,
        WorkerFrame, LoopLocks, serviceVars, auditVars

\* A copy of a lease at an admissible sequence number is a lease.
LEMMA IdentityIsLease == Identity \subseteq Lease
<1>1. 0 .. MaxSequence \subseteq 0 .. MaxSequence + 1
  OBVIOUS
<1>2. QED BY <1>1 DEF Identity, Lease

\* A handler that does not touch the store keeps it well typed.
LEMMA EvidenceKept == AuditTypeOK /\ Evidence => AuditTypeOK'
  BY DEF AuditTypeOK

\* Nothing is in flight on a service that has no trial and has not failed:
\* the runtime never waits in the drain loop of prepare_skill.
LEMMA Drained ==
  ASSUME IInv, trialId = NoTrial, state # "FAILED", NEW w \in Workers
  PROVE  pc[w] \notin InCriticalSection
<1> USE DEF IInv
<1>1. pc[w] \in InCriticalSection => lease[w] \in Lease
  BY IdentityIsLease DEF LeaseDiscipline
<1>2. pc[w] \in InCriticalSection => session # NoSession
  BY <1>1 DEF LeaseDiscipline, InCriticalSection
<1>3. session # NoSession => session.trial \in Trials /\ session.trial = trialId
  BY DEF RuntimeTypeOK, Lease, SessionBound
<1>4. QED BY <1>2, <1>3

\* A fresh process satisfies the invariant (PolicyRuntime.__init__).
LEMMA InitIInv == Init => IInv
<1> SUFFICES ASSUME Init PROVE IInv
  OBVIOUS
<1> USE DEF Init
<1>1. RuntimeTypeOK
  <2>1. instance \in 1 .. MaxInstances /\ generation \in Generations
    BY DEF Generations
  <2>2. pc \in [Workers -> WorkerSteps] /\ lease \in [Workers -> Identity \cup {NoSession}]
    BY DEF WorkerSteps
  <2>3. loop \in LoopState
    BY DEF LoopState, LoopSteps
  <2>4. QED
    BY <2>1, <2>2, <2>3, AuditInitType DEF RuntimeTypeOK, RuntimeStates
<1>2. LockDiscipline /\ InFlightCounts /\ LoopDiscipline /\ TrialDiscipline
  BY DEF LockDiscipline, InFlightCounts, LoopDiscipline, TrialDiscipline,
         InCriticalSection, Preparing
<1>3. LeaseDiscipline /\ SessionBound /\ TrialAuditCoupled
  BY DEF LeaseDiscipline, SessionBound, TrialAuditCoupled, InCriticalSection,
         AuditInit
<1>4. QED BY <1>1, <1>2, <1>3 DEF IInv

\* prepare_skill preserves the invariant.
LEMMA PrepareStep ==
  ASSUME IInv,
         \/ \E k \in Skills : PrepareSkill(k)
         \/ PrepareLocks
         \/ PrepareLockTimeout
         \/ PrepareFails
         \/ PrepareReturns
         \/ PublishSkill
  PROVE  IInv'
<1> USE DEF IInv, RuntimeTypeOK, RuntimeStates, LoopState, LoopSteps, WorkerSteps,
            Generations, LockDiscipline, InFlightCounts, LoopDiscipline,
            TrialDiscipline, Preparing, LeaseDiscipline, InCriticalSection,
            SessionBound, TrialAuditCoupled
<1>1. CASE \E k \in Skills : PrepareSkill(k)
  <2> PICK k \in Skills : PrepareSkill(k)
    BY <1>1
  <2>1. loop' \in LoopState /\ loop'.step = "prepare-lock" /\ loop'.skill = k
    BY DEF PrepareSkill
  <2>2. QED
    BY <2>1, EvidenceKept, Drained DEF PrepareSkill, CanPrepare
<1>2. CASE PrepareLocks
  BY <1>2, EvidenceKept, Drained DEF PrepareLocks, Lease, Identity
<1>3. CASE PrepareLockTimeout
  BY <1>3, EvidenceKept, Drained DEF PrepareLockTimeout, Lease, Identity
<1>4. CASE PrepareFails
  BY <1>4, EvidenceKept, Drained DEF PrepareFails, Lease, Identity
<1>5. CASE PrepareReturns
  BY <1>5, EvidenceKept, Drained DEF PrepareReturns, Lease, Identity
<1>6. CASE PublishSkill
  BY <1>6, EvidenceKept, Drained DEF PublishSkill, Lease, Identity
<1>7. QED BY <1>1, <1>2, <1>3, <1>4, <1>5, <1>6

\* begin_trial preserves the invariant.
LEMMA BeginTrialStep ==
  ASSUME IInv,
         \/ \E t \in Trials : BeginTrial(t)
         \/ BeginTrialLocks
         \/ BeginTrialLockTimeout
         \/ BeginTrialRejected
         \/ BeginTrialSucceeds
         \/ BeginTrialAuditFails
         \/ BeginTrialPolicyFails
  PROVE  IInv'
<1> USE DEF IInv, RuntimeTypeOK, RuntimeStates, LoopState, LoopSteps, WorkerSteps,
            Generations, LockDiscipline, InFlightCounts, LoopDiscipline,
            TrialDiscipline, Preparing, LeaseDiscipline, InCriticalSection,
            SessionBound, TrialAuditCoupled
<1>1. CASE \E t \in Trials : BeginTrial(t)
  <2> PICK t \in Trials : BeginTrial(t)
    BY <1>1
  <2>1. loop' \in LoopState /\ loop'.step = "begin-lock" /\ loop'.trial = t
    BY DEF BeginTrial
  <2>2. QED
    BY <2>1, EvidenceKept DEF BeginTrial
<1>2. CASE BeginTrialLocks
  BY <1>2, EvidenceKept, Drained DEF BeginTrialLocks, Lease, Identity
<1>3. CASE BeginTrialLockTimeout
  BY <1>3, EvidenceKept, Drained DEF BeginTrialLockTimeout, Lease, Identity
<1>4. CASE BeginTrialRejected
  BY <1>4, EvidenceKept, Drained DEF BeginTrialRejected, BeginTrialReturns,
                                     Lease, Identity
<1>5. CASE BeginTrialSucceeds
  <2>1. AuditTypeOK'
    BY <1>5, AuditBeginType DEF BeginTrialSucceeds, BeginTrialReturns,
                                CanBeginTrial, AuditBegin
  <2>2. QED
    BY <1>5, <2>1, Drained DEF BeginTrialSucceeds, BeginTrialReturns,
                               CanBeginTrial, AuditBegin, Lease
<1>6. CASE BeginTrialAuditFails
  <2>1. AuditTypeOK'
    BY <1>6, AuditBeginType DEF BeginTrialAuditFails, BeginTrialReturns,
                                CanBeginTrial, AuditBeginFails
  <2>2. QED
    BY <1>6, <2>1, Drained DEF BeginTrialAuditFails, BeginTrialReturns,
                               CanBeginTrial, AuditBeginFails, Lease
<1>7. CASE BeginTrialPolicyFails
  BY <1>7, EvidenceKept, Drained DEF BeginTrialPolicyFails,
                                     BeginTrialReturns, CanBeginTrial, Lease,
                                     Identity
<1>8. QED BY <1>1, <1>2, <1>3, <1>4, <1>5, <1>6, <1>7

\* open_session, close_session and end_trial preserve the invariant.
LEMMA SessionStep ==
  ASSUME IInv,
         \/ \E s \in Sessions : OpenSession(s)
         \/ CloseSession
         \/ EndTrial
         \/ EndTrialAuditFails
  PROVE  IInv'
<1> USE DEF IInv, RuntimeTypeOK, RuntimeStates, LoopState, LoopSteps, WorkerSteps,
            Generations, LockDiscipline, InFlightCounts, LoopDiscipline,
            TrialDiscipline, Preparing, LeaseDiscipline, InCriticalSection,
            SessionBound, TrialAuditCoupled
<1>1. CASE \E s \in Sessions : OpenSession(s)
  BY <1>1, EvidenceKept, Drained DEF OpenSession, Lease, Identity
<1>2. CASE CloseSession
  BY <1>2, EvidenceKept, Drained DEF CloseSession, CanCloseSession, Lease,
                                     Identity
<1>3. CASE EndTrial
  <2>1. AuditTypeOK'
    BY <1>3, AuditEndType DEF EndTrial, CanEndTrial, AuditEnd
  <2>2. QED
    BY <1>3, <2>1, Drained DEF EndTrial, CanEndTrial, AuditEnd, Lease
<1>4. CASE EndTrialAuditFails
  <2>1. AuditTypeOK'
    BY <1>4, AuditEndType DEF EndTrialAuditFails, CanEndTrial, AuditEndFails
  <2>2. QED
    BY <1>4, <2>1, Drained DEF EndTrialAuditFails, CanEndTrial,
                               AuditEndFails, Lease
<1>5. QED BY <1>1, <1>2, <1>3, <1>4

\* abort preserves the invariant.
LEMMA AbortStep ==
  ASSUME IInv,
         \/ Abort
         \/ AbortLocks
         \/ AbortLockTimeout
         \/ AbortSucceeds
         \/ AbortAuditFails
  PROVE  IInv'
<1> USE DEF IInv, RuntimeTypeOK, RuntimeStates, LoopState, LoopSteps, WorkerSteps,
            Generations, LockDiscipline, InFlightCounts, LoopDiscipline,
            TrialDiscipline, Preparing, LeaseDiscipline, InCriticalSection,
            SessionBound, TrialAuditCoupled
<1>1. CASE Abort
  BY <1>1, EvidenceKept, Drained DEF Abort, Lease, Identity
<1>2. CASE AbortLocks
  BY <1>2, EvidenceKept, Drained DEF AbortLocks, Lease, Identity
<1>3. CASE AbortLockTimeout
  BY <1>3, EvidenceKept, Drained DEF AbortLockTimeout, Lease, Identity
<1>4. CASE AbortSucceeds
  <2>1. CASE active = NoTrial
    BY <1>4, <2>1, EvidenceKept DEF AbortSucceeds, AbortReturns,
                                    AuditTerminate, Lease
  <2>2. CASE ~(active = NoTrial)
    <3>1. AuditTypeOK'
      BY <1>4, <2>2, AuditTerminateType DEF AbortSucceeds, AbortReturns,
                                            AuditTerminate
    <3>2. QED
      BY <1>4, <2>2, <3>1, Drained DEF AbortSucceeds, AbortReturns,
                                       AuditTerminate, Lease
  <2>3. QED BY <2>1, <2>2
<1>5. CASE AbortAuditFails
  <2>1. AuditTypeOK'
    BY <1>5, AuditTerminateType DEF AbortAuditFails, AbortReturns,
                                    AuditTerminateFails
  <2>2. QED
    BY <1>5, <2>1, Drained DEF AbortAuditFails, AbortReturns,
                               AuditTerminateFails, Lease
<1>6. QED BY <1>1, <1>2, <1>3, <1>4, <1>5

\* infer, on worker w, preserves the invariant.
LEMMA InferStep ==
  ASSUME IInv, NEW w \in Workers,
         \/ Request(w)
         \/ InferLockTimeout(w)
         \/ InferLocks(w)
         \/ \E r \in Identity : Validate(w, r)
         \/ \E r \in Identity : Reject(w, r)
         \/ Expire(w)
         \/ Record(w)
         \/ InferFails(w)
         \/ Confirm(w)
         \/ LeaseLost(w)
         \/ Leave(w)
  PROVE  IInv'
<1> USE DEF IInv, RuntimeTypeOK, RuntimeStates, LoopState, LoopSteps, WorkerSteps,
            Generations, LockDiscipline, InFlightCounts, LoopDiscipline,
            TrialDiscipline, Preparing, LeaseDiscipline, InCriticalSection,
            SessionBound, TrialAuditCoupled
<1>1. CASE Request(w)
  BY <1>1, EvidenceKept, Drained DEF Request, Lease, Identity
<1>2. CASE InferLockTimeout(w)
  BY <1>2, EvidenceKept, Drained DEF InferLockTimeout, Lease, Identity
<1>3. CASE InferLocks(w)
  BY <1>3, EvidenceKept, Drained DEF InferLocks, Lease, Identity
<1>4. CASE \E r \in Identity : Validate(w, r)
  <2> PICK r \in Identity : Validate(w, r)
    BY <1>4
  <2>1. r \in Lease /\ session \in Lease
    BY IdentityIsLease DEF Validate, Admissible
  <2>2. session = r
    <3> DEFINE Copy(x) == [session |-> x.session, trial |-> x.trial,
                           skill |-> x.skill, generation |-> x.generation,
                           sequence |-> x.sequence]
    <3>1. \A x \in Lease : x = Copy(x)
      BY DEF Lease
    <3>2. Copy(session) = Copy(r)
      BY DEF Validate, Admissible
    <3>3. QED BY <2>1, <3>1, <3>2
  <2>3. LeaseDiscipline'
    BY <2>2 DEF Validate, Admissible
  <2>4. QED
    BY <2>3, EvidenceKept DEF Validate, Admissible
<1>5. CASE \E r \in Identity : Reject(w, r)
  BY <1>5, EvidenceKept, Drained DEF Reject, Lease, Identity
<1>6. CASE Expire(w)
  BY <1>6, EvidenceKept, Drained DEF Expire, Lease, Identity
<1>7. CASE Record(w)
  <2>1. AuditTypeOK'
    BY <1>7, AuditRecordType DEF Record, AuditRecord
  <2>2. QED
    BY <1>7, <2>1, Drained DEF Record, AuditRecord, Lease
<1>8. CASE InferFails(w)
  <2>1. CASE Evidence
    BY <1>8, <2>1, EvidenceKept DEF InferFails, AuditRecordFails, Lease
  <2>2. CASE ~(Evidence)
    <3>1. AuditTypeOK'
      BY <1>8, <2>2, AuditRecordType DEF InferFails, AuditRecordFails
    <3>2. QED
      BY <1>8, <2>2, <3>1, Drained DEF InferFails, AuditRecordFails, Lease
  <2>3. QED BY <2>1, <2>2
<1>9. CASE Confirm(w)
  <2>1. session' \in Lease
    BY <1>9, IdentityIsLease DEF Confirm, Identity, Lease
  <2>2. QED
    BY <1>9, <2>1, EvidenceKept DEF Confirm, Lease
<1>10. CASE LeaseLost(w)
  BY <1>10, EvidenceKept, Drained DEF LeaseLost, Lease, Identity
<1>11. CASE Leave(w)
  BY <1>11, EvidenceKept, Drained DEF Leave, Lease, Identity
<1>12. QED BY <1>1, <1>2, <1>3, <1>4, <1>5, <1>6, <1>7, <1>8, <1>9, <1>10,
              <1>11

\* Sending w's response, or failing to, preserves the invariant.
LEMMA SendStep ==
  ASSUME IInv, NEW w \in Workers,
         \/ Deliver(w)
         \/ SendFails(w)
         \/ SendFailsAmbiguous(w)
  PROVE  IInv'
<1> USE DEF IInv, RuntimeTypeOK, RuntimeStates, LoopState, LoopSteps, WorkerSteps,
            Generations, LockDiscipline, InFlightCounts, LoopDiscipline,
            TrialDiscipline, Preparing, LeaseDiscipline, InCriticalSection,
            SessionBound, TrialAuditCoupled
<1>1. CASE Deliver(w)
  BY <1>1, EvidenceKept, Drained DEF Deliver, Settle, Lease, Identity
<1>2. CASE SendFails(w)
  BY <1>2, EvidenceKept, Drained DEF SendFails, Settle, Lease, Identity
<1>3. CASE SendFailsAmbiguous(w)
  <2>1. AuditTypeOK'
    BY <1>3, AuditTerminateType DEF SendFailsAmbiguous, Settle,
                                    AuditTerminate, AuditTerminateFails
  <2>2. QED
    BY <1>3, <2>1, Drained DEF SendFailsAmbiguous, Settle, AuditTerminate,
                               AuditTerminateFails, Lease
<1>4. QED BY <1>1, <1>2, <1>3

\* Shutdown and restart of the process preserve the invariant.
LEMMA ProcessStep ==
  ASSUME IInv,
         \/ Stop
         \/ Close
         \/ Restart
  PROVE  IInv'
<1> USE DEF IInv, RuntimeTypeOK, RuntimeStates, LoopState, LoopSteps, WorkerSteps,
            Generations, LockDiscipline, InFlightCounts, LoopDiscipline,
            TrialDiscipline, Preparing, LeaseDiscipline, InCriticalSection,
            SessionBound, TrialAuditCoupled
<1>1. CASE Stop
  BY <1>1, EvidenceKept, Drained DEF Stop, Lease, Identity
<1>2. CASE Close
  <2>1. CASE Evidence
    BY <1>2, <2>1, EvidenceKept DEF Close, AuditTerminate,
                                    AuditTerminateFails, Lease
  <2>2. CASE ~(Evidence)
    <3>1. AuditTypeOK'
      BY <1>2, <2>2, AuditTerminateType DEF Close, AuditTerminate,
                                            AuditTerminateFails
    <3>2. QED
      BY <1>2, <2>2, <3>1, Drained DEF Close, AuditTerminate,
                                       AuditTerminateFails, Lease
  <2>3. QED BY <2>1, <2>2
<1>3. CASE Restart
  <2>1. AuditTypeOK'
    BY <1>3 DEF Restart, AuditRestart, AuditTypeOK
  <2>2. instance' \in 1 .. MaxInstances /\ generation' \in Generations
    BY <1>3 DEF Restart
  <2>3. pc' \in [Workers -> WorkerSteps] /\ lease' \in [Workers -> Identity \cup {NoSession}]
    BY <1>3 DEF Restart
  <2>4. RuntimeTypeOK'
    BY <1>3, <2>1, <2>2, <2>3 DEF Restart
  <2>5. QED
    BY <1>3, <2>4 DEF Restart, AuditRestart
<1>4. QED BY <1>1, <1>2, <1>3

\* Every step of the server process preserves the invariant.
LEMMA NextIInv == IInv /\ [Next]_vars => IInv'
<1> SUFFICES ASSUME IInv, [Next]_vars PROVE IInv'
  OBVIOUS
<1>1. CASE LoopStep
  BY <1>1, PrepareStep, BeginTrialStep, AbortStep DEF LoopStep
<1>2. CASE Command
  BY <1>2, PrepareStep, BeginTrialStep, SessionStep, AbortStep DEF Command
<1>3. ASSUME NEW w \in Workers, Request(w) \/ WorkerStep(w)
      PROVE  IInv'
  BY <1>3, InferStep DEF WorkerStep
<1>4. ASSUME NEW w \in Workers, Send(w)
      PROVE  IInv'
  BY <1>4, SendStep DEF Send
<1>5. CASE Stop \/ Close \/ Restart
  BY <1>5, ProcessStep
<1>6. CASE UNCHANGED vars
  BY <1>6 DEF vars, IInv, RuntimeTypeOK, AuditTypeOK, LockDiscipline,
     InFlightCounts, LoopDiscipline, TrialDiscipline, LeaseDiscipline,
     SessionBound, TrialAuditCoupled
<1>7. QED BY <1>1, <1>2, <1>3, <1>4, <1>5, <1>6 DEF Next

-----------------------------------------------------------------------------
\* The server process always satisfies the inductive invariant.
THEOREM InvariantHolds == Spec => []IInv
  BY InitIInv, NextIInv, PTL DEF Spec

\* Every variable of the server process keeps its type: in particular
\* in_flight never goes below zero and no sequence number passes its bound.
THEOREM TypeCorrect == Spec => []RuntimeTypeOK
<1>1. IInv => RuntimeTypeOK
  BY DEF IInv
<1>2. QED BY <1>1, InvariantHolds, PTL

\* _trial_id and the store's _active name the same trial at every release of
\* _condition, through every failure of the store or the policy.
THEOREM TrialAuditAlwaysCoupled == Spec => []TrialAuditCoupled
<1>1. IInv => TrialAuditCoupled
  BY DEF IInv
<1>2. QED BY <1>1, InvariantHolds, PTL

\* A live session is bound to the policy, generation and trial being served
\* and exists only on a READY service.
THEOREM SessionAlwaysBound == Spec => []SessionBound
<1>1. IInv => SessionBound
  BY DEF IInv
<1>2. QED BY <1>1, InvariantHolds, PTL

\* While infer() is between its two blocks, the lease it validated stays the
\* live one unless the service has failed.
THEOREM InFlightAlwaysProtected == Spec => []InFlightProtected
<1>1. IInv => InFlightProtected
  <2> SUFFICES ASSUME IInv, NEW w \in Workers, pc[w] \in InCriticalSection,
                      state # "FAILED"
               PROVE  state = "READY" /\ HoldsLease(w)
    BY DEF InFlightProtected
  <2>1. state = "READY" /\ pc[w] # "failing"
    BY DEF IInv, LeaseDiscipline, InCriticalSection
  <2>2. lease[w] \in Lease
    BY IdentityIsLease DEF IInv, LeaseDiscipline
  <2>3. QED
    BY <2>1, <2>2 DEF IInv, LeaseDiscipline, InCriticalSection
<1>2. QED BY <1>1, InvariantHolds, PTL

\* prepare_skill is only ever admitted with nothing in flight.
THEOREM DrainNeverWaitsHolds == Spec => []DrainNeverWaits
<1>1. IInv => DrainNeverWaits
  BY Drained DEF DrainNeverWaits, IInv, InFlightCounts
<1>2. QED BY <1>1, InvariantHolds, PTL

\* S-004: one owner of the policy at a time, and in_flight counts it.
THEOREM PolicyAlwaysSerial == Spec => []PolicySerial
<1>1. IInv => PolicySerial
  <2> SUFFICES ASSUME IInv PROVE PolicySerial
    OBVIOUS
  <2> DEFINE Busy == {w \in Workers : pc[w] \in InCriticalSection}
  <2>1. \A w \in Busy : executionLock = w
    BY DEF IInv, LockDiscipline
  <2>2. CASE Busy = {}
    <3>1. inFlight = 0
      BY <2>2 DEF IInv, InFlightCounts
    <3>2. QED BY <2>1, <2>2, <3>1, FS_EmptySet DEF PolicySerial, IInv, LockDiscipline
  <2>3. CASE Busy # {}
    <3>1. Busy = {executionLock} /\ inFlight = 1
      BY <2>1, <2>3 DEF IInv, InFlightCounts
    <3>2. Cardinality(Busy) = 1
      BY <3>1, FS_Singleton
    <3>3. QED BY <2>1, <3>1, <3>2 DEF PolicySerial, IInv, LockDiscipline
  <2>4. QED BY <2>2, <2>3
<1>2. QED BY <1>1, InvariantHolds, PTL
-----------------------------------------------------------------------------
\* No handler leaves the transition table, and on a FAILED service none opens
\* a session or a trial or admits a request.
LEMMA FailClosedStep ==
  ASSUME IInv, Next, instance' = instance
  PROVE  /\ state' # state =>
               \/ state' \in RuntimeTransitions[state]
               \/ state = "READY" /\ state' = "LOADING"
         /\ state = "FAILED" =>
               /\ session' = NoSession
               /\ \A w \in Workers : pc'[w] = "policy" => pc[w] = "policy"
               /\ active' \in {active, NoTrial}
<1> DEFINE Legal == state' # state =>
                       \/ state' \in RuntimeTransitions[state]
                       \/ state = "READY" /\ state' = "LOADING"
           NothingStarts == state = "FAILED" =>
                       /\ session' = NoSession
                       /\ \A w \in Workers : pc'[w] = "policy" => pc[w] = "policy"
                       /\ active' \in {active, NoTrial}
<1> USE DEF RuntimeTransitions, RuntimeStates
<1>0. /\ state \in {"STARTING", "LOADING", "READY", "FAILED", "STOPPING"}
      /\ session # NoSession => state = "READY"
      /\ loop.step \in Preparing <=> state = "LOADING"
      /\ loop.step = "exited" <=> state = "STOPPING"
      /\ loop.step = "exited" => \A w \in Workers : pc[w] = "idle"
      /\ pc \in [Workers -> WorkerSteps]
      /\ \A w \in Workers : pc[w] = "policy" => state \in {"READY", "FAILED"}
  BY DEF IInv, RuntimeTypeOK, TrialDiscipline, SessionBound, LoopDiscipline,
         LeaseDiscipline, InCriticalSection
<1>1. CASE LoopStep
  BY <1>0, <1>1 DEF LoopStep, PrepareLocks, PrepareLockTimeout, PrepareFails, PrepareReturns,
     PublishSkill, BeginTrialLocks, BeginTrialLockTimeout, BeginTrialRejected,
     BeginTrialSucceeds, BeginTrialAuditFails, BeginTrialPolicyFails, BeginTrialReturns,
     CanBeginTrial, AbortLocks, AbortLockTimeout, AbortSucceeds, AbortAuditFails,
     AbortReturns, AuditBeginFails, AuditTerminate, AuditTerminateFails, Preparing
<1>2. CASE Command
  BY <1>0, <1>2 DEF Command, PrepareSkill, CanPrepare, BeginTrial, OpenSession, CloseSession,
     EndTrial, EndTrialAuditFails, Abort, AuditEnd, AuditEndFails, Preparing
<1>3. ASSUME NEW w \in Workers, Request(w) \/ WorkerStep(w)
      PROVE  Legal /\ NothingStarts
  BY <1>0, <1>3 DEF Request, WorkerStep, InferLocks, InferLockTimeout, Expire, Validate,
     Admissible, Reject, Record, InferFails, Confirm, LeaseLost, Leave, AuditRecord,
     AuditRecordFails, Preparing
<1>4. ASSUME NEW w \in Workers, Send(w)
      PROVE  Legal /\ NothingStarts
  BY <1>0, <1>4 DEF Send, Deliver, SendFails, SendFailsAmbiguous, Settle, AuditTerminate,
     AuditTerminateFails, Preparing
<1>5. CASE Stop \/ Close
  BY <1>0, <1>5 DEF Stop, Close, AuditTerminate, AuditTerminateFails, Preparing
<1>6. CASE Restart
  BY <1>6 DEF Restart, IInv, RuntimeTypeOK
<1>7. QED BY <1>1, <1>2, <1>3, <1>4, <1>5, <1>6 DEF Next

\* Fail closed: along RUNTIME_TRANSITIONS only, and nothing starts on a
\* FAILED service (_fail_locked and every handler's own checks).
THEOREM FailedAlwaysFinal == Spec => FailedIsFinal
<1>1. IInv /\ [Next]_vars =>
        [instance' = instance =>
           /\ state' # state =>
                 \/ state' \in RuntimeTransitions[state]
                 \/ state = "READY" /\ state' = "LOADING"
           /\ state = "FAILED" =>
                 /\ session' = NoSession
                 /\ \A w \in Workers : pc'[w] = "policy" => pc[w] = "policy"
                 /\ active' \in {active, NoTrial}]_vars
  BY FailClosedStep
<1>2. QED BY <1>1, InvariantHolds, PTL DEF Spec, FailedIsFinal

\* A generation is published by prepare_skill alone, which nothing runs beside.
LEMMA GenerationStep ==
  ASSUME IInv, Next, generation' # generation, instance' = instance
  PROVE  /\ generation' = generation + 1
         /\ session = NoSession /\ session' = NoSession
         /\ trialId = NoTrial
         /\ inFlight = 0
<1>1. PublishSkill
  <2>1. ~Restart
    BY DEF Restart, IInv, RuntimeTypeOK
  <2>2. \A w \in Workers : ~(Request(w) \/ WorkerStep(w) \/ Send(w))
    BY DEF Request, WorkerStep, InferLocks, InferLockTimeout, Expire, Validate, Reject,
       Record, InferFails, Confirm, LeaseLost, Leave, Send, Deliver, SendFails,
       SendFailsAmbiguous, Settle
  <2>3. QED
    BY <2>1, <2>2 DEF Next, LoopStep, Command, PrepareLocks, PrepareLockTimeout, PrepareFails,
       PrepareReturns, BeginTrialLocks, BeginTrialLockTimeout, BeginTrialRejected,
       BeginTrialSucceeds, BeginTrialAuditFails, BeginTrialPolicyFails, BeginTrialReturns,
       AbortLocks, AbortLockTimeout, AbortSucceeds, AbortAuditFails, AbortReturns,
       PrepareSkill, BeginTrial, OpenSession, CloseSession, EndTrial, EndTrialAuditFails,
       Abort, Stop, Close
<1>2. state = "LOADING" /\ session = NoSession /\ trialId = NoTrial
  BY <1>1 DEF PublishSkill, IInv, LoopDiscipline, Preparing, SessionBound, TrialDiscipline
<1>3. inFlight = 0
  BY <1>2, Drained DEF IInv, InFlightCounts
<1>4. QED BY <1>1, <1>2, <1>3 DEF PublishSkill

\* S-007: the policy is replaced only when no session is live and no call is
\* in flight (prepare_skill).
THEOREM GenerationAlwaysChangesAlone == Spec => GenerationChangesAlone
<1>1. IInv /\ [Next]_vars =>
        [generation' # generation /\ instance' = instance =>
           /\ generation' = generation + 1
           /\ session = NoSession /\ session' = NoSession
           /\ trialId = NoTrial
           /\ inFlight = 0]_vars
  BY GenerationStep
<1>2. QED BY <1>1, InvariantHolds, PTL DEF Spec, GenerationChangesAlone

\* Only Confirm makes a response, and it looks at the lease again.
LEMMA ConfirmStep ==
  ASSUME IInv, Next, NEW w \in Workers, pc'[w] = "answering", pc[w] # "answering"
  PROVE  state = "READY" /\ session # NoSession /\ lease[w] = session
<1>0. pc \in [Workers -> WorkerSteps]
  BY DEF IInv, RuntimeTypeOK
<1>1. ~(LoopStep \/ Command \/ Stop \/ Close \/ Restart)
  BY <1>0 DEF LoopStep, Command, PrepareLocks, PrepareLockTimeout, PrepareFails,
     PrepareReturns, PublishSkill, BeginTrialLocks, BeginTrialLockTimeout,
     BeginTrialRejected, BeginTrialSucceeds, BeginTrialAuditFails, BeginTrialPolicyFails,
     BeginTrialReturns, AbortLocks, AbortLockTimeout, AbortSucceeds, AbortAuditFails,
     AbortReturns, PrepareSkill, BeginTrial, OpenSession, CloseSession, EndTrial,
     EndTrialAuditFails, Abort, Stop, Close, Restart
<1>2. PICK v \in Workers : Request(v) \/ WorkerStep(v) \/ Send(v)
  BY <1>1 DEF Next
<1>3. v = w /\ Confirm(w)
  BY <1>0, <1>2 DEF Request, WorkerStep, InferLocks, InferLockTimeout, Expire, Validate, Reject,
     Record, InferFails, Confirm, LeaseLost, Leave, Send, Deliver, SendFails,
     SendFailsAmbiguous, Settle
<1>4. state = "READY" /\ session # NoSession
  BY <1>3 DEF Confirm, IInv, SessionBound
<1>5. QED BY <1>3, <1>4 DEF Confirm, IInv, LeaseDiscipline

\* What was invalidated during the policy call stays unpublished (the second
\* block of infer).
THEOREM AlwaysConfirmedByLiveLease == Spec => ConfirmedByLiveLease
<1>1. IInv /\ [Next]_vars =>
        [\A w \in Workers :
           pc'[w] = "answering" /\ pc[w] # "answering" =>
              /\ state = "READY"
              /\ session # NoSession
              /\ lease[w] = session]_vars
  BY ConfirmStep
<1>2. QED BY <1>1, InvariantHolds, PTL DEF Spec, ConfirmedByLiveLease
-----------------------------------------------------------------------------
\* Every step of the server makes at most one call of its store.
LEMMA OneCall ==
  ASSUME IInv, [Next]_vars
  PROVE  AuditCall \/ UNCHANGED auditVars
<1>1. CASE LoopStep
  <2>1. At("begin") => loop.trial \in Trials
    BY DEF IInv, LoopDiscipline
  <2>2. CanBeginTrial => activeSkill \in Skills /\ generation \in Generations
    BY DEF CanBeginTrial, IInv, RuntimeTypeOK
  <2>3. QED
    BY <1>1, <2>1, <2>2 DEF LoopStep, PrepareLocks, PrepareLockTimeout, PrepareFails,
       PrepareReturns, PublishSkill, BeginTrialLocks, BeginTrialLockTimeout,
       BeginTrialRejected, BeginTrialSucceeds, BeginTrialAuditFails, BeginTrialPolicyFails,
       BeginTrialReturns, AbortLocks, AbortLockTimeout, AbortSucceeds, AbortAuditFails,
       AbortReturns, AuditCall
<1>2. CASE Command
  BY <1>2 DEF Command, PrepareSkill, BeginTrial, OpenSession, CloseSession, EndTrial,
     EndTrialAuditFails, Abort, AuditCall
<1>3. ASSUME NEW w \in Workers, Request(w) \/ WorkerStep(w)
      PROVE  AuditCall \/ UNCHANGED auditVars
  <2>1. pc[w] = "policy" => lease[w] \in Identity
    BY DEF IInv, LeaseDiscipline, InCriticalSection
  <2>2. QED
    BY <1>3, <2>1 DEF Request, WorkerStep, InferLocks, InferLockTimeout, Expire, Validate,
       Reject, Record, InferFails, Confirm, LeaseLost, Leave, AuditCall
<1>4. ASSUME NEW w \in Workers, Send(w)
      PROVE  AuditCall \/ UNCHANGED auditVars
  BY <1>4 DEF Send, Deliver, SendFails, SendFailsAmbiguous, Settle, AuditCall
<1>5. CASE Stop \/ Close \/ Restart
  BY <1>5 DEF Stop, Close, Restart, AuditCall
<1>6. CASE UNCHANGED vars
  BY <1>6 DEF vars
<1>7. QED BY <1>1, <1>2, <1>3, <1>4, <1>5, <1>6 DEF Next

\* The server, killed and restarted anywhere, uses a trial id once, keeps one
\* trial open and never rewrites the verdict of one it has closed.
THEOREM ServerImplementsLedger == Spec => ImplementsLedger
<1>1. Init => LedgerIInv /\ Ledger!LedgerInit
  BY LedgerStart DEF Init
<1>2. IInv /\ LedgerIInv /\ [Next]_vars =>
         LedgerIInv' /\ [Ledger!LedgerNext]_(Ledger!ledgerVars)
  BY OneCall, CallKeepsDirectory, CallIsLedgerStep, LedgerStutter
<1>3. QED
  BY <1>1, <1>2, InvariantHolds, PTL DEF Spec, ImplementsLedger, Ledger!LedgerSpec
-----------------------------------------------------------------------------
(* Sequences of lines: what appending one does to their numbering.         *)

\* Cardinalities of the lines of one session, before and after an append.
LEMMA AppendLines ==
  ASSUME NEW rows \in Seq(Identity), NEW row \in Identity, NEW s
  PROVE  /\ IsFiniteSet(SessionLines(rows, s))
         /\ Cardinality(SessionLines(rows, s)) \in Nat
         /\ Cardinality(SessionLines(Append(rows, row), s)) =
               Cardinality(SessionLines(rows, s)) + (IF row.session = s THEN 1 ELSE 0)
<1> DEFINE S == SessionLines(rows, s)
           n == Len(rows)
<1>1. S \subseteq 1 .. n /\ n \in Nat
  BY DEF SessionLines
<1>2. IsFiniteSet(1 .. n)
  BY <1>1, FS_Interval
<1>3. IsFiniteSet(S)
  BY <1>1, <1>2, FS_Subset
<1>4. SessionLines(Append(rows, row), s) = IF row.session = s THEN S \cup {n + 1} ELSE S
  BY DEF SessionLines
<1>5. n + 1 \notin S
  BY <1>1
<1> HIDE DEF S
<1>6. Cardinality(S \cup {n + 1}) = Cardinality(S) + 1
  BY <1>3, <1>5, FS_AddElement
<1>7. QED BY <1>3, <1>4, <1>6, FS_CardinalityType DEF S

\* Numbered 0, 1, 2, ... within every session.
Numbered(rows) ==
    \A i \in DOMAIN rows :
        rows[i].sequence =
            Cardinality({j \in 1 .. i - 1 : rows[j].session = rows[i].session})

\* A line with the number of its session's lines before it may be appended.
LEMMA AppendNumbered ==
  ASSUME NEW rows \in Seq(Identity), NEW row \in Identity, Numbered(rows),
         row.sequence = Cardinality(SessionLines(rows, row.session))
  PROVE  Numbered(Append(rows, row))
<1> DEFINE new == Append(rows, row)
           n == Len(rows)
<1> SUFFICES ASSUME NEW i \in DOMAIN new
             PROVE  new[i].sequence =
                       Cardinality({j \in 1 .. i - 1 : new[j].session = new[i].session})
  BY DEF Numbered
<1>1. /\ n \in Nat /\ DOMAIN new = 1 .. n + 1 /\ DOMAIN rows = 1 .. n
      /\ new[n + 1] = row
      /\ \A j \in 1 .. n : new[j] = rows[j]
  OBVIOUS
<1> HIDE DEF new
<1>2. CASE i = n + 1
  <2>1. {j \in 1 .. i - 1 : new[j].session = new[i].session} = SessionLines(rows, row.session)
    BY <1>1, <1>2 DEF SessionLines
  <2>2. QED BY <1>1, <1>2, <2>1
<1>3. CASE i \in 1 .. n
  <2>1. {j \in 1 .. i - 1 : new[j].session = new[i].session} =
           {j \in 1 .. i - 1 : rows[j].session = rows[i].session}
    BY <1>1, <1>3
  <2>2. QED BY <1>1, <1>3, <2>1 DEF Numbered
<1>4. QED BY <1>1, <1>2, <1>3

\* No two lines of a numbered file are the same.
LEMMA NumberedOnce ==
  ASSUME NEW rows \in Seq(Identity), Numbered(rows),
         NEW i \in DOMAIN rows, NEW k \in DOMAIN rows, i < k
  PROVE  rows[i] # rows[k]
<1> SUFFICES ASSUME rows[i] = rows[k] PROVE FALSE
  OBVIOUS
<1> DEFINE Before(m) == {j \in 1 .. m - 1 : rows[j].session = rows[m].session}
<1>1. i \in Nat /\ k \in Nat /\ Before(k) \subseteq 1 .. k - 1
  OBVIOUS
<1>2. IsFiniteSet(1 .. k - 1)
  BY <1>1, FS_Interval
<1>3. IsFiniteSet(Before(k))
  BY <1>1, <1>2, FS_Subset
<1>4. Before(i) \subseteq Before(k) /\ i \in Before(k) /\ i \notin Before(i)
  BY <1>1
<1>5. Cardinality(Before(i)) = Cardinality(Before(k))
  BY DEF Numbered
<1> HIDE DEF Before
<1>6. Before(k) = Before(i)
  BY <1>3, <1>4, <1>5, FS_Subset
<1>7. QED BY <1>4, <1>6

-----------------------------------------------------------------------------
(* The steps that write a line or change who may write the next one; all   *)
(* others leave the lines and the admitted calls as they are.              *)

Eventful ==
    \/ \E s \in Sessions : OpenSession(s)
    \/ \E w \in Workers : \/ \E r \in Identity : Validate(w, r)
                          \/ Record(w) \/ InferFails(w) \/ Confirm(w)

\* A call that does not append leaves every file of lines alone.
LEMMA LinesKept ==
  ASSUME AuditTypeOK,
         \/ UNCHANGED auditVars
         \/ \E t \in Trials, k \in Skills, g \in Generations :
               AuditBegin(t, k, g) \/ AuditBeginFails(t, k, g)
         \/ AuditEnd \/ AuditEndFails
         \/ \E status \in {"ABORTED", "AMBIGUOUS_INFERENCE"} :
               AuditTerminate(status) \/ AuditTerminateFails(status)
         \/ AuditRestart
  PROVE  \A t \in Trials : disk'[t].rows = disk[t].rows
<1> USE DEF AuditTypeOK, TrialDir, Write
<1>1. ASSUME NEW t \in Trials, NEW k \in Skills, NEW g \in Generations,
             AuditBegin(t, k, g) \/ AuditBeginFails(t, k, g)
      PROVE  \A u \in Trials : disk'[u].rows = disk[u].rows
  <2>1. /\ Created(t, k, g).rows = disk[t].rows
        /\ [disk[t] EXCEPT !.manifest = "EMPTY"].rows = disk[t].rows
    BY DEF Created
  <2>2. QED BY <1>1, <2>1 DEF AuditBegin, AuditBeginFails
<1>2. CASE AuditEnd \/ AuditEndFails
  <2>1. Summarised.rows = disk[active].rows /\ Committed.rows = disk[active].rows
    BY <1>2 DEF AuditEnd, AuditEndFails, Committed, Summarised
  <2>2. QED BY <1>2, <2>1 DEF AuditEnd, AuditEndFails
<1>3. ASSUME NEW status \in {"ABORTED", "AMBIGUOUS_INFERENCE"},
             AuditTerminate(status) \/ AuditTerminateFails(status)
      PROVE  \A u \in Trials : disk'[u].rows = disk[u].rows
  <2>1. Closed(status).rows = disk[active].rows
    BY <1>3 DEF AuditTerminate, AuditTerminateFails, Closed
  <2>2. QED BY <1>3, <2>1 DEF AuditTerminate, AuditTerminateFails
<1>4. CASE AuditRestart \/ UNCHANGED auditVars
  BY <1>4 DEF AuditRestart
<1>5. QED BY <1>1, <1>2, <1>3, <1>4

\* What every other step leaves alone.
LEMMA UneventfulStep ==
  ASSUME IInv, [Next]_vars, ~Eventful
  PROVE  /\ \A t \in Trials : disk'[t].rows = disk[t].rows
         /\ session' \in {session, NoSession}
         /\ opened' = opened
         /\ \A w \in Workers :
               /\ pc'[w] \in {"policy", "recorded", "answering"} =>
                     pc'[w] = pc[w] /\ lease'[w] = lease[w]
               /\ pc'[w] \in InCriticalSection \cup {"sending"} =>
                     /\ pc[w] \in InCriticalSection \cup {"sending"}
                     /\ lease'[w] = lease[w]
               /\ pc'[w] = "sending" => pc[w] \in {"answering", "sending"}
               /\ pc'[w] \in InCriticalSection => pc[w] \in InCriticalSection
               /\ session' # NoSession => (pc'[w] = "recorded" <=> pc[w] = "recorded")
  <1> DEFINE Kept == \A t \in Trials : disk'[t].rows = disk[t].rows
             Calm == /\ session' \in {session, NoSession}
                     /\ opened' = opened
                     /\ \A w \in Workers :
                           /\ pc'[w] \in {"policy", "recorded", "answering"} =>
                                 pc'[w] = pc[w] /\ lease'[w] = lease[w]
                           /\ pc'[w] \in InCriticalSection \cup {"sending"} =>
                                 /\ pc[w] \in InCriticalSection \cup {"sending"}
                                 /\ lease'[w] = lease[w]
                           /\ pc'[w] = "sending" => pc[w] \in {"answering", "sending"}
                           /\ pc'[w] \in InCriticalSection => pc[w] \in InCriticalSection
                           /\ session' # NoSession =>
                                 (pc'[w] = "recorded" <=> pc[w] = "recorded")
<1>0. /\ pc \in [Workers -> WorkerSteps]
      /\ lease \in [Workers -> Identity \cup {NoSession}]
      /\ AuditTypeOK
      /\ At("begin") => loop.trial \in Trials
      /\ CanBeginTrial => activeSkill \in Skills /\ generation \in Generations
  BY DEF IInv, RuntimeTypeOK, LoopDiscipline, CanBeginTrial
<1> USE DEF InCriticalSection
<1>1. CASE LoopStep
  <2>1. Kept
    BY <1>0, <1>1, LinesKept DEF LoopStep, PrepareLocks, PrepareLockTimeout, PrepareFails,
       PrepareReturns, PublishSkill, BeginTrialLocks, BeginTrialLockTimeout,
       BeginTrialRejected, BeginTrialSucceeds, BeginTrialAuditFails, BeginTrialPolicyFails,
       BeginTrialReturns, AbortLocks, AbortLockTimeout, AbortSucceeds, AbortAuditFails,
       AbortReturns
  <2>2. Calm
    BY <1>0, <1>1 DEF LoopStep, PrepareLocks, PrepareLockTimeout, PrepareFails,
       PrepareReturns, PublishSkill, BeginTrialLocks, BeginTrialLockTimeout,
       BeginTrialRejected, BeginTrialSucceeds, BeginTrialAuditFails, BeginTrialPolicyFails,
       BeginTrialReturns, AbortLocks, AbortLockTimeout, AbortSucceeds, AbortAuditFails,
       AbortReturns
  <2>3. QED BY <2>1, <2>2
<1>2. CASE Command
  <2>1. Kept
    BY <1>0, <1>2, LinesKept DEF Command, PrepareSkill, BeginTrial, OpenSession, CloseSession,
       EndTrial, EndTrialAuditFails, Abort, Eventful
  <2>2. Calm
    BY <1>0, <1>2 DEF Command, PrepareSkill, BeginTrial, CloseSession, EndTrial,
       EndTrialAuditFails, Abort, Eventful
  <2>3. QED BY <2>1, <2>2
<1>3. ASSUME NEW w \in Workers, Request(w) \/ WorkerStep(w)
      PROVE  Kept /\ Calm
  BY <1>0, <1>3 DEF Request, WorkerStep, InferLocks, InferLockTimeout, Expire, Reject,
     LeaseLost, Leave, Eventful
<1>4. ASSUME NEW w \in Workers, Send(w)
      PROVE  Kept /\ Calm
  <2>1. Kept
    BY <1>0, <1>4, LinesKept DEF Send, Deliver, SendFails, SendFailsAmbiguous
  <2>2. Calm
    BY <1>0, <1>4 DEF Send, Deliver, SendFails, SendFailsAmbiguous, Settle
  <2>3. QED BY <2>1, <2>2
<1>5. CASE Stop \/ Close \/ Restart
  <2>1. Kept
    BY <1>0, <1>5, LinesKept DEF Stop, Close, Restart
  <2>2. Calm
    BY <1>0, <1>5 DEF Stop, Close, Restart
  <2>3. QED BY <2>1, <2>2
<1>6. CASE UNCHANGED vars
  BY <1>6 DEF vars
<1>7. QED BY <1>1, <1>2, <1>3, <1>4, <1>5, <1>6 DEF Next

\* What a call of the store can do to a directory besides adding a line.
LEMMA DirectoriesKept ==
  ASSUME LedgerIInv, AuditCall \/ UNCHANGED auditVars, NEW t \in Trials
  PROVE  /\ \/ disk'[t].skill = disk[t].skill /\ disk'[t].generation = disk[t].generation
            \/ disk[t].manifest = "ABSENT" /\ disk'[t].rows = disk[t].rows
         /\ disk'[t].manifest = "ABSENT" => disk'[t] = disk[t]
<1> USE DEF LedgerIInv, AuditTypeOK, TrialDir, Write
<1>1. ASSUME NEW u \in Trials, NEW k \in Skills, NEW g \in Generations,
             AuditBegin(u, k, g) \/ AuditBeginFails(u, k, g), ~UNCHANGED disk
      PROVE  /\ disk[u].manifest = "ABSENT"
             /\ disk'[u].manifest # "ABSENT" /\ disk'[u].rows = disk[u].rows
             /\ u # t => disk'[t] = disk[t]
  <2>1. /\ Created(u, k, g).manifest # "ABSENT"
        /\ Created(u, k, g).rows = disk[u].rows
        /\ [disk[u] EXCEPT !.manifest = "EMPTY"].manifest # "ABSENT"
        /\ [disk[u] EXCEPT !.manifest = "EMPTY"].rows = disk[u].rows
    BY DEF Created
  <2>2. QED BY <1>1, <2>1 DEF AuditBegin, AuditBeginFails, DirectoryIsNew
<1>2. ASSUME NEW dir, active \in Trials, disk' = [disk EXCEPT ![active] = dir],
             dir.skill = disk[active].skill, dir.generation = disk[active].generation,
             dir.manifest # "ABSENT"
      PROVE  /\ disk'[t].skill = disk[t].skill /\ disk'[t].generation = disk[t].generation
             /\ disk'[t].manifest = "ABSENT" => disk'[t] = disk[t]
  BY <1>2
<1>3. ASSUME active \in Trials, NEW row, NEW status \in {"ABORTED", "AMBIGUOUS_INFERENCE"},
             NEW dir \in {Appended(row), Summarised, Committed, Closed(status)}
      PROVE  /\ dir.skill = disk[active].skill /\ dir.generation = disk[active].generation
             /\ dir.manifest # "ABSENT"
  <2>1. disk[active].manifest # "ABSENT" /\ disk[active] \in TrialDir
    BY <1>3, TrialAuditAssumption DEF ActiveHasDirectory
  <2>2. QED BY <2>1 DEF Appended, Summarised, Committed, Closed
<1>4. ASSUME NEW row \in Identity, AuditRecord(row) \/ AuditRecordFails(row), ~UNCHANGED disk
      PROVE  active \in Trials /\ disk' = [disk EXCEPT ![active] = Appended(row)]
  BY <1>4 DEF AuditRecord, AuditRecordFails
<1>5. ASSUME AuditEnd \/ AuditEndFails, ~UNCHANGED disk
      PROVE  active \in Trials /\ (disk' = [disk EXCEPT ![active] = Summarised]
                                   \/ disk' = [disk EXCEPT ![active] = Committed])
  BY <1>5 DEF AuditEnd, AuditEndFails
<1>6. ASSUME NEW status \in {"ABORTED", "AMBIGUOUS_INFERENCE"},
             AuditTerminate(status) \/ AuditTerminateFails(status), ~UNCHANGED disk
      PROVE  active \in Trials /\ disk' = [disk EXCEPT ![active] = Closed(status)]
  BY <1>6 DEF AuditTerminate, AuditTerminateFails
<1>7. CASE UNCHANGED disk
  BY <1>7
<1>8. CASE ~UNCHANGED disk
  <2>1. CASE \E row \in Identity : AuditRecord(row) \/ AuditRecordFails(row)
    BY <1>2, <1>3, <1>4, <1>8, <2>1
  <2>2. CASE AuditEnd \/ AuditEndFails
    BY <1>2, <1>3, <1>5, <1>8, <2>2
  <2>3. CASE \E status \in {"ABORTED", "AMBIGUOUS_INFERENCE"} :
                AuditTerminate(status) \/ AuditTerminateFails(status)
    BY <1>2, <1>3, <1>6, <1>8, <2>3
  <2>4. CASE \E u \in Trials, k \in Skills, g \in Generations :
                AuditBegin(u, k, g) \/ AuditBeginFails(u, k, g)
    BY <1>1, <1>8, <2>4
  <2>5. QED BY <1>8, <2>1, <2>2, <2>3, <2>4 DEF AuditCall, AuditRestart
<1>9. QED BY <1>7, <1>8

\* What is served does not change while a trial is open or a call between its
\* two blocks; a trial begins with nothing in flight.
LEMMA ServedKept ==
  ASSUME IInv, [Next]_vars
  PROVE  /\ trialId # NoTrial /\ trialId' # NoTrial =>
               /\ activeSkill' = activeSkill /\ generation' = generation
               /\ trialId' = trialId
         /\ trialId = NoTrial /\ trialId' # NoTrial =>
               /\ AuditBegin(trialId', activeSkill, generation)
               /\ activeSkill' = activeSkill /\ generation' = generation
         /\ \A w \in Workers : pc[w] \in InCriticalSection /\ pc'[w] \in InCriticalSection =>
               /\ activeSkill' = activeSkill /\ generation' = generation
               /\ trialId' \in {trialId, NoTrial}
<1> DEFINE Same == activeSkill' = activeSkill /\ generation' = generation
           Goal == /\ trialId # NoTrial /\ trialId' # NoTrial => Same /\ trialId' = trialId
                   /\ trialId = NoTrial /\ trialId' # NoTrial =>
                         AuditBegin(trialId', activeSkill, generation) /\ Same
                   /\ \A w \in Workers :
                         pc[w] \in InCriticalSection /\ pc'[w] \in InCriticalSection =>
                            Same /\ trialId' \in {trialId, NoTrial}
<1>1. CASE LoopStep
  <2>1. CASE PublishSkill
    BY <1>1, <2>1 DEF PublishSkill, IInv, LoopDiscipline, Preparing, TrialDiscipline,
       LeaseDiscipline
  <2>2. CASE BeginTrialSucceeds
    BY <1>1, <2>2 DEF BeginTrialSucceeds, BeginTrialReturns, CanBeginTrial, IInv,
       LockDiscipline
  <2>3. QED
    BY <1>1, <2>1, <2>2 DEF LoopStep, PrepareLocks, PrepareLockTimeout, PrepareFails,
       PrepareReturns, BeginTrialLocks, BeginTrialLockTimeout,
       BeginTrialRejected, BeginTrialAuditFails, BeginTrialPolicyFails,
       BeginTrialReturns, AbortLocks, AbortLockTimeout, AbortSucceeds, AbortAuditFails,
       AbortReturns
<1>2. CASE Command
  BY <1>2 DEF Command, PrepareSkill, BeginTrial, OpenSession, CloseSession, EndTrial,
     EndTrialAuditFails, Abort
<1>3. ASSUME NEW w \in Workers, Request(w) \/ WorkerStep(w) \/ Send(w)
      PROVE  Goal
  BY <1>3 DEF Request, WorkerStep, InferLocks, InferLockTimeout, Expire, Validate,
     Reject, Record, InferFails, Confirm, LeaseLost, Leave, Send, Deliver, SendFails,
     SendFailsAmbiguous, Settle
<1>4. CASE Stop \/ Close
  BY <1>4 DEF Stop, Close
<1>5. CASE Restart
  BY <1>5 DEF Restart, InCriticalSection
<1>6. CASE UNCHANGED vars
  BY <1>6 DEF vars
<1>7. QED BY <1>1, <1>2, <1>3, <1>4, <1>5, <1>6 DEF Next

\* The call that writes a line is the one whose lease names the open trial.
LEMMA WriterOfTrial ==
  ASSUME IInv, AdmittedForTrial, NEW w \in Workers, pc[w] = "policy"
  PROVE  /\ lease[w] \in Identity
         /\ active # NoTrial => active = lease[w].trial
         /\ lease[w].session \in opened
  BY DEF IInv, LeaseDiscipline, InCriticalSection, AdmittedForTrial, TrialAuditCoupled

LEMMA AdmittedStep ==
  ASSUME IInv, AdmittedForTrial, [Next]_vars
  PROVE  AdmittedForTrial'
<1> SUFFICES ASSUME NEW w \in Workers
             PROVE  /\ pc'[w] \in InCriticalSection =>
                          /\ lease'[w].skill = activeSkill'
                          /\ lease'[w].generation = generation'
                          /\ trialId' \in {lease'[w].trial, NoTrial}
                    /\ pc'[w] \in InCriticalSection \cup {"sending"} =>
                          lease'[w].session \in opened'
  BY DEF AdmittedForTrial
<1>0. pc \in [Workers -> WorkerSteps] /\ lease \in [Workers -> Identity \cup {NoSession}]
  BY DEF IInv, RuntimeTypeOK
<1>1. CASE ~Eventful
  BY <1>1, UneventfulStep, ServedKept DEF AdmittedForTrial
<1>2. CASE \E s \in Sessions : OpenSession(s)
  BY <1>2 DEF OpenSession, AdmittedForTrial
<1>3. ASSUME NEW v \in Workers, NEW r \in Identity, Validate(v, r), v # w
      PROVE  pc'[w] = pc[w] /\ lease'[w] = lease[w] /\ UNCHANGED <<serviceVars, opened>>
  BY <1>0, <1>3 DEF Validate
<1>4. ASSUME NEW r \in Identity, Validate(w, r)
      PROVE  /\ lease'[w] = r /\ UNCHANGED <<serviceVars, opened>>
             /\ r.skill = activeSkill /\ r.generation = generation /\ r.trial = trialId
             /\ r.session \in opened
  BY <1>0, <1>4 DEF Validate, Admissible, IInv, SessionBound
<1>5. ASSUME NEW v \in Workers, Record(v) \/ InferFails(v) \/ Confirm(v)
      PROVE  /\ lease' = lease
             /\ pc'[w] \in InCriticalSection \cup {"sending"} => pc'[w] = pc[w] \/ v = w
             /\ pc[v] \in InCriticalSection /\ pc'[v] \in InCriticalSection
             /\ UNCHANGED <<activeSkill, generation, trialId, opened>>
  BY <1>0, <1>5 DEF Record, InferFails, Confirm, InCriticalSection
<1>6. QED
  BY <1>1, <1>2, <1>3, <1>4, <1>5 DEF Eventful, AdmittedForTrial, serviceVars,
     InCriticalSection

\* Session ids are never taken back.
LEMMA OpenedGrows ==
  ASSUME IInv, [Next]_vars
  PROVE  opened \subseteq opened'
<1>1. CASE ~Eventful
  BY <1>1, UneventfulStep
<1>2. CASE Eventful
  BY <1>2 DEF Eventful, OpenSession, Validate, Record, InferFails, Confirm
<1>3. QED BY <1>1, <1>2

\* A step writes at most one line: that of the call in the policy, at the end
\* of the file of the trial the call was admitted for.
LEMMA LineStep ==
  ASSUME IInv, AdmittedForTrial, [Next]_vars
  PROVE  \/ /\ \A t \in Trials : disk'[t].rows = disk[t].rows
            /\ \A w \in Workers : ~Record(w)
         \/ \E w \in Workers :
               /\ Record(w) \/ InferFails(w)
               /\ pc[w] = "policy" /\ lease[w] \in Identity
               /\ active \in Trials /\ active = lease[w].trial
               /\ lease[w].session \in opened
               /\ disk' = [disk EXCEPT ![active] = Appended(lease[w])]
               /\ disk'[active].rows = Append(disk[active].rows, lease[w])
<1>0. AuditTypeOK
  BY DEF IInv, RuntimeTypeOK
<1>1. ASSUME NEW w \in Workers, Record(w) \/ InferFails(w), ~UNCHANGED disk
      PROVE  /\ pc[w] = "policy" /\ lease[w] \in Identity
             /\ active \in Trials /\ active = lease[w].trial
             /\ lease[w].session \in opened
             /\ disk' = [disk EXCEPT ![active] = Appended(lease[w])]
             /\ disk'[active].rows = Append(disk[active].rows, lease[w])
  <2>1. /\ pc[w] = "policy" /\ active # NoTrial
        /\ disk' = [disk EXCEPT ![active] = Appended(lease[w])]
    BY <1>1 DEF Record, InferFails, AuditRecord, AuditRecordFails, Write
  <2>2. /\ active \in Trials /\ disk[active] \in TrialDir /\ disk \in [Trials -> TrialDir]
    BY <1>0, <2>1 DEF AuditTypeOK
  <2>3. Appended(lease[w]).rows = Append(disk[active].rows, lease[w])
    BY <2>2 DEF Appended, TrialDir
  <2>4. QED BY <2>1, <2>2, <2>3, WriterOfTrial
<1>2. ASSUME NEW w \in Workers, Record(w)
      PROVE  ~UNCHANGED disk
  <2>1. /\ pc[w] = "policy" /\ active # NoTrial
        /\ disk' = [disk EXCEPT ![active] = Appended(lease[w])]
    BY <1>2 DEF Record, AuditRecord, Write
  <2>2. /\ active \in Trials /\ disk[active] \in TrialDir /\ disk \in [Trials -> TrialDir]
        /\ lease[w] \in Identity
    BY <1>0, <2>1, WriterOfTrial DEF AuditTypeOK
  <2>3. disk'[active].rows = Append(disk[active].rows, lease[w])
    BY <2>1, <2>2 DEF Appended, TrialDir
  <2>4. Len(disk'[active].rows) = Len(disk[active].rows) + 1 /\ Len(disk[active].rows) \in Nat
    BY <2>2, <2>3 DEF TrialDir
  <2>5. QED BY <2>4
<1>3. CASE ~Eventful
  BY <1>3, UneventfulStep DEF Eventful
<1>4. CASE Eventful /\ UNCHANGED disk
  BY <1>2, <1>4
<1>5. CASE Eventful /\ ~UNCHANGED disk
  BY <1>1, <1>5 DEF Eventful, OpenSession, Validate, Confirm
<1>6. QED BY <1>3, <1>4, <1>5

\* record_request files a line under the trial, skill and generation it names.
LEMMA FiledStep ==
  ASSUME IInv, LedgerIInv, AdmittedForTrial, FiledUnderTrial, [Next]_vars
  PROVE  FiledUnderTrial'
<1>0. /\ AuditTypeOK /\ AuditTypeOK' /\ trialId = active
      /\ \A t \in Trials : disk[t] \in TrialDir /\ disk'[t] \in TrialDir
  BY NextIInv DEF IInv, RuntimeTypeOK, AuditTypeOK, TrialAuditCoupled
<1>1. ASSUME NEW t \in Trials
      PROVE  /\ \/ disk'[t].skill = disk[t].skill /\ disk'[t].generation = disk[t].generation
                \/ disk[t].manifest = "ABSENT" /\ disk'[t].rows = disk[t].rows
             /\ disk'[t].manifest = "ABSENT" => disk'[t] = disk[t]
  BY OneCall, DirectoriesKept
<1>2. ASSUME NEW t \in Trials, NEW i \in DOMAIN disk'[t].rows
      PROVE  /\ disk'[t].rows[i].trial = t
             /\ disk'[t].rows[i].skill = disk'[t].skill
             /\ disk'[t].rows[i].generation = disk'[t].generation
             /\ disk'[t].rows[i].session \in opened'
  <2>1. CASE disk'[t].rows = disk[t].rows
    <3>1. disk[t].manifest # "ABSENT"
      BY <1>2, <2>1 DEF FiledUnderTrial
    <3>2. QED
      BY <1>1, <1>2, <2>1, <3>1, OpenedGrows DEF FiledUnderTrial, EvidenceFiledUnderItsTrial
  <2>2. CASE disk'[t].rows # disk[t].rows
    <3>1. PICK w \in Workers :
             /\ pc[w] = "policy" /\ lease[w] \in Identity
             /\ active \in Trials /\ active = lease[w].trial
             /\ lease[w].session \in opened
             /\ disk' = [disk EXCEPT ![active] = Appended(lease[w])]
             /\ disk'[active].rows = Append(disk[active].rows, lease[w])
      BY <2>2, LineStep
    <3>2. t = active
      BY <1>0, <2>2, <3>1 DEF AuditTypeOK
    <3>3. /\ lease[w].skill = disk[t].skill /\ lease[w].generation = disk[t].generation
      BY <1>0, <3>1, <3>2 DEF AdmittedForTrial, InCriticalSection, FiledUnderTrial
    <3>4. disk'[t].skill = disk[t].skill /\ disk'[t].generation = disk[t].generation
      BY <1>1, <2>2
    <3>5. disk[t].rows \in Seq(Identity)
      BY <1>0 DEF TrialDir
    <3>6. CASE i = Len(disk[t].rows) + 1
      BY <3>1, <3>2, <3>3, <3>4, <3>5, <3>6, OpenedGrows
    <3>7. CASE i # Len(disk[t].rows) + 1
      <4>1. i \in DOMAIN disk[t].rows /\ disk'[t].rows[i] = disk[t].rows[i]
        BY <1>2, <3>1, <3>2, <3>5, <3>7
      <4>2. QED
        BY <3>4, <4>1, OpenedGrows DEF FiledUnderTrial, EvidenceFiledUnderItsTrial
    <3>8. QED BY <3>6, <3>7
  <2>3. QED BY <2>1, <2>2
<1>3. ASSUME NEW t \in Trials, disk'[t].manifest = "ABSENT"
      PROVE  disk'[t].rows = <<>> /\ disk'[t].skill = NoSkill
  BY <1>1, <1>3 DEF FiledUnderTrial
<1>4. ASSUME trialId' # NoTrial
      PROVE  disk'[trialId'].skill = activeSkill' /\ disk'[trialId'].generation = generation'
  <2>1. CASE trialId = NoTrial
    <3>1. /\ AuditBegin(trialId', activeSkill, generation)
          /\ activeSkill' = activeSkill /\ generation' = generation
      BY <1>4, <2>1, ServedKept
    <3>2. trialId' \in Trials
      BY <1>4, NextIInv DEF IInv, RuntimeTypeOK
    <3>3. QED BY <1>0, <3>1, <3>2 DEF AuditBegin, Write, Created, AuditTypeOK, TrialDir
  <2>2. CASE trialId # NoTrial
    <3>1. trialId \in Trials /\ disk[trialId].manifest # "ABSENT"
      BY <1>0, <2>2 DEF AuditTypeOK, LedgerIInv, ActiveHasDirectory
    <3>2. QED BY <1>1, <1>4, <2>2, <3>1, ServedKept DEF FiledUnderTrial
  <2>3. QED BY <2>1, <2>2
<1>5. QED
  BY <1>2, <1>3, <1>4 DEF FiledUnderTrial, EvidenceFiledUnderItsTrial

\* The execution lock: one call at a time is past InferLocks and not yet out.
LEMMA Alone ==
  ASSUME IInv, NEW w \in Workers, NEW v \in Workers,
         pc[w] \in InCriticalSection \cup {"validating"},
         pc[v] \in InCriticalSection \cup {"validating"}
  PROVE  v = w
  BY DEF IInv, LockDiscipline

\* A line written now has the number of its session's lines before it.
LEMMA NumberedStep ==
  ASSUME IInv, AdmittedForTrial, FiledUnderTrial, NextLineNumbered, [Next]_vars
  PROVE  NextLineNumbered'
<1> DEFINE Lines(t, s) == Cardinality(SessionLines(disk[t].rows, s))
           Written == IF \E w \in Workers : pc[w] = "recorded" THEN 1 ELSE 0
           Seq1 == EvidenceInSequence'
           Seq2 == \A w \in Workers : pc'[w] = "policy" =>
                      lease'[w].sequence =
                         Cardinality(SessionLines(disk'[lease'[w].trial].rows,
                                                  lease'[w].session))
           Seq3 == session' # NoSession =>
                      session'.sequence
                         + (IF \E w \in Workers : pc'[w] = "recorded" THEN 1 ELSE 0) =
                      Cardinality(SessionLines(disk'[session'.trial].rows, session'.session))
<1>0. /\ AuditTypeOK /\ trialId = active
      /\ \A t \in Trials : disk[t].rows \in Seq(Identity)
      /\ pc \in [Workers -> WorkerSteps] /\ lease \in [Workers -> Identity \cup {NoSession}]
      /\ session # NoSession => session \in Lease
      /\ \A w \in Workers : pc[w] \in InCriticalSection => lease[w] \in Identity
  BY DEF IInv, RuntimeTypeOK, AuditTypeOK, TrialAuditCoupled, TrialDir, LeaseDiscipline
<1>1. Seq1
  <2> SUFFICES ASSUME NEW t \in Trials PROVE Numbered(disk'[t].rows)
    BY DEF EvidenceInSequence, Numbered
  <2>1. Numbered(disk[t].rows)
    BY DEF NextLineNumbered, EvidenceInSequence, Numbered
  <2>2. CASE disk'[t].rows = disk[t].rows
    BY <2>1, <2>2
  <2>3. CASE disk'[t].rows # disk[t].rows
    <3>1. PICK w \in Workers :
             /\ pc[w] = "policy" /\ lease[w] \in Identity
             /\ active \in Trials /\ active = lease[w].trial
             /\ disk' = [disk EXCEPT ![active] = Appended(lease[w])]
             /\ disk'[active].rows = Append(disk[active].rows, lease[w])
      BY <2>3, LineStep
    <3>2. t = active
      BY <1>0, <2>3, <3>1 DEF AuditTypeOK
    <3>3. lease[w].sequence = Cardinality(SessionLines(disk[t].rows, lease[w].session))
      BY <3>1, <3>2 DEF NextLineNumbered
    <3>4. disk[t].rows \in Seq(Identity)
      BY <1>0
    <3>5. Numbered(Append(disk[t].rows, lease[w]))
      BY <2>1, <3>1, <3>3, <3>4, AppendNumbered
    <3>6. QED BY <3>1, <3>2, <3>5
  <2>4. QED BY <2>2, <2>3
<1>2. CASE ~Eventful
  <2>1. Seq2
    BY <1>0, <1>2, UneventfulStep DEF NextLineNumbered, InCriticalSection, Identity
  <2>2. Seq3
    BY <1>0, <1>2, UneventfulStep DEF NextLineNumbered, Lease
  <2>3. QED BY <1>1, <2>1, <2>2 DEF NextLineNumbered
<1>3. ASSUME NEW s \in Sessions, OpenSession(s)
      PROVE  Seq2 /\ Seq3
  <2>1. UNCHANGED <<pc, lease, disk>>
    BY <1>3 DEF OpenSession
  <2>2. \A w \in Workers : pc[w] # "recorded"
    BY <1>0, <1>3, IdentityIsLease DEF OpenSession, IInv, LeaseDiscipline, InCriticalSection
  <2>3. session'.sequence = 0 /\ session'.trial = trialId /\ session'.session = s
    BY <1>3 DEF OpenSession
  <2>4. trialId \in Trials
    BY <1>0, <1>3 DEF OpenSession, AuditTypeOK
  <2>5. SessionLines(disk[trialId].rows, s) = {}
    BY <1>3, <2>4 DEF OpenSession, FiledUnderTrial, SessionLines
  <2>6. QED
    BY <2>1, <2>2, <2>3, <2>5, FS_EmptySet DEF NextLineNumbered
<1>4. ASSUME NEW w \in Workers, NEW r \in Identity, Validate(w, r)
      PROVE  Seq2 /\ Seq3
  <2>1. /\ UNCHANGED <<session, disk>> /\ session # NoSession
        /\ pc' = [pc EXCEPT ![w] = "policy"] /\ lease' = [lease EXCEPT ![w] = r]
        /\ pc[w] = "validating"
        /\ r.sequence = session.sequence /\ r.trial = session.trial
        /\ r.session = session.session
    BY <1>4 DEF Validate, Admissible
  <2>2. \A v \in Workers : v # w => pc[v] \notin {"policy", "recorded"}
    BY <2>1, Alone DEF InCriticalSection
  <2>3. session.sequence \in Nat
    BY <1>0, <2>1 DEF Lease
  <2>4. session.sequence = Lines(session.trial, session.session)
    BY <2>1, <2>2, <2>3 DEF NextLineNumbered
  <2>5. QED BY <1>0, <2>1, <2>2, <2>3, <2>4
<1>5. ASSUME NEW w \in Workers, Record(w)
      PROVE  Seq2 /\ Seq3
  <2>1. /\ UNCHANGED <<session, state, lease>>
        /\ pc' = [pc EXCEPT ![w] = "recorded"] /\ pc[w] = "policy"
    BY <1>5 DEF Record
  <2>2. \A v \in Workers : v # w => pc[v] \notin {"policy", "recorded"}
    BY <2>1, Alone DEF InCriticalSection
  <2>3. /\ active \in Trials /\ active = lease[w].trial /\ lease[w] \in Identity
        /\ disk'[active].rows = Append(disk[active].rows, lease[w])
    <3>1. PICK v \in Workers :
             /\ pc[v] = "policy" /\ lease[v] \in Identity
             /\ active \in Trials /\ active = lease[v].trial
             /\ disk'[active].rows = Append(disk[active].rows, lease[v])
      BY <1>5, LineStep
    <3>2. QED BY <2>2, <3>1
  <2>4. session # NoSession => session = lease[w]
    BY <2>1 DEF IInv, SessionBound, LeaseDiscipline
  <2>5. lease[w].sequence = Lines(active, lease[w].session) /\ lease[w].sequence \in Nat
    BY <2>1, <2>3 DEF NextLineNumbered, Identity
  <2>6. Cardinality(SessionLines(disk'[active].rows, lease[w].session)) =
           Lines(active, lease[w].session) + 1
    <3>1. disk[active].rows \in Seq(Identity)
      BY <1>0, <2>3
    <3>2. QED BY <2>3, <3>1, AppendLines
  <2>7. Seq2
    BY <1>0, <2>1, <2>2
  <2>8. Seq3
    BY <1>0, <2>1, <2>3, <2>4, <2>5, <2>6
  <2>9. QED BY <2>7, <2>8
<1>6. ASSUME NEW w \in Workers, InferFails(w)
      PROVE  Seq2 /\ Seq3
  <2>1. session' = NoSession /\ pc' = [pc EXCEPT ![w] = "failing"] /\ pc[w] = "policy"
    BY <1>6 DEF InferFails
  <2>2. \A v \in Workers : v # w => pc[v] # "policy"
    BY <2>1, Alone DEF InCriticalSection
  <2>3. QED BY <1>0, <2>1, <2>2
<1>7. ASSUME NEW w \in Workers, Confirm(w)
      PROVE  Seq2 /\ Seq3
  <2>1. /\ session # NoSession /\ session' = [session EXCEPT !.sequence = @ + 1]
        /\ UNCHANGED <<lease, disk>>
        /\ pc' = [pc EXCEPT ![w] = "answering"] /\ pc[w] = "recorded"
    BY <1>7 DEF Confirm
  <2>2. \A v \in Workers : v # w => pc[v] \notin {"policy", "recorded"}
    BY <2>1, Alone DEF InCriticalSection
  <2>3. session \in Lease
    BY <1>0, <2>1
  <2>4. /\ session'.sequence = session.sequence + 1 /\ session.sequence \in Nat
        /\ session'.trial = session.trial /\ session'.session = session.session
    BY <2>1, <2>3 DEF Lease
  <2>5. session.sequence + 1 = Lines(session.trial, session.session)
    BY <2>1 DEF NextLineNumbered
  <2>6. QED BY <1>0, <2>1, <2>2, <2>4, <2>5
<1>8. Seq2 /\ Seq3
  <2>1. CASE ~Eventful
    BY <1>2, <2>1 DEF NextLineNumbered
  <2>2. QED BY <2>1, <1>3, <1>4, <1>5, <1>6, <1>7 DEF Eventful
<1>9. QED BY <1>1, <1>8 DEF NextLineNumbered

\* Only Deliver adds a response, the one its worker was sending.
LEMMA DeliveredStep ==
  ASSUME IInv, [Next]_vars
  PROVE  \/ delivered' = delivered
         \/ \E w \in Workers : /\ pc[w] = "sending" /\ Deliver(w)
                               /\ delivered' = delivered \cup {lease[w]}
<1>1. CASE LoopStep
  BY <1>1 DEF LoopStep, PrepareLocks, PrepareLockTimeout, PrepareFails, PrepareReturns,
     PublishSkill, BeginTrialLocks, BeginTrialLockTimeout, BeginTrialRejected,
     BeginTrialSucceeds, BeginTrialAuditFails, BeginTrialPolicyFails, BeginTrialReturns,
     AbortLocks, AbortLockTimeout, AbortSucceeds, AbortAuditFails, AbortReturns
<1>2. CASE Command
  BY <1>2 DEF Command, PrepareSkill, BeginTrial, OpenSession, CloseSession, EndTrial,
     EndTrialAuditFails, Abort
<1>3. ASSUME NEW w \in Workers, Request(w) \/ WorkerStep(w)
      PROVE  delivered' = delivered
  BY <1>3 DEF Request, WorkerStep, InferLocks, InferLockTimeout, Expire, Validate, Reject,
     Record, InferFails, Confirm, LeaseLost, Leave
<1>4. ASSUME NEW w \in Workers, Send(w)
      PROVE  \/ delivered' = delivered
             \/ /\ pc[w] = "sending" /\ Deliver(w)
                /\ delivered' = delivered \cup {lease[w]}
  BY <1>4 DEF Send, Deliver, SendFails, SendFailsAmbiguous, Settle
<1>5. CASE Stop \/ Close \/ Restart \/ UNCHANGED vars
  BY <1>5 DEF Stop, Close, Restart, vars
<1>6. QED BY <1>1, <1>2, <1>3, <1>4, <1>5 DEF Next

\* Responses and the leases that Confirm may turn into one.
Answers == Responses \cup {lease[w] : w \in {v \in Workers : pc[v] = "recorded"}}

LEMMA AnswersTyped ==
  ASSUME IInv, NEW r \in Answers
  PROVE  r \in Identity
  BY DEF IInv, RuntimeTypeOK, LeaseDiscipline, InCriticalSection, Answers, Responses

\* A step makes an answer of nothing but the line it records.
LEMMA AnswerStep ==
  ASSUME IInv, [Next]_vars, NEW r \in Answers'
  PROVE  \/ r \in Answers
         \/ \E w \in Workers : Record(w) /\ r = lease[w]
<1>0. pc \in [Workers -> WorkerSteps] /\ lease \in [Workers -> Identity \cup {NoSession}]
  BY DEF IInv, RuntimeTypeOK
<1>1. CASE r \in delivered'
  BY <1>1, DeliveredStep DEF Answers, Responses
<1>2. ASSUME NEW w \in Workers, pc'[w] \in {"recorded", "answering", "sending"}, r = lease'[w]
      PROVE  \/ pc[w] \in {"recorded", "answering", "sending"} /\ r = lease[w]
             \/ Record(w) /\ r = lease[w]
  <2>1. CASE ~Eventful
    BY <1>2, <2>1, UneventfulStep DEF InCriticalSection
  <2>2. CASE \E s \in Sessions : OpenSession(s)
    BY <1>2, <2>2 DEF OpenSession
  <2>3. ASSUME NEW v \in Workers,
               (\E q \in Identity : Validate(v, q)) \/ Record(v) \/ InferFails(v) \/ Confirm(v)
        PROVE  \/ pc[w] \in {"recorded", "answering", "sending"} /\ r = lease[w]
               \/ Record(w) /\ r = lease[w]
    BY <1>0, <1>2, <2>3 DEF Validate, Record, InferFails, Confirm
  <2>4. QED BY <2>1, <2>2, <2>3 DEF Eventful
<1>3. QED
  BY <1>1, <1>2 DEF Answers, Responses

\* A file of lines only grows, so what is on file stays there.
LEMMA OnFileStays ==
  ASSUME IInv, AdmittedForTrial, [Next]_vars, NEW r \in Identity
  PROVE  /\ OnFile(r) \subseteq OnFile(r)'
         /\ \A w \in Workers : Record(w) /\ r = lease[w] => OnFile(r)' # {}
<1> DEFINE t == r.trial
<1>0. t \in Trials /\ disk[t].rows \in Seq(Identity) /\ DOMAIN disk = Trials
  BY DEF IInv, RuntimeTypeOK, AuditTypeOK, TrialDir, Identity
<1>1. CASE disk'[t].rows = disk[t].rows /\ \A w \in Workers : ~Record(w)
  BY <1>1 DEF OnFile
<1>2. ASSUME NEW w \in Workers, Record(w) \/ InferFails(w), pc[w] = "policy",
             lease[w] \in Identity, active = lease[w].trial,
             disk' = [disk EXCEPT ![active] = Appended(lease[w])],
             disk'[active].rows = Append(disk[active].rows, lease[w])
      PROVE  /\ OnFile(r) \subseteq OnFile(r)'
             /\ \A v \in Workers : Record(v) /\ r = lease[v] => OnFile(r)' # {}
  <2>1. \A v \in Workers : Record(v) => v = w
    BY <1>2, Alone DEF Record, InCriticalSection
  <2>2. CASE t # active
    BY <1>0, <1>2, <2>1, <2>2 DEF OnFile
  <2>3. CASE t = active
    <3>1. disk'[t].rows = Append(disk[t].rows, lease[w])
      BY <1>2, <2>3
    <3>2. \A i \in DOMAIN disk[t].rows :
             i \in DOMAIN disk'[t].rows /\ disk'[t].rows[i] = disk[t].rows[i]
      BY <1>0, <3>1
    <3>3. /\ Len(disk[t].rows) + 1 \in DOMAIN disk'[t].rows
          /\ disk'[t].rows[Len(disk[t].rows) + 1] = lease[w]
      BY <1>0, <3>1
    <3>4. QED BY <2>1, <3>2, <3>3 DEF OnFile
  <2>4. QED BY <2>2, <2>3
<1>3. QED BY <1>0, <1>1, <1>2, LineStep

LEMMA OnFileStep ==
  ASSUME IInv, AdmittedForTrial, AnswersOnFile, [Next]_vars
  PROVE  AnswersOnFile'
<1> SUFFICES ASSUME NEW r \in Answers' PROVE OnFile(r)' # {}
  BY DEF AnswersOnFile, Answers
<1>1. r \in Identity
  <2>1. ASSUME NEW q \in Answers PROVE q \in Identity
    BY <2>1, AnswersTyped
  <2>2. ASSUME NEW w \in Workers, Record(w) PROVE lease[w] \in Identity
    BY <2>2 DEF Record, IInv, LeaseDiscipline, InCriticalSection
  <2>3. QED BY <2>1, <2>2, AnswerStep
<1>2. CASE r \in Answers
  BY <1>1, <1>2, OnFileStays DEF AnswersOnFile, Answers
<1>3. ASSUME NEW w \in Workers, Record(w), r = lease[w]
      PROVE  OnFile(r)' # {}
  BY <1>1, <1>3, OnFileStays
<1>4. QED BY <1>2, <1>3, AnswerStep

-----------------------------------------------------------------------------
(* request_count, against the responses there are.                         *)

\* Only Confirm makes a response of something else.
LEMMA ResponseStep ==
  ASSUME IInv, [Next]_vars
  PROVE  \/ Responses' \subseteq Responses
         \/ \E w \in Workers : Confirm(w) /\ Responses' \subseteq Responses \cup {lease[w]}
<1>0. pc \in [Workers -> WorkerSteps] /\ lease \in [Workers -> Identity \cup {NoSession}]
  BY DEF IInv, RuntimeTypeOK
<1>1. CASE ~Eventful
  <2>1. \A w \in Workers : pc'[w] \in {"answering", "sending"} =>
           pc[w] \in {"answering", "sending"} /\ lease'[w] = lease[w]
    BY <1>1, UneventfulStep DEF InCriticalSection
  <2>2. QED BY <2>1, DeliveredStep DEF Responses
<1>2. CASE \E s \in Sessions : OpenSession(s)
  BY <1>2 DEF OpenSession, Responses
<1>3. ASSUME NEW v \in Workers,
             (\E q \in Identity : Validate(v, q)) \/ Record(v) \/ InferFails(v)
      PROVE  Responses' \subseteq Responses
  <2>1. /\ delivered' = delivered
        /\ \A w \in Workers : pc'[w] \in {"answering", "sending"} =>
              pc[w] = pc'[w] /\ lease'[w] = lease[w]
    BY <1>0, <1>3 DEF Validate, Record, InferFails
  <2>2. QED BY <2>1 DEF Responses
<1>4. ASSUME NEW v \in Workers, Confirm(v)
      PROVE  Responses' \subseteq Responses \cup {lease[v]}
  <2>1. /\ delivered' = delivered /\ lease' = lease
        /\ \A w \in Workers : pc'[w] \in {"answering", "sending"} =>
              w = v \/ pc[w] = pc'[w]
    BY <1>0, <1>4 DEF Confirm
  <2>2. QED BY <2>1 DEF Responses
<1>5. QED BY <1>1, <1>2, <1>3, <1>4 DEF Eventful

\* No call but end() makes a manifest COMMITTED or touches the count of one.
LEMMA OnlyEndCommits ==
  ASSUME AuditTypeOK, NEW t \in Trials, disk'[t].manifest = "COMMITTED",
         \/ UNCHANGED auditVars
         \/ \E u \in Trials, k \in Skills, g \in Generations :
               AuditBegin(u, k, g) \/ AuditBeginFails(u, k, g)
         \/ \E row \in Identity : AuditRecord(row) \/ AuditRecordFails(row)
         \/ \E status \in {"ABORTED", "AMBIGUOUS_INFERENCE"} :
               AuditTerminate(status) \/ AuditTerminateFails(status)
         \/ AuditRestart
  PROVE  disk[t].manifest = "COMMITTED" /\ disk'[t].count = disk[t].count
<1> USE DEF AuditTypeOK, TrialDir, Write
<1>1. ASSUME NEW u \in Trials, NEW k \in Skills, NEW g \in Generations,
             AuditBegin(u, k, g) \/ AuditBeginFails(u, k, g)
      PROVE  disk[t].manifest = "COMMITTED" /\ disk'[t].count = disk[t].count
  <2>1. /\ Created(u, k, g).manifest # "COMMITTED"
        /\ [disk[u] EXCEPT !.manifest = "EMPTY"].manifest # "COMMITTED"
    BY DEF Created
  <2>2. QED BY <1>1, <2>1 DEF AuditBegin, AuditBeginFails
<1>2. ASSUME NEW row \in Identity, AuditRecord(row) \/ AuditRecordFails(row)
      PROVE  disk[t].manifest = "COMMITTED" /\ disk'[t].count = disk[t].count
  <2>1. /\ Appended(row).manifest = disk[active].manifest
        /\ Appended(row).count = disk[active].count
    BY <1>2 DEF AuditRecord, AuditRecordFails, Appended
  <2>2. QED BY <1>2, <2>1 DEF AuditRecord, AuditRecordFails
<1>3. ASSUME NEW status \in {"ABORTED", "AMBIGUOUS_INFERENCE"},
             AuditTerminate(status) \/ AuditTerminateFails(status)
      PROVE  disk[t].manifest = "COMMITTED" /\ disk'[t].count = disk[t].count
  <2>1. Closed(status).manifest # "COMMITTED"
    BY <1>3 DEF AuditTerminate, AuditTerminateFails, Closed
  <2>2. QED BY <1>3, <2>1 DEF AuditTerminate, AuditTerminateFails
<1>4. CASE AuditRestart \/ UNCHANGED auditVars
  BY <1>4 DEF AuditRestart
<1>5. QED BY <1>1, <1>2, <1>3, <1>4

LEMMA EndCommitsActive ==
  ASSUME AuditTypeOK, NEW t \in Trials, disk'[t].manifest = "COMMITTED",
         AuditEnd \/ AuditEndFails
  PROVE  \/ disk[t].manifest = "COMMITTED" /\ disk'[t].count = disk[t].count
         \/ t = active /\ disk'[t].count = requestCount
<1>1. /\ active \in Trials /\ disk[active] \in TrialDir /\ disk \in [Trials -> TrialDir]
      /\ UNCHANGED disk \/ Write(active, Summarised) \/ Write(active, Committed)
  BY DEF AuditEnd, AuditEndFails, AuditTypeOK
<1>2. /\ Summarised.manifest = disk[active].manifest /\ Summarised.count = disk[active].count
      /\ Committed.count = requestCount
  BY <1>1 DEF Summarised, Committed, TrialDir
<1>3. QED BY <1>1, <1>2 DEF Write

\* A manifest becomes COMMITTED in end_trial, with request_count.
LEMMA CommitStep ==
  ASSUME IInv, [Next]_vars, NEW t \in Trials, disk'[t].manifest = "COMMITTED"
  PROVE  \/ disk[t].manifest = "COMMITTED" /\ disk'[t].count = disk[t].count
         \/ /\ t = active /\ disk'[t].count = requestCount
            /\ EndTrial \/ EndTrialAuditFails
<1> DEFINE Kept == disk[t].manifest = "COMMITTED" /\ disk'[t].count = disk[t].count
<1>0. /\ AuditTypeOK
      /\ At("begin") => loop.trial \in Trials
      /\ CanBeginTrial => activeSkill \in Skills /\ generation \in Generations
      /\ \A w \in Workers : pc[w] = "policy" => lease[w] \in Identity
  BY DEF IInv, RuntimeTypeOK, LoopDiscipline, CanBeginTrial, LeaseDiscipline,
         InCriticalSection
<1>1. CASE LoopStep
  BY <1>0, <1>1, OnlyEndCommits DEF LoopStep, PrepareLocks, PrepareLockTimeout, PrepareFails,
     PrepareReturns, PublishSkill, BeginTrialLocks, BeginTrialLockTimeout,
     BeginTrialRejected, BeginTrialSucceeds, BeginTrialAuditFails, BeginTrialPolicyFails,
     BeginTrialReturns, AbortLocks, AbortLockTimeout, AbortSucceeds, AbortAuditFails,
     AbortReturns
<1>2. CASE EndTrial \/ EndTrialAuditFails
  BY <1>0, <1>2, EndCommitsActive DEF EndTrial, EndTrialAuditFails
<1>3. CASE Command /\ ~(EndTrial \/ EndTrialAuditFails)
  BY <1>0, <1>3, OnlyEndCommits DEF Command, PrepareSkill, BeginTrial, OpenSession,
     CloseSession, Abort
<1>4. ASSUME NEW w \in Workers, Request(w) \/ WorkerStep(w)
      PROVE  Kept
  BY <1>0, <1>4, OnlyEndCommits DEF Request, WorkerStep, InferLocks, InferLockTimeout, Expire,
     Validate, Reject, Record, InferFails, Confirm, LeaseLost, Leave
<1>5. ASSUME NEW w \in Workers, Send(w)
      PROVE  Kept
  BY <1>0, <1>5, OnlyEndCommits DEF Send, Deliver, SendFails, SendFailsAmbiguous
<1>6. CASE Stop \/ Close \/ Restart
  BY <1>0, <1>6, OnlyEndCommits DEF Stop, Close, Restart
<1>7. CASE UNCHANGED vars
  BY <1>7 DEF vars
<1>8. QED BY <1>1, <1>2, <1>3, <1>4, <1>5, <1>6, <1>7 DEF Next

\* A trial begins with request_count 0 in a new directory; while it is open
\* the count never falls.
LEMMA CountKept ==
  ASSUME AuditTypeOK, AuditCall \/ UNCHANGED auditVars, active' # NoTrial
  PROVE  \/ active' = active /\ requestCount' \in Nat /\ requestCount' >= requestCount
         \/ /\ active = NoTrial /\ active' \in Trials /\ requestCount' = 0
            /\ disk[active'].manifest = "ABSENT"
            /\ disk'[active'].manifest = "ACTIVE"
<1>1. ASSUME NEW t \in Trials, NEW k \in Skills, NEW g \in Generations, AuditBegin(t, k, g)
      PROVE  /\ active = NoTrial /\ active' \in Trials /\ requestCount' = 0
             /\ disk[active'].manifest = "ABSENT"
             /\ disk'[active'].manifest = "ACTIVE"
  BY <1>1 DEF AuditBegin, DirectoryIsNew, Write, Created, AuditTypeOK, TrialDir
<1>2. CASE UNCHANGED auditVars
  BY <1>2 DEF AuditTypeOK
<1>3. ASSUME NEW t \in Trials, NEW k \in Skills, NEW g \in Generations, AuditBeginFails(t, k, g)
      PROVE  active' = active /\ requestCount' = requestCount
  BY <1>3 DEF AuditBeginFails
<1>4. ASSUME NEW row \in Identity, AuditRecord(row) \/ AuditRecordFails(row)
      PROVE  active' = active /\ requestCount' \in {requestCount, requestCount + 1}
  BY <1>4 DEF AuditRecord, AuditRecordFails
<1>5. ~(AuditEnd \/ AuditRestart \/ \E status \in {"ABORTED", "AMBIGUOUS_INFERENCE"} :
                                       AuditTerminate(status))
  BY DEF AuditEnd, AuditRestart, AuditTerminate
<1>6. CASE AuditEndFails \/ \E status \in {"ABORTED", "AMBIGUOUS_INFERENCE"} :
                               AuditTerminateFails(status)
  BY <1>6 DEF AuditEndFails, AuditTerminateFails, AuditTypeOK
<1>7. requestCount \in Nat
  BY DEF AuditTypeOK
<1>8. QED BY <1>1, <1>2, <1>3, <1>4, <1>5, <1>6, <1>7 DEF AuditCall

\* READY is left, or entered by publishing a skill when no trial is open.
LEMMA ReadyStep ==
  ASSUME IInv, [Next]_vars, state' = "READY", active' # NoTrial
  PROVE  state = "READY" /\ ~EndTrialAuditFails
<1>1. trialId' # NoTrial
  BY NextIInv DEF IInv, TrialAuditCoupled
<1>2. ~PublishSkill
  BY <1>1 DEF PublishSkill, IInv, LoopDiscipline, Preparing, TrialDiscipline
<1>3. ~Restart /\ ~Close /\ ~EndTrialAuditFails
  BY DEF Restart, Close, EndTrialAuditFails
<1>4. CASE LoopStep
  BY <1>2, <1>3, <1>4 DEF LoopStep, PrepareLocks, PrepareLockTimeout, PrepareFails,
     PrepareReturns, BeginTrialLocks, BeginTrialLockTimeout, BeginTrialRejected,
     BeginTrialSucceeds, BeginTrialAuditFails, BeginTrialPolicyFails, BeginTrialReturns,
     AbortLocks, AbortLockTimeout, AbortSucceeds, AbortAuditFails, AbortReturns
<1>5. CASE Command
  BY <1>3, <1>5 DEF Command, PrepareSkill, BeginTrial, OpenSession, CloseSession, EndTrial,
     Abort
<1>6. ASSUME NEW w \in Workers, Request(w) \/ WorkerStep(w) \/ Send(w)
      PROVE  state = "READY"
  BY <1>6 DEF Request, WorkerStep, InferLocks, InferLockTimeout, Expire, Validate, Reject,
     Record, InferFails, Confirm, LeaseLost, Leave, Send, Deliver, SendFails,
     SendFailsAmbiguous, Settle
<1>7. CASE Stop \/ UNCHANGED vars
  BY <1>3, <1>7 DEF Stop, vars
<1>8. QED BY <1>3, <1>4, <1>5, <1>6, <1>7 DEF Next

\* A call whose line is written and whose lease is still the live one.
Pending == session # NoSession /\ \E w \in Workers : pc[w] = "recorded"

\* Such a call comes from Record alone.
LEMMA PendingStep ==
  ASSUME IInv, [Next]_vars, Pending'
  PROVE  \/ Pending /\ (\A w \in Workers : ~Confirm(w))
         \/ \E w \in Workers : Record(w)
<1>0. /\ pc \in [Workers -> WorkerSteps]
      /\ \A w \in Workers : pc[w] \in InCriticalSection => lease[w] \in Lease
  BY IdentityIsLease DEF IInv, RuntimeTypeOK, LeaseDiscipline
<1>1. CASE ~Eventful
  BY <1>1, UneventfulStep DEF Pending, Eventful
<1>2. ASSUME NEW s \in Sessions, OpenSession(s)
      PROVE  FALSE
  <2>1. \A w \in Workers : pc[w] # "recorded"
    BY <1>0, <1>2 DEF OpenSession, IInv, LeaseDiscipline, InCriticalSection
  <2>2. QED BY <1>2, <2>1 DEF OpenSession, Pending
<1>3. ASSUME NEW w \in Workers, NEW r \in Identity, Validate(w, r)
      PROVE  FALSE
  <2>1. \A v \in Workers : pc[v] # "recorded"
    BY <1>3, Alone DEF Validate, InCriticalSection
  <2>2. QED BY <1>0, <1>3, <2>1 DEF Validate, Pending
<1>4. ASSUME NEW w \in Workers, InferFails(w)
      PROVE  FALSE
  BY <1>4 DEF InferFails, Pending
<1>5. ASSUME NEW w \in Workers, Confirm(w)
      PROVE  FALSE
  <2>1. \A v \in Workers : v # w => pc[v] # "recorded"
    BY <1>5, Alone DEF Confirm, InCriticalSection
  <2>2. QED BY <1>0, <1>5, <2>1 DEF Confirm, Pending
<1>6. QED BY <1>1, <1>2, <1>3, <1>4, <1>5 DEF Eventful

\* A set of responses that gains at most one element.
LEMMA GainsOne ==
  ASSUME NEW S, NEW T, NEW x, IsFiniteSet(S), T \subseteq S \cup {x}
  PROVE  IsFiniteSet(T) /\ Cardinality(T) \in Nat /\ Cardinality(S) \in Nat
         /\ Cardinality(T) <= Cardinality(S) + 1
<1>1. /\ IsFiniteSet(S \cup {x})
      /\ Cardinality(S \cup {x}) = Cardinality(S) \/ Cardinality(S \cup {x}) = Cardinality(S) + 1
  BY FS_AddElement
<1>2. IsFiniteSet(T) /\ Cardinality(T) <= Cardinality(S \cup {x})
  BY <1>1, FS_Subset
<1>3. QED BY <1>1, <1>2, FS_CardinalityType

LEMMA GainsNone ==
  ASSUME NEW S, NEW T, IsFiniteSet(S), T \subseteq S
  PROVE  IsFiniteSet(T) /\ Cardinality(T) \in Nat /\ Cardinality(S) \in Nat
         /\ Cardinality(T) <= Cardinality(S)
  BY FS_Subset, FS_CardinalityType

\* request_count stays ahead of the responses, and a committed count with it.
LEMMA CountStep ==
  ASSUME IInv, AnswersOnFile, FiledUnderTrial, CountAhead, [Next]_vars
  PROVE  CountAhead'
<1> DEFINE Of(t) == ResponsesOf(t)
           OfNext(t) == {r \in Responses' : r.trial = t}
           OneMore == IF Pending THEN 1 ELSE 0
           OneMoreNext == IF Pending' THEN 1 ELSE 0
<1>0. /\ AuditTypeOK /\ IInv' /\ trialId = active /\ requestCount \in Nat
      /\ IsFiniteSet(Responses)
      /\ active \in Trials \cup {NoTrial}
      /\ \A t \in Trials : disk[t] \in TrialDir
  BY NextIInv DEF IInv, RuntimeTypeOK, TrialAuditCoupled, AuditTypeOK, CountAhead
<1>1. active # NoTrial => Cardinality(Of(active)) + OneMore <= requestCount
  BY DEF CountAhead, Pending
<1>2. ASSUME NEW t
      PROVE  IsFiniteSet(Of(t)) /\ Cardinality(Of(t)) \in Nat
  BY <1>0, FS_Subset, FS_CardinalityType DEF ResponsesOf
<1>3. IsFiniteSet(Responses')
  <2>1. CASE Responses' \subseteq Responses
    BY <1>0, <2>1, GainsNone
  <2>2. ASSUME NEW w \in Workers, Responses' \subseteq Responses \cup {lease[w]}
        PROVE  IsFiniteSet(Responses')
    BY <1>0, <2>2, GainsOne
  <2>3. QED BY <2>1, <2>2, ResponseStep
<1>4. ASSUME Responses' \subseteq Responses, NEW t
      PROVE  Cardinality(OfNext(t)) \in Nat /\ Cardinality(OfNext(t)) <= Cardinality(Of(t))
  <2>1. OfNext(t) \subseteq Of(t)
    BY <1>4 DEF ResponsesOf
  <2>2. QED BY <1>2, <2>1, GainsNone
<1>5. ASSUME NEW w \in Workers, Confirm(w), Responses' \subseteq Responses \cup {lease[w]}
      PROVE  /\ UNCHANGED auditVars /\ state = "READY" /\ Pending /\ ~Pending'
             /\ Cardinality(OfNext(active)) \in Nat
             /\ Cardinality(OfNext(active)) <= Cardinality(Of(active)) + 1
             /\ \A t \in Trials : t # active =>
                   /\ Cardinality(OfNext(t)) \in Nat
                   /\ Cardinality(OfNext(t)) <= Cardinality(Of(t))
  <2>1. UNCHANGED auditVars /\ Pending /\ session # NoSession /\ pc[w] = "recorded"
    BY <1>5 DEF Confirm, Pending
  <2>2. state = "READY" /\ session = lease[w] /\ lease[w].trial = active
    BY <1>0, <2>1 DEF IInv, SessionBound, LeaseDiscipline
  <2>3. ~Pending'
    BY <1>5, PendingStep, Alone DEF Confirm, Record, InCriticalSection
  <2>4. OfNext(active) \subseteq Of(active) \cup {lease[w]}
    BY <1>5 DEF ResponsesOf
  <2>5. \A t \in Trials : t # active => OfNext(t) \subseteq Of(t)
    BY <1>5, <2>2 DEF ResponsesOf
  <2>6. /\ Cardinality(OfNext(active)) \in Nat
        /\ Cardinality(OfNext(active)) <= Cardinality(Of(active)) + 1
    BY <1>2, <2>4, GainsOne
  <2>7. \A t \in Trials : t # active => Cardinality(OfNext(t)) \in Nat
                                        /\ Cardinality(OfNext(t)) <= Cardinality(Of(t))
    BY <1>2, <2>5, GainsNone
  <2>8. QED BY <2>1, <2>2, <2>3, <2>6, <2>7
<1>6. ASSUME active' # NoTrial
      PROVE  Cardinality(OfNext(active')) + OneMoreNext <= requestCount'
  <2>1. CASE active' = active /\ requestCount' \in Nat /\ requestCount' >= requestCount
    <3>1. CASE \E w \in Workers : Confirm(w) /\ Responses' \subseteq Responses \cup {lease[w]}
      BY <1>0, <1>1, <1>2, <1>5, <1>6, <2>1, <3>1
    <3>2. CASE Responses' \subseteq Responses /\ (Pending' => Pending)
      BY <1>0, <1>1, <1>2, <1>4, <1>6, <2>1, <3>2
    <3>3. CASE Responses' \subseteq Responses /\ Pending' /\ ~Pending
      <4>1. PICK w \in Workers : Record(w)
        BY <3>3, PendingStep
      <4>2. requestCount' = requestCount + 1
        BY <4>1 DEF Record, AuditRecord
      <4>3. QED BY <1>0, <1>1, <1>2, <1>4, <1>6, <2>1, <3>3, <4>2
    <3>4. QED BY <3>1, <3>2, <3>3, ResponseStep
  <2>2. CASE /\ active = NoTrial /\ active' \in Trials /\ requestCount' = 0
             /\ disk[active'].manifest = "ABSENT"
    <3>1. session = NoSession
      BY <1>0, <2>2 DEF IInv, RuntimeTypeOK, SessionBound, Lease
    <3>2. ~Pending' /\ \A w \in Workers : ~Confirm(w)
      BY <2>2, <3>1, PendingStep DEF Pending, Record, AuditRecord, Confirm
    <3>3. Responses' \subseteq Responses
      BY <3>2, ResponseStep
    <3>4. Of(active') = {}
      <4> SUFFICES ASSUME NEW r \in Responses, r.trial = active' PROVE FALSE
        BY DEF ResponsesOf
      <4>1. disk[r.trial].rows = <<>>
        BY <2>2 DEF FiledUnderTrial
      <4>2. QED BY <4>1 DEF AnswersOnFile, OnFile
    <3>5. OfNext(active') = {}
      BY <3>3, <3>4 DEF ResponsesOf
    <3>6. Cardinality(OfNext(active')) = 0
      BY <3>5, FS_EmptySet
    <3>7. OneMoreNext = 0
      BY <3>2
    <3>8. QED BY <2>2, <3>6, <3>7
  <2>3. QED BY <1>0, <1>6, <2>1, <2>2, OneCall, CountKept
<1>7. ASSUME active' # NoTrial, disk'[active'].manifest = "COMMITTED"
      PROVE  state' # "READY"
  <2> SUFFICES ASSUME state' = "READY" PROVE FALSE
    OBVIOUS
  <2>1. state = "READY" /\ ~EndTrialAuditFails
    BY <1>7, ReadyStep
  <2>2. active' = active
    BY <1>0, <1>7, OneCall, CountKept
  <2>3. active \in Trials /\ disk[active].manifest # "COMMITTED"
    BY <1>0, <1>7, <2>1, <2>2 DEF CountAhead
  <2>4. EndTrial
    BY <1>7, <2>1, <2>2, <2>3, CommitStep
  <2>5. QED BY <1>7, <2>4 DEF EndTrial, AuditEnd
<1>8. ASSUME NEW t \in Trials, disk'[t].manifest = "COMMITTED"
      PROVE  Cardinality(OfNext(t)) <= disk'[t].count
  <2>1. CASE disk[t].manifest = "COMMITTED" /\ disk'[t].count = disk[t].count
    <3>1. Cardinality(Of(t)) <= disk[t].count /\ disk[t].count \in Nat
      BY <1>0, <2>1 DEF CountAhead, TrialDir
    <3>2. CASE Responses' \subseteq Responses
      BY <1>2, <1>4, <2>1, <3>1, <3>2
    <3>3. ASSUME NEW w \in Workers, Confirm(w), Responses' \subseteq Responses \cup {lease[w]}
          PROVE  Cardinality(OfNext(t)) <= disk[t].count
      <4>1. t # active
        BY <1>5, <2>1, <3>3 DEF CountAhead
      <4>2. /\ Cardinality(OfNext(t)) \in Nat
            /\ Cardinality(OfNext(t)) <= Cardinality(Of(t))
        BY <1>5, <3>3, <4>1
      <4>3. Cardinality(Of(t)) \in Nat
        BY <1>2
      <4> HIDE DEF Of, OfNext
      <4>4. QED BY <3>1, <4>2, <4>3
    <3>4. QED BY <2>1, <3>2, <3>3, ResponseStep
  <2>2. CASE t = active /\ disk'[t].count = requestCount /\ (EndTrial \/ EndTrialAuditFails)
    <3>1. \A w \in Workers : ~Confirm(w)
      BY <2>2 DEF EndTrial, EndTrialAuditFails, CanEndTrial, Confirm
    <3>2. Responses' \subseteq Responses
      BY <3>1, ResponseStep
    <3>3. QED BY <1>0, <1>1, <1>2, <1>4, <2>2, <3>2
  <2>3. QED BY <1>8, <2>1, <2>2, CommitStep
<1>9. QED BY <1>3, <1>6, <1>7, <1>8 DEF CountAhead, Pending, ResponsesOf

-----------------------------------------------------------------------------
\* A fresh process on an empty root has no evidence to be wrong about.
LEMMA InitEvidence == Init => EvidenceIInv
<1> SUFFICES ASSUME Init PROVE EvidenceIInv
  OBVIOUS
<1> USE DEF Init, AuditInit
<1>1. /\ \A t \in Trials : /\ disk[t].rows = <<>> /\ disk[t].skill = NoSkill
                            /\ disk[t].manifest = "ABSENT"
      /\ \A w \in Workers : pc[w] = "idle"
      /\ Responses = {}
  BY DEF NoDirectory, Responses
<1>2. FiledUnderTrial /\ AdmittedForTrial
  BY <1>1 DEF FiledUnderTrial, EvidenceFiledUnderItsTrial, AdmittedForTrial,
     InCriticalSection
<1>3. NextLineNumbered /\ AnswersOnFile
  BY <1>1 DEF NextLineNumbered, EvidenceInSequence, AnswersOnFile
<1>4. CountAhead
  BY <1>1, FS_EmptySet DEF CountAhead
<1>5. QED BY <1>2, <1>3, <1>4 DEF EvidenceIInv

LEMMA NextEvidence ==
  IInv /\ LedgerIInv /\ EvidenceIInv /\ [Next]_vars => LedgerIInv' /\ EvidenceIInv'
<1> SUFFICES ASSUME IInv, LedgerIInv, EvidenceIInv, [Next]_vars
             PROVE  LedgerIInv' /\ EvidenceIInv'
  OBVIOUS
<1>1. LedgerIInv'
  BY OneCall, CallKeepsDirectory, LedgerStutter
<1>2. FiledUnderTrial' /\ AdmittedForTrial'
  BY FiledStep, AdmittedStep DEF EvidenceIInv
<1>3. NextLineNumbered'
  BY NumberedStep DEF EvidenceIInv
<1>4. AnswersOnFile' /\ CountAhead'
  BY OnFileStep, CountStep DEF EvidenceIInv
<1>5. QED BY <1>1, <1>2, <1>3, <1>4 DEF EvidenceIInv

\* The evidence invariant holds through every interleaving, failed write,
\* lost response and restart.
THEOREM EvidenceHolds == Spec => [](IInv /\ LedgerIInv /\ EvidenceIInv)
<1>1. Init => IInv /\ LedgerIInv /\ EvidenceIInv
  BY InitIInv, InitEvidence, LedgerStart DEF Init
<1>2. IInv /\ LedgerIInv /\ EvidenceIInv /\ [Next]_vars =>
         (IInv /\ LedgerIInv /\ EvidenceIInv)'
  BY NextIInv, NextEvidence
<1>3. QED BY <1>1, <1>2, PTL DEF Spec

\* S-014: record_request writes to whatever trial is active, and what it
\* writes always belongs there.
THEOREM EvidenceAlwaysFiledUnderItsTrial == Spec => []EvidenceFiledUnderItsTrial
<1>1. EvidenceIInv => EvidenceFiledUnderItsTrial
  BY DEF EvidenceIInv, FiledUnderTrial
<1>2. QED BY <1>1, EvidenceHolds, PTL

\* S-012: whatever happens to the responses, a session's lines are numbered
\* without gap or repetition.
THEOREM EvidenceAlwaysInSequence == Spec => []EvidenceInSequence
<1>1. EvidenceIInv => EvidenceInSequence
  BY DEF EvidenceIInv, NextLineNumbered
<1>2. QED BY <1>1, EvidenceHolds, PTL

\* No action is published without its evidence, and none has it twice.
THEOREM ResponsesAlwaysOnFile == Spec => []ResponsesOnFile
<1>1. IInv /\ EvidenceIInv => ResponsesOnFile
  <2> SUFFICES ASSUME IInv, EvidenceIInv, NEW r \in Responses
               PROVE  Cardinality(OnFile(r)) = 1
    BY DEF ResponsesOnFile
  <2>1. r \in Identity
    BY AnswersTyped DEF Answers
  <2>2. r.trial \in Trials /\ disk[r.trial].rows \in Seq(Identity)
    BY <2>1 DEF Identity, IInv, RuntimeTypeOK, AuditTypeOK, TrialDir
  <2>3. PICK i \in OnFile(r) : TRUE
    BY DEF EvidenceIInv, AnswersOnFile
  <2>4. Numbered(disk[r.trial].rows)
    BY <2>2 DEF EvidenceIInv, NextLineNumbered, EvidenceInSequence, Numbered
  <2>5. ASSUME NEW k \in OnFile(r) PROVE k = i
    <3>1. /\ i \in DOMAIN disk[r.trial].rows /\ k \in DOMAIN disk[r.trial].rows
          /\ disk[r.trial].rows[i] = disk[r.trial].rows[k]
          /\ i \in Int /\ k \in Int
      BY <2>2 DEF OnFile
    <3>2. ~(i < k) /\ ~(k < i)
      BY <2>2, <2>4, <3>1, NumberedOnce
    <3>3. QED BY <3>1, <3>2
  <2>6. OnFile(r) = {i}
    BY <2>3, <2>5
  <2>7. QED BY <2>6, FS_Singleton
<1>2. QED BY <1>1, EvidenceHolds, PTL

\* The count in a manifest that end() committed is at least the number of
\* responses delivered for the trial.
THEOREM CommitAlwaysCountsResponses == Spec => []CommitCountsResponses
<1>1. IInv /\ EvidenceIInv => CommitCountsResponses
  <2> SUFFICES ASSUME IInv, EvidenceIInv, NEW t \in Trials, disk[t].manifest = "COMMITTED"
               PROVE  Cardinality({r \in delivered : r.trial = t}) <= disk[t].count
    BY DEF CommitCountsResponses
  <2>1. {r \in delivered : r.trial = t} \subseteq ResponsesOf(t)
    BY DEF ResponsesOf, Responses
  <2>2. IsFiniteSet(ResponsesOf(t)) /\ Cardinality(ResponsesOf(t)) <= disk[t].count
    BY FS_Subset DEF EvidenceIInv, CountAhead, ResponsesOf
  <2>3. disk[t].count \in Nat
    BY DEF IInv, RuntimeTypeOK, AuditTypeOK, TrialDir
  <2>4. QED BY <2>1, <2>2, <2>3, GainsNone
<1>2. QED BY <1>1, EvidenceHolds, PTL
-----------------------------------------------------------------------------
(* The server implements PolicyService: what each call of the store looks  *)
(* like to the client, then each handler.                                  *)

\* The entry of a trial replaced, and one field at a time.
Replaced(t, v, k, n)   == [ServedTrials EXCEPT ![t] = [verdict |-> v, skill |-> k, recorded |-> n]]
WithVerdict(t, v)      == [ServedTrials EXCEPT ![t].verdict = v]
WithDirectory(t, v, k) == [ServedTrials EXCEPT ![t].verdict = v, ![t].skill = k]
WithLine(t)            == [ServedTrials EXCEPT ![t].recorded = @ + 1]

\* A call that writes one directory shows in the entry of that trial alone.
LEMMA EntryBecomes ==
  ASSUME LedgerIInv, NEW t \in Trials,
         disk' = [disk EXCEPT ![t] = disk'[t]] \/ disk' = disk,
         active \in {t, NoTrial}, active' \in {t, NoTrial}
  PROVE  ServedTrials' = Replaced(t, VerdictOf(t)', disk'[t].skill, Len(disk'[t].rows))
<1>1. \A u \in Trials : u # t => disk'[u] = disk[u]
  BY DEF LedgerIInv, AuditTypeOK
<1>2. \A u \in Trials : u # t => VerdictOf(u)' = VerdictOf(u)
  BY OtherVerdicts
<1>3. QED BY <1>1, <1>2 DEF ServedTrials, Replaced

LEMMA EntryFields ==
  ASSUME AuditTypeOK, NEW t \in Trials, NEW v, NEW k
  PROVE  /\ WithVerdict(t, v) = Replaced(t, v, disk[t].skill, Len(disk[t].rows))
         /\ WithDirectory(t, v, k) = Replaced(t, v, k, Len(disk[t].rows))
         /\ WithLine(t) = Replaced(t, VerdictOf(t), disk[t].skill, Len(disk[t].rows) + 1)
<1> DEFINE S == ServedTrials
           a == VerdictOf(t)
           b == disk[t].skill
           n == Len(disk[t].rows)
           entry == S[t]
           E1 == [entry EXCEPT !.verdict = v]
           E2 == [entry EXCEPT !.verdict = v, !.skill = k]
           E3 == [entry EXCEPT !.recorded = @ + 1]
           Entries == [verdict : {a, v}, skill : {b, k}, recorded : Nat]
<1>1. /\ t \in DOMAIN S /\ S = [u \in DOMAIN S |-> S[u]]
      /\ entry = [verdict |-> a, skill |-> b, recorded |-> n]
  BY DEF ServedTrials
<1>2. n \in Nat
  BY DEF AuditTypeOK, TrialDir
<1> HIDE DEF S, n, a, b
<1>3. entry \in Entries /\ entry.verdict = a /\ entry.skill = b /\ entry.recorded = n
  BY <1>1, <1>2
<1>4. /\ WithVerdict(t, v) = [S EXCEPT ![t] = E1]
      /\ WithDirectory(t, v, k) = [S EXCEPT ![t] = E2]
      /\ WithLine(t) = [S EXCEPT ![t] = E3]
  <2>1. WithVerdict(t, v) = [S EXCEPT ![t] = E1]
    BY <1>1 DEF WithVerdict, S
  <2>2. WithDirectory(t, v, k) = [S EXCEPT ![t] = E2]
    BY <1>1 DEF WithDirectory, S
  <2>3. WithLine(t) = [S EXCEPT ![t] = E3]
    BY <1>1 DEF WithLine, S
  <2>4. QED BY <2>1, <2>2, <2>3
<1> HIDE DEF entry
<1>5. E1 \in Entries /\ E1.verdict = v /\ E1.skill = b /\ E1.recorded = n
  BY <1>3
<1>6. E2 \in Entries /\ E2.verdict = v /\ E2.skill = k /\ E2.recorded = n
  <2>1. E2 = [E1 EXCEPT !.skill = k]
    OBVIOUS
  <2> HIDE DEF E1, E2
  <2>2. QED BY <1>5, <2>1
<1>7. E3 \in Entries /\ E3.verdict = a /\ E3.skill = b /\ E3.recorded = n + 1
  BY <1>2, <1>3
<1> HIDE DEF E1, E2, E3
<1>8. /\ E1 = [verdict |-> v, skill |-> b, recorded |-> n]
      /\ E2 = [verdict |-> v, skill |-> k, recorded |-> n]
      /\ E3 = [verdict |-> a, skill |-> b, recorded |-> n + 1]
  BY <1>5, <1>6, <1>7
<1>9. QED BY <1>4, <1>8 DEF Replaced, S, a, b, n

LEMMA NoCallShown == UNCHANGED auditVars => ServedTrials' = ServedTrials
  BY DEF ServedTrials, VerdictOf

LEMMA BeginShown ==
  ASSUME LedgerIInv, NEW t \in Trials, NEW k \in Skills, NEW g \in Generations,
         AuditBegin(t, k, g)
  PROVE  /\ ServedTrials[t].verdict = "unused"
         /\ ServedTrials' = WithDirectory(t, "open", k)
<1> USE DEF LedgerIInv, AuditTypeOK
<1>1. /\ VerdictOf(t) = "unused" /\ VerdictOf(t)' = "open"
      /\ disk' = [disk EXCEPT ![t] = disk'[t]]
      /\ disk'[t].skill = k /\ disk'[t].rows = disk[t].rows
  BY DEF AuditBegin, DirectoryIsNew, VerdictOf, Write, Created, TrialDir
<1>2. ServedTrials' = Replaced(t, VerdictOf(t)', disk'[t].skill, Len(disk'[t].rows))
  BY <1>1, EntryBecomes DEF AuditBegin
<1>3. ServedTrials[t].verdict = VerdictOf(t)
  BY DEF ServedTrials
<1>4. QED BY <1>1, <1>2, <1>3, EntryFields DEF LedgerIInv

\* The id is spent, with the skill on file or without.
LEMMA BeginFailureShown ==
  ASSUME LedgerIInv, FiledUnderTrial, NEW t \in Trials, NEW k \in Skills,
         NEW g \in Generations, AuditBeginFails(t, k, g)
  PROVE  \/ ServedTrials' = ServedTrials
         \/ /\ ServedTrials[t].verdict = "unused"
            /\ \E j \in {NoSkill, k} :
                  ServedTrials' = WithDirectory(t, "unfinished", j)
<1> SUFFICES ASSUME ~UNCHANGED disk
             PROVE  /\ ServedTrials[t].verdict = "unused"
                    /\ \E j \in {NoSkill, k} :
                          ServedTrials' = WithDirectory(t, "unfinished", j)
  BY NoCallShown DEF AuditBeginFails
<1>1. /\ disk'[t].manifest \in {"EMPTY", "ACTIVE"} /\ disk' = [disk EXCEPT ![t] = disk'[t]]
      /\ disk'[t].rows = disk[t].rows
      /\ disk'[t].skill \in {disk[t].skill, k}
      /\ disk[t].manifest = "ABSENT"
  <2>1. disk[t] \in TrialDir /\ disk \in [Trials -> TrialDir]
    BY DEF LedgerIInv, AuditTypeOK
  <2>2. /\ Created(t, k, g).manifest = "ACTIVE" /\ Created(t, k, g).rows = disk[t].rows
        /\ Created(t, k, g).skill = k
    BY <2>1 DEF Created, TrialDir
  <2>3. LET dir == [disk[t] EXCEPT !.manifest = "EMPTY"]
        IN  dir.manifest = "EMPTY" /\ dir.rows = disk[t].rows /\ dir.skill = disk[t].skill
    BY <2>1 DEF TrialDir
  <2>4. /\ \/ disk' = [disk EXCEPT ![t] = [disk[t] EXCEPT !.manifest = "EMPTY"]]
           \/ disk' = [disk EXCEPT ![t] = Created(t, k, g)]
        /\ disk[t].manifest = "ABSENT"
    BY DEF AuditBeginFails, DirectoryIsNew, Write
  <2>5. QED BY <2>1, <2>2, <2>3, <2>4
<1>2. VerdictOf(t) = "unused" /\ VerdictOf(t)' = "unfinished"
  BY <1>1 DEF AuditBeginFails, VerdictOf
<1>3. disk'[t].skill \in {NoSkill, k}
  BY <1>1 DEF FiledUnderTrial
<1>4. ServedTrials' = Replaced(t, VerdictOf(t)', disk'[t].skill, Len(disk'[t].rows))
  BY <1>1, EntryBecomes DEF AuditBeginFails
<1>5. ServedTrials[t].verdict = VerdictOf(t)
  BY DEF ServedTrials
<1>6. QED BY <1>1, <1>2, <1>3, <1>4, <1>5, EntryFields DEF LedgerIInv

LEMMA RecordShown ==
  ASSUME LedgerIInv, NEW row \in Identity, NEW t \in Trials, t = active, active' = active,
         disk' = [disk EXCEPT ![active] = Appended(row)]
  PROVE  ServedTrials' = WithLine(t)
<1>1. disk[t] \in TrialDir /\ disk \in [Trials -> TrialDir]
  BY DEF LedgerIInv, AuditTypeOK
<1>2. /\ disk' = [disk EXCEPT ![t] = disk'[t]]
      /\ disk'[t].skill = disk[t].skill
      /\ disk'[t].rows = Append(disk[t].rows, row)
  BY <1>1 DEF Appended, TrialDir
<1>3. Len(disk'[t].rows) = Len(disk[t].rows) + 1
  BY <1>1, <1>2 DEF TrialDir
<1>4. VerdictOf(t) = "open" /\ VerdictOf(t)' = "open"
  BY DEF VerdictOf
<1>5. ServedTrials' = Replaced(t, VerdictOf(t)', disk'[t].skill, Len(disk'[t].rows))
  BY <1>2, EntryBecomes
<1>6. QED BY <1>2, <1>3, <1>4, <1>5, EntryFields DEF LedgerIInv

\* A call that failed to close the trial leaves it open to the client.
LEMMA FailedCloseShown ==
  ASSUME LedgerIInv,
         AuditEndFails \/ AuditTerminateFails("ABORTED")
            \/ AuditTerminateFails("AMBIGUOUS_INFERENCE")
  PROVE  ServedTrials' = ServedTrials
<1>1. PICK t \in Trials : t = active
  BY DEF AuditEndFails, AuditTerminateFails, LedgerIInv, AuditTypeOK
<1>2. disk[t] \in TrialDir /\ disk \in [Trials -> TrialDir] /\ active' = active
  BY DEF LedgerIInv, AuditTypeOK, AuditEndFails, AuditTerminateFails
<1>3. /\ disk' = [disk EXCEPT ![t] = disk'[t]] \/ disk' = disk
      /\ disk'[t].skill = disk[t].skill
      /\ disk'[t].rows = disk[t].rows
  <2>1. \A dir \in {Summarised, Committed, Closed("ABORTED"), Closed("AMBIGUOUS_INFERENCE")} :
           dir.skill = disk[t].skill /\ dir.rows = disk[t].rows
    BY <1>1, <1>2 DEF Summarised, Committed, Closed, TrialDir
  <2>2. \/ disk' = disk
        \/ \E dir \in {Summarised, Committed, Closed("ABORTED"), Closed("AMBIGUOUS_INFERENCE")} :
              disk' = [disk EXCEPT ![t] = dir]
    BY <1>1 DEF AuditEndFails, AuditTerminateFails, Write
  <2>3. QED BY <1>2, <2>1, <2>2
<1>4. VerdictOf(t) = "open" /\ VerdictOf(t)' = "open"
  BY <1>1, <1>2 DEF VerdictOf
<1>5. ServedTrials' = Replaced(t, VerdictOf(t)', disk'[t].skill, Len(disk'[t].rows))
  BY <1>1, <1>2, <1>3, EntryBecomes
<1>6. Replaced(t, "open", disk[t].skill, Len(disk[t].rows)) = ServedTrials
  BY <1>4 DEF Replaced, ServedTrials
<1>7. QED BY <1>3, <1>4, <1>5, <1>6

\* The verdict of the trial that is let go of, and nothing else, changes.
LEMMA VerdictShown ==
  ASSUME LedgerIInv, active # NoTrial,
         AuditEnd \/ AuditTerminate("ABORTED") \/ AuditTerminate("AMBIGUOUS_INFERENCE")
            \/ AuditRestart
  PROVE  /\ AuditEnd => ServedTrials' = WithVerdict(active, "COMMITTED")
         /\ AuditTerminate("ABORTED") =>
               ServedTrials' = WithVerdict(active, "ABORTED")
         /\ AuditTerminate("AMBIGUOUS_INFERENCE") =>
               ServedTrials' = WithVerdict(active, "AMBIGUOUS_INFERENCE")
         /\ \E v \in {"COMMITTED", "ABORTED", "AMBIGUOUS_INFERENCE", "unfinished"} :
               ServedTrials' = WithVerdict(active, v)
<1>1. PICK t \in Trials : t = active
  BY DEF LedgerIInv, AuditTypeOK
<1>2. disk[t] \in TrialDir /\ disk \in [Trials -> TrialDir] /\ active' = NoTrial
  BY DEF LedgerIInv, AuditTypeOK, AuditEnd, AuditTerminate, AuditRestart
<1>3. /\ disk' = [disk EXCEPT ![t] = disk'[t]] \/ disk' = disk
      /\ disk'[t].skill = disk[t].skill
      /\ disk'[t].rows = disk[t].rows
  <2>1. \A dir \in {Summarised, Committed, Closed("ABORTED"), Closed("AMBIGUOUS_INFERENCE")} :
           dir.skill = disk[t].skill /\ dir.rows = disk[t].rows
    BY <1>1, <1>2 DEF Summarised, Committed, Closed, TrialDir
  <2>2. \/ disk' = disk
        \/ \E dir \in {Summarised, Committed, Closed("ABORTED"), Closed("AMBIGUOUS_INFERENCE")} :
              disk' = [disk EXCEPT ![t] = dir]
    BY <1>1 DEF AuditEnd, AuditTerminate, AuditRestart, Write
  <2>3. QED BY <1>2, <2>1, <2>2
<1>4. /\ AuditEnd => VerdictOf(t)' = "COMMITTED"
      /\ AuditTerminate("ABORTED") => VerdictOf(t)' = "ABORTED"
      /\ AuditTerminate("AMBIGUOUS_INFERENCE") => VerdictOf(t)' = "AMBIGUOUS_INFERENCE"
  <2>1. t # active'
    BY <1>2
  <2>2. /\ AuditEnd => disk'[t].manifest = "COMMITTED"
        /\ AuditTerminate("ABORTED") => disk'[t].manifest = "ABORTED"
        /\ AuditTerminate("AMBIGUOUS_INFERENCE") =>
              disk'[t].manifest = "AMBIGUOUS_INFERENCE"
    <3>1. /\ Committed.manifest = "COMMITTED" /\ Closed("ABORTED").manifest = "ABORTED"
          /\ Closed("AMBIGUOUS_INFERENCE").manifest = "AMBIGUOUS_INFERENCE"
      BY <1>1, <1>2 DEF Summarised, Committed, Closed, TrialDir
    <3>2. QED BY <1>1, <1>2, <3>1 DEF AuditEnd, AuditTerminate, Write
  <2>3. QED BY <2>1, <2>2 DEF VerdictOf
<1>5. VerdictOf(t)' \in {"COMMITTED", "ABORTED", "AMBIGUOUS_INFERENCE", "unfinished"}
  <2>1. CASE AuditRestart
    BY <1>1, <1>2, <2>1 DEF AuditRestart, VerdictOf, LedgerIInv, ActiveHasDirectory, TrialDir,
       Manifests
  <2>2. QED BY <1>4, <2>1
<1>6. ServedTrials' = Replaced(t, VerdictOf(t)', disk'[t].skill, Len(disk'[t].rows))
  BY <1>1, <1>2, <1>3, EntryBecomes
<1>7. ServedTrials' = WithVerdict(t, VerdictOf(t)')
  BY <1>3, <1>6, EntryFields DEF LedgerIInv
<1>8. QED BY <1>1, <1>4, <1>5, <1>7

\* What the client sees, written out, and one field at a time.
Seen(a, k, c, d) == [state |-> a, skill |-> k, trial |-> c, session |-> d,
                     instance |-> instance]
SeenSession == IF session = NoSession THEN NoSession ELSE session.session

WithState(a, d)     == [Served EXCEPT !.state = a, !.session = d]
WithPolicy(a, k, d) == [Served EXCEPT !.state = a, !.skill = k, !.session = d]
WithTrial(c)        == [Served EXCEPT !.trial = c]
WithSession(d)      == [Served EXCEPT !.session = d]
WithNeither(c, d)   == [Served EXCEPT !.trial = c, !.session = d]
WithClosed(a, c, d) == [Served EXCEPT !.state = a, !.trial = c, !.session = d]

LEMMA ServedFields ==
  ASSUME NEW a, NEW k, NEW c, NEW d
  PROVE  /\ Served = Seen(ServedState, activeSkill, trialId, SeenSession)
         /\ WithState(a, d) = Seen(a, activeSkill, trialId, d)
         /\ WithPolicy(a, k, d) = Seen(a, k, trialId, d)
         /\ WithTrial(c) = Seen(ServedState, activeSkill, c, SeenSession)
         /\ WithSession(d) = Seen(ServedState, activeSkill, trialId, d)
         /\ WithNeither(c, d) = Seen(ServedState, activeSkill, c, d)
         /\ WithClosed(a, c, d) = Seen(a, activeSkill, c, d)
<1> DEFINE R == [state : {ServedState, a}, skill : {activeSkill, k}, trial : {trialId, c},
                 session : {SeenSession, d}, instance : {instance}]
           Is(x, s, b, t, e) == /\ x \in R /\ x.state = s /\ x.skill = b /\ x.trial = t
                                /\ x.session = e /\ x.instance = instance
<1>1. Is(Served, ServedState, activeSkill, trialId, SeenSession)
  BY DEF Served, SeenSession
<1>2. ASSUME NEW x \in R PROVE x = Seen(x.state, x.skill, x.trial, x.session)
  BY DEF Seen
<1>3. Is(WithState(a, d), a, activeSkill, trialId, d)
  BY <1>1 DEF WithState
<1>4. Is(WithPolicy(a, k, d), a, k, trialId, d)
  BY <1>1 DEF WithPolicy
<1>5. Is(WithTrial(c), ServedState, activeSkill, c, SeenSession)
  BY <1>1 DEF WithTrial
<1>6. Is(WithSession(d), ServedState, activeSkill, trialId, d)
  BY <1>1 DEF WithSession
<1>7. Is(WithNeither(c, d), ServedState, activeSkill, c, d)
  BY <1>1 DEF WithNeither
<1>8. Is(WithClosed(a, c, d), a, activeSkill, c, d)
  BY <1>1 DEF WithClosed
<1> HIDE DEF R
<1>9. QED BY <1>1, <1>2, <1>3, <1>4, <1>5, <1>6, <1>7, <1>8

\* The next view, when it is one of the same process.
LEMMA NextSeen ==
  ASSUME instance' = instance
  PROVE  Served' = Seen(ServedState', activeSkill', trialId', SeenSession')
  BY DEF Served, Seen, SeenSession

\* READY only after a policy was published, STARTING only before.
LEMMA GenerationKnownStep ==
  ASSUME IInv, GenerationKnown, [Next]_vars
  PROVE  GenerationKnown'
<1> USE DEF GenerationKnown
<1>0. generation \in Nat
  BY DEF IInv, RuntimeTypeOK, Generations
<1>1. CASE LoopStep
  BY <1>0, <1>1 DEF LoopStep, PrepareLocks, PrepareLockTimeout, PrepareFails, PrepareReturns,
     PublishSkill, BeginTrialLocks, BeginTrialLockTimeout, BeginTrialRejected,
     BeginTrialSucceeds, BeginTrialAuditFails, BeginTrialPolicyFails, BeginTrialReturns,
     AbortLocks, AbortLockTimeout, AbortSucceeds, AbortAuditFails, AbortReturns
<1>2. CASE Command
  BY <1>2 DEF Command, PrepareSkill, BeginTrial, OpenSession, CloseSession, EndTrial,
     EndTrialAuditFails, Abort
<1>3. ASSUME NEW w \in Workers, Request(w) \/ WorkerStep(w) \/ Send(w)
      PROVE  GenerationKnown'
  BY <1>3 DEF Request, WorkerStep, InferLocks, InferLockTimeout, Expire, Validate, Reject,
     Record, InferFails, Confirm, LeaseLost, Leave, Send, Deliver, SendFails,
     SendFailsAmbiguous, Settle
<1>4. CASE Stop \/ Close \/ Restart \/ UNCHANGED vars
  BY <1>4 DEF Stop, Close, Restart, vars
<1>5. QED BY <1>1, <1>2, <1>3, <1>4 DEF Next

\* What a handler that fails looks like to the client.
LEMMA FailureShown ==
  ASSUME IInv, FailKeepingTrial, state # "STOPPING", UNCHANGED <<opened, instance>>,
         ServedTrials' = ServedTrials
  PROVE  Service!Fail
<1>1. ServedState # "STOPPING" /\ ServedState' = "FAILED"
  BY DEF IInv, TrialDiscipline, RuntimeTypeOK, Generations, ServedState
<1>2. SeenSession' = NoSession
  BY DEF SeenSession
<1>3. Served' = WithState("FAILED", NoSession)
  BY <1>1, <1>2, NextSeen, ServedFields
<1>4. Served.state # "STOPPING"
  BY <1>1 DEF Served
<1>5. QED BY <1>3, <1>4 DEF WithState, Service!Fail, Service!Failed, Service!Running

\* A step that leaves all this alone is invisible to the client.
LEMMA Invisible ==
  ASSUME UNCHANGED <<serviceVars, auditVars, opened, instance>>
  PROVE  UNCHANGED Service!serviceState
<1>1. Served' = Served
  BY DEF Served, ServedState
<1>2. QED BY <1>1, NoCallShown DEF Service!serviceState

ServiceStep == Service!ServiceNext \/ UNCHANGED Service!serviceState

\* prepare_skill shows when the policy is published, or fails.
LEMMA PrepareShown ==
  ASSUME IInv, GenerationKnown,
         \/ \E k \in Skills : PrepareSkill(k)
         \/ PrepareLocks
         \/ PrepareLockTimeout
         \/ PrepareFails
         \/ PrepareReturns
         \/ PublishSkill
  PROVE  ServiceStep
<1>0. generation \in Nat
  BY DEF IInv, RuntimeTypeOK, Generations
<1>1. ASSUME NEW k \in Skills, PrepareSkill(k)
      PROVE  UNCHANGED Service!serviceState
  <2>1. session = NoSession
    BY <1>1 DEF PrepareSkill, CanPrepare, IInv, SessionBound, RuntimeTypeOK, Lease
  <2>2. ServedState' = ServedState
    <3>1. /\ state \in {"STARTING", "READY"} /\ state' = "LOADING"
          /\ generation' = generation
      BY <1>1 DEF PrepareSkill, CanPrepare
    <3>2. QED BY <1>0, <3>1 DEF GenerationKnown, ServedState
  <2>3. Served' = Served
    BY <1>1, <2>1, <2>2 DEF PrepareSkill, Served
  <2>4. QED BY <1>1, <2>3, NoCallShown DEF PrepareSkill, Service!serviceState
<1>2. CASE PrepareLocks \/ PrepareReturns
  BY <1>2, Invisible DEF PrepareLocks, PrepareReturns, ServiceStep
<1>3. CASE PrepareLockTimeout \/ PrepareFails
  <2>1. state # "STOPPING"
    BY <1>3 DEF PrepareLockTimeout, PrepareFails, IInv, LoopDiscipline
  <2>2. FailKeepingTrial /\ UNCHANGED <<opened, instance>> /\ ServedTrials' = ServedTrials
    BY <1>3, NoCallShown DEF PrepareLockTimeout, PrepareFails
  <2>3. Service!Fail
    BY <2>1, <2>2, FailureShown
  <2>4. QED BY <2>3 DEF ServiceStep, Service!ServiceNext, Service!Misfortune
<1>4. CASE PublishSkill
  <2>1. /\ state = "LOADING" /\ trialId = NoTrial /\ session = NoSession
        /\ loop.skill \in Skills
    BY <1>4 DEF PublishSkill, IInv, LoopDiscipline, Preparing, TrialDiscipline, SessionBound
  <2>2. ServedState \in {"STARTING", "READY"} /\ ServedState' = "READY"
    BY <1>0, <1>4, <2>1 DEF PublishSkill, ServedState
  <2>3. Served' = WithPolicy("READY", loop.skill, NoSession)
    BY <1>4, <2>1, <2>2, NextSeen, ServedFields DEF PublishSkill, SeenSession
  <2>4. Served.state \in {"STARTING", "READY"} /\ Served.trial = NoTrial
    BY <2>1, <2>2 DEF Served
  <2>5. UNCHANGED <<opened, ServedTrials>>
    BY <1>4, NoCallShown DEF PublishSkill
  <2>6. Service!PrepareSkill(loop.skill)
    BY <2>3, <2>4, <2>5 DEF WithPolicy, Service!PrepareSkill, Service!HasTrial
  <2>7. QED BY <2>1, <2>6 DEF ServiceStep, Service!ServiceNext
<1>5. QED BY <1>1, <1>2, <1>3, <1>4 DEF ServiceStep

\* begin_trial shows when the store has a directory for the trial.
LEMMA BeginTrialShown ==
  ASSUME IInv, LedgerIInv, FiledUnderTrial,
         \/ \E t \in Trials : BeginTrial(t)
         \/ BeginTrialLocks
         \/ BeginTrialLockTimeout
         \/ BeginTrialRejected
         \/ BeginTrialSucceeds
         \/ BeginTrialAuditFails
         \/ BeginTrialPolicyFails
  PROVE  ServiceStep
<1>1. CASE (\E t \in Trials : BeginTrial(t)) \/ BeginTrialLocks \/ BeginTrialLockTimeout
           \/ BeginTrialRejected
  <2>1. UNCHANGED <<serviceVars, auditVars, opened, instance>>
    BY <1>1 DEF BeginTrial, BeginTrialLocks, BeginTrialLockTimeout, BeginTrialRejected,
       BeginTrialReturns
  <2>2. QED BY <2>1, Invisible DEF ServiceStep
<1>2. CASE BeginTrialPolicyFails
  <2>1. state # "STOPPING"
    BY <1>2 DEF BeginTrialPolicyFails, CanBeginTrial
  <2>2. FailKeepingTrial /\ UNCHANGED <<opened, instance>> /\ ServedTrials' = ServedTrials
    BY <1>2, NoCallShown DEF BeginTrialPolicyFails, BeginTrialReturns
  <2>3. Service!Fail
    BY <2>1, <2>2, FailureShown
  <2>4. QED BY <2>3 DEF ServiceStep, Service!ServiceNext, Service!Misfortune
<1>3. ASSUME BeginTrialSucceeds \/ BeginTrialAuditFails
      PROVE  /\ loop.trial \in Trials /\ activeSkill \in Skills /\ generation \in Generations
             /\ Served.state = "READY" /\ Served.trial = NoTrial
             /\ Served.skill = activeSkill /\ Served.skill # NoSkill
             /\ UNCHANGED <<opened, instance, state, activeSkill, generation, session>>
             /\ ServedState' = ServedState /\ SeenSession' = SeenSession
  <2>1. /\ At("begin") /\ CanBeginTrial
        /\ UNCHANGED <<opened, instance, state, activeSkill, generation, session>>
    BY <1>3 DEF BeginTrialSucceeds, BeginTrialAuditFails, BeginTrialReturns
  <2>2. loop.trial \in Trials /\ activeSkill \in Skills /\ generation \in Generations
    BY <2>1 DEF IInv, LoopDiscipline, CanBeginTrial, RuntimeTypeOK
  <2>3. /\ Served.state = "READY" /\ Served.trial = NoTrial
        /\ Served.skill = activeSkill /\ Served.skill # NoSkill
    BY <2>1, <2>2 DEF CanBeginTrial, Served, ServedState
  <2>4. ServedState' = ServedState /\ SeenSession' = SeenSession
    BY <2>1 DEF ServedState, SeenSession
  <2>5. QED BY <2>1, <2>2, <2>3, <2>4
<1>4. CASE BeginTrialSucceeds
  <2>1. PICK t \in Trials : t = loop.trial
    BY <1>3, <1>4
  <2>2. AuditBegin(t, activeSkill, generation) /\ trialId' = t
    BY <1>4, <2>1 DEF BeginTrialSucceeds
  <2>3. ServedTrials[t].verdict = "unused" /\ ServedTrials' = WithDirectory(t, "open", activeSkill)
    BY <1>3, <1>4, <2>2, BeginShown
  <2>4. Served' = WithTrial(t)
    BY <1>3, <1>4, <2>2, NextSeen, ServedFields
  <2>5. Service!BeginTrial(t)
    BY <1>3, <1>4, <2>3, <2>4 DEF WithDirectory, WithTrial, Service!BeginTrial,
       Service!CanBegin, Service!Serving, Service!HasTrial
  <2>6. QED BY <2>5 DEF ServiceStep, Service!ServiceNext
<1>5. CASE BeginTrialAuditFails
  <2>1. PICK t \in Trials : t = loop.trial
    BY <1>3, <1>5
  <2>2. AuditBeginFails(t, activeSkill, generation) /\ trialId' = trialId
    BY <1>5, <2>1 DEF BeginTrialAuditFails
  <2>3. Served' = Served
    BY <1>3, <1>5, <2>2, NextSeen, ServedFields
  <2>4. CASE ServedTrials' = ServedTrials
    BY <1>3, <1>5, <2>3, <2>4 DEF ServiceStep, Service!serviceState
  <2>5. ASSUME NEW j \in {NoSkill, activeSkill}, ServedTrials[t].verdict = "unused",
               ServedTrials' = WithDirectory(t, "unfinished", j)
        PROVE  Service!BeginTrialFails(t)
    BY <1>3, <1>5, <2>3, <2>5 DEF WithDirectory, Service!BeginTrialFails, Service!CanBegin,
       Service!Serving, Service!HasTrial
  <2>6. QED
    BY <1>3, <1>5, <2>2, <2>4, <2>5, BeginFailureShown DEF ServiceStep, Service!ServiceNext
<1>6. QED BY <1>1, <1>2, <1>4, <1>5

\* open_session, close_session and end_trial are the client's own commands.
LEMMA SessionShown ==
  ASSUME IInv, LedgerIInv,
         \/ \E s \in Sessions : OpenSession(s)
         \/ CloseSession
         \/ EndTrial
         \/ EndTrialAuditFails
  PROVE  ServiceStep
<1>0. At("idle") => state # "STOPPING" /\ Served.state # "STOPPING"
  BY DEF IInv, LoopDiscipline, Preparing, TrialDiscipline, Served, ServedState
<1>1. ASSUME NEW s \in Sessions, OpenSession(s)
      PROVE  Service!OpenSession(s)
  <2>1. /\ Served.state = "READY" /\ Served.trial # NoTrial /\ Served.session = NoSession
        /\ s \notin opened /\ opened' = opened \cup {s}
        /\ UNCHANGED <<state, activeSkill, generation, trialId, instance>>
    BY <1>1 DEF OpenSession, Served, ServedState
  <2>2. SeenSession' = s
    BY <1>1 DEF OpenSession, SeenSession, IInv, RuntimeTypeOK, Lease
  <2>3. ServedState' = ServedState
    BY <2>1 DEF ServedState
  <2>4. Served' = WithSession(s)
    BY <2>1, <2>2, <2>3, NextSeen, ServedFields
  <2>5. ServedTrials' = ServedTrials
    BY <1>1, NoCallShown DEF OpenSession
  <2>6. QED
    BY <2>1, <2>4, <2>5 DEF WithSession, Service!OpenSession, Service!Serving,
       Service!HasTrial, Service!HasSession
<1>2. ASSUME CloseSession
      PROVE  Service!CloseSession(session.session) /\ session.session \in Sessions
  <2>1. session \in Lease /\ session # NoSession /\ session' = NoSession
    BY <1>2 DEF CloseSession, CanCloseSession, IInv, RuntimeTypeOK
  <2>2. session.session \in Sessions /\ Served.session = session.session
    BY <2>1 DEF Lease, Served
  <2>3. /\ UNCHANGED <<opened, instance, activeSkill, trialId>>
        /\ ServedState' = ServedState /\ SeenSession' = NoSession
    BY <1>2 DEF CloseSession, ServedState, SeenSession
  <2>4. Served' = WithSession(NoSession)
    BY <2>3, NextSeen, ServedFields
  <2>5. ServedTrials' = ServedTrials
    BY <1>2, NoCallShown DEF CloseSession
  <2>6. QED BY <2>2, <2>3, <2>4, <2>5 DEF WithSession, Service!CloseSession
<1>3. ASSUME EndTrial
      PROVE  Service!EndTrial
  <2>1. /\ Served.trial = active /\ active # NoTrial /\ Served.session = NoSession
        /\ session = NoSession
    BY <1>3 DEF EndTrial, CanEndTrial, Served, IInv, TrialAuditCoupled
  <2>2. /\ UNCHANGED <<opened, instance, activeSkill>> /\ trialId' = NoTrial
        /\ ServedState' = ServedState /\ SeenSession' = SeenSession
    BY <1>3 DEF EndTrial, ServedState, SeenSession
  <2>3. Served' = WithTrial(NoTrial)
    BY <2>2, NextSeen, ServedFields
  <2>4. ServedTrials' = WithVerdict(active, "COMMITTED")
    BY <1>3, <2>1, VerdictShown DEF EndTrial
  <2>5. Served.state # "STOPPING"
    BY <1>0, <1>3 DEF EndTrial
  <2>6. QED
    BY <2>1, <2>2, <2>3, <2>4, <2>5 DEF WithTrial, WithVerdict, Service!EndTrial,
       Service!Running, Service!HasTrial, Service!HasSession, Service!Judge
<1>4. ASSUME EndTrialAuditFails
      PROVE  Service!Fail
  <2>1. FailKeepingTrial /\ UNCHANGED <<opened, instance>> /\ ServedTrials' = ServedTrials
    BY <1>4, FailedCloseShown DEF EndTrialAuditFails
  <2>2. state # "STOPPING"
    BY <1>0, <1>4 DEF EndTrialAuditFails
  <2>3. QED BY <2>1, <2>2, FailureShown
<1>5. QED
  BY <1>1, <1>2, <1>3, <1>4 DEF ServiceStep, Service!ServiceNext, Service!Misfortune

\* abort shows when it has closed the trial, or failed to.
LEMMA AbortShown ==
  ASSUME IInv, LedgerIInv,
         \/ Abort
         \/ AbortLocks
         \/ AbortLockTimeout
         \/ AbortSucceeds
         \/ AbortAuditFails
  PROVE  ServiceStep
<1>0. loop.step \in {"abort-lock", "abort"} => state # "STOPPING" /\ Served.state # "STOPPING"
  BY DEF IInv, LoopDiscipline, Preparing, TrialDiscipline, Served, ServedState
<1>1. CASE Abort \/ AbortLocks
  BY <1>1, Invisible DEF Abort, AbortLocks, ServiceStep
<1>2. CASE AbortLockTimeout \/ AbortAuditFails
  <2>1. FailKeepingTrial /\ UNCHANGED <<opened, instance>> /\ ServedTrials' = ServedTrials
    BY <1>2, FailedCloseShown, NoCallShown DEF AbortLockTimeout, AbortAuditFails, AbortReturns
  <2>2. state # "STOPPING"
    BY <1>0, <1>2 DEF AbortLockTimeout, AbortAuditFails, AbortReturns
  <2>3. Service!Fail
    BY <2>1, <2>2, FailureShown
  <2>4. QED BY <2>3 DEF ServiceStep, Service!ServiceNext, Service!Misfortune
<1>3. CASE AbortSucceeds
  <2>1. /\ UNCHANGED <<opened, instance, activeSkill>> /\ trialId' = NoTrial
        /\ ServedState' = ServedState /\ SeenSession' = NoSession
    BY <1>3 DEF AbortSucceeds, AbortReturns, ServedState, SeenSession
  <2>2. Served' = WithNeither(NoTrial, NoSession)
    BY <2>1, NextSeen, ServedFields
  <2>3. Served.trial = active /\ Served.state # "STOPPING"
    BY <1>0, <1>3 DEF Served, AbortSucceeds, AbortReturns, IInv, TrialAuditCoupled
  <2>4. active # NoTrial => ServedTrials' = WithVerdict(active, "ABORTED")
    BY <1>3, VerdictShown DEF AbortSucceeds
  <2>5. active = NoTrial => ServedTrials' = ServedTrials
    BY <1>3, NoCallShown DEF AbortSucceeds
  <2>6. Service!Abort
    BY <2>1, <2>2, <2>3, <2>4, <2>5 DEF WithNeither, WithVerdict, Service!Abort,
       Service!Running, Service!HasTrial, Service!Judge
  <2>7. QED BY <2>6 DEF ServiceStep, Service!ServiceNext
<1>4. QED BY <1>1, <1>2, <1>3

\* infer shows when its line is written, when it fails, and when it finds the
\* session expired.
LEMMA InferShown ==
  ASSUME IInv, LedgerIInv, AdmittedForTrial, NEW w \in Workers,
         \/ Request(w)
         \/ InferLockTimeout(w)
         \/ InferLocks(w)
         \/ \E r \in Identity : Validate(w, r)
         \/ \E r \in Identity : Reject(w, r)
         \/ Expire(w)
         \/ Record(w)
         \/ InferFails(w)
         \/ Confirm(w)
         \/ LeaseLost(w)
         \/ Leave(w)
  PROVE  ServiceStep
<1>0. pc[w] \in InCriticalSection => state \in {"READY", "FAILED"}
  BY DEF IInv, LeaseDiscipline
<1>1. CASE Request(w) \/ InferLockTimeout(w) \/ InferLocks(w) \/ Leave(w)
           \/ \E r \in Identity : Validate(w, r) \/ Reject(w, r)
  <2>1. UNCHANGED <<serviceVars, auditVars, opened, instance>>
    BY <1>1 DEF Request, InferLockTimeout, InferLocks, Leave, Validate, Reject
  <2>2. QED BY <2>1, Invisible DEF ServiceStep
<1>2. CASE Expire(w)
  <2>1. session \in Lease /\ session # NoSession
    BY <1>2 DEF Expire, IInv, RuntimeTypeOK
  <2>2. Served.session # NoSession
    BY <2>1 DEF Served, Lease
  <2>3. /\ UNCHANGED <<opened, instance, activeSkill, trialId>>
        /\ ServedState' = ServedState /\ SeenSession' = NoSession
    BY <1>2 DEF Expire, ServedState, SeenSession
  <2>4. Served' = WithSession(NoSession)
    BY <2>3, NextSeen, ServedFields
  <2>5. ServedTrials' = ServedTrials
    BY <1>2, NoCallShown DEF Expire
  <2>6. Service!Expire
    BY <2>2, <2>3, <2>4, <2>5 DEF WithSession, Service!Expire, Service!HasSession
  <2>7. QED BY <2>6 DEF ServiceStep, Service!ServiceNext, Service!Misfortune
<1>3. ASSUME pc[w] = "policy", active # NoTrial, active' = active, UNCHANGED opened,
             disk' = [disk EXCEPT ![active] = Appended(lease[w])]
      PROVE  /\ lease[w].session \in Sessions /\ active \in Trials
             /\ Service!Admitted(lease[w].session, active)
             /\ Service!Recorded(active)
  <2>1. /\ lease[w] \in Identity /\ active = lease[w].trial /\ lease[w].session \in opened
    BY <1>3, WriterOfTrial
  <2>2. PICK t \in Trials : t = active
    BY <2>1 DEF Identity
  <2>3. ServedTrials' = WithLine(t)
    BY <1>3, <2>1, <2>2, RecordShown
  <2>4. Served.trial = active /\ Served.trial # NoTrial
    BY <1>3 DEF Served, IInv, TrialAuditCoupled
  <2>5. Served.session = lease[w].session \/ Served.state = "FAILED"
    <3>1. CASE state = "FAILED"
      BY <3>1 DEF Served, ServedState
    <3>2. CASE state = "READY"
      <4>1. session = lease[w] /\ lease[w] \in Lease
        BY <1>3, <2>1, <3>2, IdentityIsLease DEF IInv, LeaseDiscipline
      <4>2. session # NoSession
        BY <4>1
      <4>3. QED BY <4>1, <4>2 DEF Served
    <3>3. QED BY <1>0, <1>3, <3>1, <3>2 DEF InCriticalSection
  <2>6. Service!Admitted(lease[w].session, active)
    BY <2>1, <2>4, <2>5 DEF Service!Admitted, Service!HasTrial
  <2>7. Service!Recorded(active)
    BY <2>2, <2>3 DEF WithLine, Service!Recorded
  <2>8. QED BY <2>1, <2>2, <2>6, <2>7 DEF Identity
<1>4. CASE Record(w)
  <2>1. /\ pc[w] = "policy" /\ active # NoTrial /\ active' = active
        /\ UNCHANGED <<opened, instance, serviceVars>>
        /\ disk' = [disk EXCEPT ![active] = Appended(lease[w])]
    BY <1>4 DEF Record, AuditRecord, Write
  <2>2. Served' = Served
    BY <2>1 DEF Served, ServedState
  <2>3. Service!Infer(lease[w].session, active)
    BY <1>3, <2>1, <2>2 DEF Service!Infer
  <2>4. QED BY <1>3, <2>1, <2>3 DEF ServiceStep, Service!ServiceNext
<1>5. CASE (InferFails(w) /\ UNCHANGED disk) \/ LeaseLost(w)
  <2>1. FailKeepingTrial /\ UNCHANGED <<opened, instance>> /\ UNCHANGED <<active, disk>>
    BY <1>5 DEF InferFails, AuditRecordFails, LeaseLost
  <2>2. ServedTrials' = ServedTrials
    BY <2>1 DEF ServedTrials, VerdictOf
  <2>3. state # "STOPPING"
    BY <1>0, <1>5 DEF InferFails, LeaseLost, InCriticalSection
  <2>4. Service!Fail
    BY <2>1, <2>2, <2>3, FailureShown
  <2>5. QED BY <2>4 DEF ServiceStep, Service!ServiceNext, Service!Misfortune
<1>6. CASE InferFails(w) /\ ~UNCHANGED disk
  <2>1. /\ pc[w] = "policy" /\ active # NoTrial /\ active' = active
        /\ UNCHANGED <<opened, instance>> /\ FailKeepingTrial
        /\ disk' = [disk EXCEPT ![active] = Appended(lease[w])]
    BY <1>6 DEF InferFails, AuditRecordFails, Write
  <2>2. ServedState' = "FAILED" /\ SeenSession' = NoSession
    BY <1>0, <2>1 DEF InCriticalSection, ServedState, SeenSession
  <2>3. Served' = WithState("FAILED", NoSession)
    BY <2>1, <2>2, NextSeen, ServedFields
  <2>4. Service!InferFails(lease[w].session, active)
    BY <1>3, <2>1, <2>3 DEF WithState, Service!InferFails, Service!Failed
  <2>5. QED BY <1>3, <2>1, <2>4 DEF ServiceStep, Service!ServiceNext
<1>7. CASE Confirm(w)
  <2>1. /\ session # NoSession /\ session' = [session EXCEPT !.sequence = @ + 1]
        /\ UNCHANGED <<state, activeSkill, generation, trialId, opened, instance>>
    BY <1>7 DEF Confirm
  <2>2. session \in Lease
    BY <2>1 DEF IInv, RuntimeTypeOK
  <2>3. session' # NoSession
    <3>1. state = "READY" /\ session = lease[w] /\ lease[w] \in Identity
      BY <1>7, <2>1 DEF Confirm, IInv, SessionBound, LeaseDiscipline, InCriticalSection
    <3>2. session' \in Lease
      BY <2>1, <2>2, <3>1 DEF Identity, Lease
    <3>3. QED BY <3>2
  <2>4. SeenSession' = SeenSession
    BY <2>1, <2>2, <2>3 DEF SeenSession, Lease
  <2>5. Served' = Served
    BY <2>1, <2>4, NextSeen, ServedFields DEF ServedState
  <2>6. QED BY <1>7, <2>1, <2>5, NoCallShown DEF Confirm, ServiceStep, Service!serviceState
<1>8. QED BY <1>1, <1>2, <1>4, <1>5, <1>6, <1>7

\* Sending shows only when it fails under a live session.
LEMMA SendShown ==
  ASSUME IInv, LedgerIInv, NEW w \in Workers,
         Deliver(w) \/ SendFails(w) \/ SendFailsAmbiguous(w)
  PROVE  ServiceStep
<1>1. CASE Deliver(w) \/ SendFails(w)
  BY <1>1, Invisible DEF Deliver, SendFails, Settle, ServiceStep
<1>2. CASE SendFailsAmbiguous(w)
  <2>1. /\ session # NoSession /\ session \in Lease /\ state = "READY"
        /\ UNCHANGED <<opened, instance, activeSkill>> /\ Fail
    BY <1>2 DEF SendFailsAmbiguous, Settle, IInv, SessionBound, RuntimeTypeOK
  <2>2. CASE AuditTerminateFails("AMBIGUOUS_INFERENCE") /\ UNCHANGED trialId
    <3>1. ServedTrials' = ServedTrials
      BY <2>2, FailedCloseShown
    <3>2. Service!Fail
      BY <2>1, <2>2, <3>1, FailureShown
    <3>3. QED BY <3>2 DEF ServiceStep, Service!ServiceNext, Service!Misfortune
  <2>3. CASE AuditTerminate("AMBIGUOUS_INFERENCE") /\ trialId' = NoTrial
    <3>1. /\ Served.session # NoSession /\ Served.trial = active /\ active # NoTrial
      BY <2>1, <2>3 DEF Served, Lease, IInv, TrialAuditCoupled, AuditTerminate
    <3>2. ServedTrials' = WithVerdict(active, "AMBIGUOUS_INFERENCE")
      BY <2>3, <3>1, VerdictShown
    <3>3. ServedState' = "FAILED" /\ SeenSession' = NoSession
      BY <2>1 DEF ServedState, SeenSession
    <3>4. Served' = WithClosed("FAILED", NoTrial, NoSession)
      BY <2>1, <2>3, <3>3, NextSeen, ServedFields
    <3>5. WithClosed("FAILED", NoTrial, NoSession) =
             [[Served EXCEPT !.state = "FAILED", !.session = NoSession]
                EXCEPT !.trial = NoTrial]
      BY DEF WithClosed, Served
    <3>6. Service!Ambiguous
      BY <2>1, <3>1, <3>2, <3>4, <3>5 DEF WithVerdict, Service!Ambiguous,
         Service!HasSession, Service!HasTrial, Service!Failed, Service!Judge
    <3>7. QED BY <3>6 DEF ServiceStep, Service!ServiceNext, Service!Misfortune
  <2>4. QED BY <1>2, <2>2, <2>3 DEF SendFailsAmbiguous
<1>3. QED BY <1>1, <1>2

\* The process stops, or another one takes its place.
LEMMA ProcessShown ==
  ASSUME IInv, LedgerIInv, Stop \/ Close \/ Restart
  PROVE  ServiceStep
<1>1. CASE Stop
  BY <1>1, Invisible DEF Stop, ServiceStep
<1>2. CASE Close
  <2>1. /\ UNCHANGED <<opened, instance, activeSkill>>
        /\ ServedState' = "STOPPING" /\ SeenSession' = NoSession
    BY <1>2 DEF Close, ServedState, SeenSession
  <2>2. Served.state # "STOPPING" /\ Served.trial = active
    BY <1>2 DEF Close, IInv, LoopDiscipline, Preparing, TrialDiscipline, TrialAuditCoupled,
       Served, ServedState
  <2>3. CASE AuditTerminate("ABORTED") /\ trialId' = NoTrial
    <3>1. active # NoTrial
      BY <2>3 DEF AuditTerminate
    <3>2. ServedTrials' = WithVerdict(active, "ABORTED")
      BY <2>3, <3>1, VerdictShown
    <3>3. Served' = WithClosed("STOPPING", NoTrial, NoSession)
      BY <2>1, <2>3, NextSeen, ServedFields
    <3>4. QED
      BY <2>1, <2>2, <3>1, <3>2, <3>3 DEF WithVerdict, WithClosed, Service!Close,
         Service!Running, Service!HasTrial, Service!Judge, ServiceStep,
         Service!ServiceNext, Service!Misfortune
  <2>4. CASE UNCHANGED trialId /\ (Evidence \/ AuditTerminateFails("ABORTED"))
    <3>1. ServedTrials' = ServedTrials
      BY <2>4, NoCallShown, FailedCloseShown
    <3>2. Served' = WithState("STOPPING", NoSession)
      BY <2>1, <2>4, NextSeen, ServedFields
    <3>3. QED
      BY <2>1, <2>2, <3>1, <3>2 DEF WithState, Service!Close, Service!Running, ServiceStep,
         Service!ServiceNext, Service!Misfortune
  <2>5. QED BY <1>2, <2>3, <2>4 DEF Close
<1>3. CASE Restart
  <2>1. Served' = Service!Started(instance + 1) /\ UNCHANGED opened /\ AuditRestart
    BY <1>3 DEF Restart, Served, ServedState, Service!Started
  <2>2. Served.instance = instance /\ Served.trial = active
    BY DEF Served, IInv, TrialAuditCoupled
  <2>3. CASE active = NoTrial
    <3>1. ServedTrials' = ServedTrials
      BY <2>1, <2>3, NoCallShown DEF AuditRestart, ServedTrials, VerdictOf
    <3>2. Service!Restart
      BY <2>1, <2>2, <2>3, <3>1 DEF Service!Restart, Service!HasTrial
    <3>3. QED BY <3>2 DEF ServiceStep, Service!ServiceNext, Service!Misfortune
  <2>4. CASE active # NoTrial
    <3>1. PICK v \in {"COMMITTED", "ABORTED", "AMBIGUOUS_INFERENCE", "unfinished"} :
             ServedTrials' = WithVerdict(active, v)
      BY <2>1, <2>4, VerdictShown
    <3>2. Service!Judge(v)
      BY <2>2, <3>1 DEF WithVerdict, Service!Judge
    <3>3. Service!Restart
      BY <2>1, <2>2, <2>4, <3>1, <3>2 DEF Service!Restart, Service!HasTrial,
         Service!Verdicts
    <3>4. QED BY <3>3 DEF ServiceStep, Service!ServiceNext, Service!Misfortune
  <2>5. QED BY <2>3, <2>4
<1>4. QED BY <1>1, <1>2, <1>3

\* Every step of the server is a step its client may see, or none.
LEMMA StepShown ==
  ASSUME IInv, LedgerIInv, FiledUnderTrial, AdmittedForTrial, GenerationKnown, [Next]_vars
  PROVE  [Service!ServiceNext]_(Service!serviceState)
<1> SUFFICES ServiceStep
  BY DEF ServiceStep
<1>1. CASE LoopStep
  BY <1>1, PrepareShown, BeginTrialShown, AbortShown DEF LoopStep
<1>2. CASE Command
  BY <1>2, PrepareShown, BeginTrialShown, SessionShown, AbortShown DEF Command
<1>3. ASSUME NEW w \in Workers, Request(w) \/ WorkerStep(w)
      PROVE  ServiceStep
  BY <1>3, InferShown DEF WorkerStep
<1>4. ASSUME NEW w \in Workers, Send(w)
      PROVE  ServiceStep
  BY <1>4, SendShown DEF Send
<1>5. CASE Stop \/ Close \/ Restart
  BY <1>5, ProcessShown
<1>6. CASE UNCHANGED vars
  BY <1>6, Invisible DEF vars, ServiceStep
<1>7. QED BY <1>1, <1>2, <1>3, <1>4, <1>5, <1>6 DEF Next

\* With all its threads, locks, timeouts, failing writes and restarts the
\* server looks to its client like one that executes a command at a time.
THEOREM ServerImplementsService == Spec => ImplementsService
<1>1. Init => GenerationKnown /\ Service!ServiceInit
  <2> SUFFICES ASSUME Init PROVE GenerationKnown /\ Service!ServiceInit
    OBVIOUS
  <2>1. GenerationKnown /\ opened = {}
    BY DEF Init, GenerationKnown
  <2>2. Served = Service!Started(1)
    BY DEF Init, Served, ServedState, Service!Started
  <2>3. ASSUME NEW t \in Trials
        PROVE  VerdictOf(t) = "unused" /\ disk[t].skill = NoSkill /\ Len(disk[t].rows) = 0
    BY DEF Init, AuditInit, NoDirectory, VerdictOf
  <2>4. ServedTrials =
           [t \in Trials |-> [verdict |-> "unused", skill |-> NoSkill, recorded |-> 0]]
    BY <2>3 DEF ServedTrials
  <2>5. QED BY <2>1, <2>2, <2>4 DEF Service!ServiceInit
<1>2. IInv /\ GenerationKnown /\ [Next]_vars => GenerationKnown'
  BY GenerationKnownStep
<1>3. IInv /\ LedgerIInv /\ EvidenceIInv /\ GenerationKnown /\ [Next]_vars =>
         [Service!ServiceNext]_(Service!serviceState)
  BY StepShown DEF EvidenceIInv
<1>4. QED
  BY <1>1, <1>2, <1>3, EvidenceHolds, PTL DEF Spec, ImplementsService, Service!ServiceSpec
=============================================================================
