------------------------- MODULE PolicyBackendProofs -------------------------
(***************************************************************************)
(* The server with its backend implements the server without one, and     *)
(* every line it files is reproducible, for every set of workers, trials,  *)
(* sessions and skills and for every bound.                                *)
(***************************************************************************)
EXTENDS PolicyBackend, PolicyRuntimeProofs

USE TrialAuditAssumption, PolicyRuntimeAssumption, NoSessionAssumption, RootSeedAssumption

\* How actions are written.
USE DEF At, GoTo, Idle, Move, TakeLock, ReleaseLock, Contended,
        Fail, FailKeepingTrial, HoldsLease,
        Control, Calls, History, Evidence, Quiet, LoopFrame, BlockFrame,
        WorkerFrame, LoopLocks, serviceVars, auditVars, backendVars

\* The key that the next call of trial t is to be made with.
TrialKey(t) == [seed |-> RootSeed[t], split |-> Len(disk[t].rows)]

BackendTypeOK == /\ policy \in Skills \cup {NoSkill}
                 /\ rng \in [seed : Nat, split : Nat]

\* Nothing is on file of a trial that was never begun.
BegunFirst == /\ \A t \in Trials : disk[t].manifest = "ABSENT" => disk[t].rows = <<>>
              /\ active # NoTrial => disk[active].manifest # "ABSENT"

\* The policy and the key are those of what the runtime serves, or is about
\* to announce.
Serving == /\ loop.step = "publish" => policy = loop.skill
           /\ state = "READY" => policy = activeSkill
           /\ state = "READY" /\ trialId # NoTrial => rng = TrialKey(trialId)

\* A call in progress keeps them, though the service may have failed and its
\* trial may have been closed underneath.
Calling == \A w \in Workers : pc[w] = "policy" =>
              /\ active \in {lease[w].trial, NoTrial}
              /\ policy = lease[w].skill
              /\ rng = TrialKey(lease[w].trial)

\* The inductive invariant, on top of IInv.
BackedIInv == /\ BackendTypeOK
              /\ BegunFirst
              /\ Serving
              /\ Calling
              /\ LinesReproducible

-----------------------------------------------------------------------------
\* Every step of the composition is a step of the runtime.
LEMMA BackedStep == [BackedNext]_backedVars => [Next]_vars
  BY DEF BackedNext, CallsBackend, WithoutBackend, AroundInfer, Next, LoopStep, Command,
         WorkerStep, Send, backedVars

\* The backend adds no behaviour of the server: what is proved of
\* PolicyRuntime holds with every backend call in place.
THEOREM BackendImplementsRuntime == BackedSpec => Spec
  BY BackedStep, PTL DEF BackedSpec, BackedInit, Spec

\* A fresh process with a fresh backend satisfies the invariant.
LEMMA BackedInitIInv == Init /\ BackendInit => BackedIInv
<1> SUFFICES ASSUME Init, BackendInit PROVE BackedIInv
  OBVIOUS
<1>1. BackendTypeOK
  BY DEF BackendInit, BackendTypeOK, Key
<1>2. BegunFirst
  BY DEF Init, AuditInit, NoDirectory, BegunFirst
<1>3. Serving /\ Calling /\ LinesReproducible
  BY DEF Init, Serving, Calling, LinesReproducible
<1>4. QED BY <1>1, <1>2, <1>3 DEF BackedIInv

-----------------------------------------------------------------------------
\* What no call but record_request does: write to requests.jsonl.
RowsRetained == \A t \in Trials :
                /\ disk'[t].rows = disk[t].rows
                /\ disk'[t].manifest = "ABSENT" => disk[t].manifest = "ABSENT"

\* begin, end, abort and mark_ambiguous, failing or not, leave the lines of
\* every trial alone.
LEMMA AuditKeepsLines ==
  ASSUME AuditTypeOK,
         \/ \E t \in Trials, k \in Skills, g \in Generations :
               AuditBegin(t, k, g) \/ AuditBeginFails(t, k, g)
         \/ AuditEnd \/ AuditEndFails
         \/ \E status \in {"ABORTED", "AMBIGUOUS_INFERENCE"} :
               AuditTerminate(status) \/ AuditTerminateFails(status)
         \/ AuditRestart
         \/ UNCHANGED auditVars
  PROVE  RowsRetained
<1> USE DEF AuditTypeOK, RowsRetained
<1>1. ASSUME NEW t \in Trials, NEW dir,
             Write(t, dir), dir.rows = disk[t].rows,
             dir.manifest # "ABSENT" \/ dir.manifest = disk[t].manifest
      PROVE  RowsRetained
  BY <1>1 DEF Write
<1>2. ASSUME NEW t \in Trials, NEW k \in Skills, NEW g \in Generations,
             AuditBegin(t, k, g) \/ AuditBeginFails(t, k, g)
      PROVE  RowsRetained
  <2>1. disk[t] \in TrialDir
    OBVIOUS
  <2>2. Created(t, k, g).rows = disk[t].rows /\ Created(t, k, g).manifest = "ACTIVE"
    BY <2>1 DEF Created, TrialDir
  <2>3. LET dir == [disk[t] EXCEPT !.manifest = "EMPTY"]
        IN  dir.rows = disk[t].rows /\ dir.manifest = "EMPTY"
    BY <2>1 DEF TrialDir
  <2>4. QED BY <1>1, <1>2, <2>2, <2>3 DEF AuditBegin, AuditBeginFails
<1>3. CASE AuditEnd \/ AuditEndFails
  <2>1. active \in Trials /\ disk[active] \in TrialDir
    BY <1>3 DEF AuditEnd, AuditEndFails
  <2>2. /\ Summarised.rows = disk[active].rows /\ Summarised.manifest = disk[active].manifest
        /\ Committed.rows = disk[active].rows /\ Committed.manifest = "COMMITTED"
    BY <2>1 DEF Summarised, Committed, TrialDir
  <2>3. QED BY <1>1, <1>3, <2>1, <2>2 DEF AuditEnd, AuditEndFails
<1>4. ASSUME NEW status \in {"ABORTED", "AMBIGUOUS_INFERENCE"},
             AuditTerminate(status) \/ AuditTerminateFails(status)
      PROVE  RowsRetained
  <2>1. active \in Trials /\ disk[active] \in TrialDir
    BY <1>4 DEF AuditTerminate, AuditTerminateFails
  <2>2. Closed(status).rows = disk[active].rows /\ Closed(status).manifest = status
    BY <2>1 DEF Closed, TrialDir
  <2>3. QED BY <1>1, <1>4, <2>1, <2>2 DEF AuditTerminate, AuditTerminateFails
<1>5. CASE AuditRestart \/ UNCHANGED auditVars
  BY <1>5 DEF AuditRestart
<1>6. QED BY <1>2, <1>3, <1>4, <1>5

\* record_request appends to the open trial, if it does anything.
LEMMA AuditAppendsLine ==
  ASSUME AuditTypeOK, NEW row \in Identity, AuditRecord(row) \/ AuditRecordFails(row)
  PROVE  /\ active \in Trials
         /\ AuditRecord(row) => disk'[active].rows = Append(disk[active].rows, row)
         /\ \A t \in Trials : /\ disk'[t].manifest = disk[t].manifest
                              /\ t # active => disk'[t].rows = disk[t].rows
<1>1. active \in Trials /\ disk[active] \in TrialDir
  BY DEF AuditTypeOK, AuditRecord, AuditRecordFails
<1>2. /\ Appended(row).rows = Append(disk[active].rows, row)
      /\ Appended(row).manifest = disk[active].manifest
  BY <1>1 DEF Appended, TrialDir
<1>3. QED BY <1>1, <1>2 DEF AuditTypeOK, AuditRecord, AuditRecordFails, Write

-----------------------------------------------------------------------------
\* A step that calls neither the backend nor record_request, announces no
\* policy and admits no call keeps the invariant.
LEMMA Aside ==
  ASSUME IInv, BackedIInv, UNCHANGED backendVars, RowsRetained,
         active' \in {active, NoTrial},
         loop'.step = "publish" => UNCHANGED loop,
         state' = "READY" => /\ UNCHANGED <<state, activeSkill>>
                             /\ trialId' \in {trialId, NoTrial},
         \A w \in Workers : pc'[w] = "policy" => pc[w] = "policy" /\ lease'[w] = lease[w],
         \A w \in Workers : pc'[w] \in {"recorded", "answering"} =>
                               pc[w] \in {"recorded", "answering"} /\ lease'[w] = lease[w]
  PROVE  BackedIInv'
<1> USE DEF BackedIInv
<1>1. \A t \in Trials : TrialKey(t)' = TrialKey(t)
  BY DEF RowsRetained, TrialKey
<1>2. BackendTypeOK'
  BY DEF BackendTypeOK
<1>3. BegunFirst'
  BY DEF BegunFirst, RowsRetained, IInv, RuntimeTypeOK, AuditTypeOK
<1>4. Serving'
  BY <1>1 DEF Serving, IInv, RuntimeTypeOK
<1>5. \A w \in Workers : pc[w] \in InCriticalSection => lease[w].trial \in Trials
  BY DEF IInv, LeaseDiscipline, Identity
<1>6. Calling'
  BY <1>1, <1>5 DEF Calling, InCriticalSection
<1>7. LinesReproducible'
  <2> SUFFICES ASSUME NEW w \in Workers, pc'[w] \in {"recorded", "answering"}
               PROVE  drawn' = [skill |-> lease'[w].skill,
                                noise |-> [seed  |-> RootSeed[lease'[w].trial],
                                           split |-> Len(disk'[lease'[w].trial].rows) - 1]]
    BY DEF LinesReproducible
  <2>1. pc[w] \in {"recorded", "answering"} /\ lease'[w] = lease[w]
    OBVIOUS
  <2>2. disk'[lease[w].trial].rows = disk[lease[w].trial].rows
    BY <1>5, <2>1 DEF RowsRetained, InCriticalSection
  <2>3. QED BY <2>1, <2>2 DEF LinesReproducible
<1>8. QED BY <1>2, <1>3, <1>4, <1>6, <1>7

\* The steps without a backend call preserve the invariant.
LEMMA WithoutBackendStep ==
  ASSUME IInv, BackedIInv, UNCHANGED backendVars,
         WithoutBackend \/ \E w \in Workers : AroundInfer(w)
  PROVE  BackedIInv'
<1> USE DEF IInv, RuntimeTypeOK
<1>1. CASE \/ PrepareLocks \/ PrepareLockTimeout
           \/ BeginTrialLocks \/ BeginTrialLockTimeout \/ BeginTrialRejected
           \/ AbortLocks \/ AbortLockTimeout \/ Abort
           \/ \E t \in Trials : BeginTrial(t)
           \/ \E k \in Skills : PrepareSkill(k)
  <2> USE DEF PrepareLocks, PrepareLockTimeout, BeginTrialLocks, BeginTrialLockTimeout,
              BeginTrialRejected, BeginTrialReturns, AbortLocks, AbortLockTimeout, Abort,
              BeginTrial, PrepareSkill
  <2>1. RowsRetained
    BY <1>1, AuditKeepsLines
  <2>2. loop'.step # "publish"
    <3>1. CASE PrepareLocks \/ BeginTrialLocks \/ AbortLocks \/ Abort
      BY <3>1 DEF LoopState
    <3>2. CASE \/ \E t \in Trials : BeginTrial(t)
               \/ \E k \in Skills : PrepareSkill(k)
      BY <3>2
    <3>3. CASE \/ PrepareLockTimeout \/ BeginTrialLockTimeout \/ BeginTrialRejected
               \/ AbortLockTimeout
      BY <3>3
    <3>4. QED BY <1>1, <3>1, <3>2, <3>3
  <2>3. state' = "READY" => UNCHANGED <<state, activeSkill, trialId>>
    BY <1>1
  <2>4. UNCHANGED <<active, pc, lease>>
    BY <1>1
  <2>5. QED BY <2>1, <2>2, <2>3, <2>4, Aside
<1>8. CASE Stop \/ CloseSession \/ \E s \in Sessions : OpenSession(s)
  <2>1. RowsRetained
    BY <1>8, AuditKeepsLines DEF Stop, CloseSession, OpenSession
  <2>2. QED
    BY <1>8, <2>1, Aside DEF Stop, CloseSession, OpenSession
<1>2. CASE AbortSucceeds \/ AbortAuditFails \/ EndTrial \/ EndTrialAuditFails
  <2>1. RowsRetained
    BY <1>2, AuditKeepsLines
       DEF AbortSucceeds, AbortAuditFails, EndTrial, EndTrialAuditFails
  <2>2. QED
    BY <1>2, <2>1, Aside
       DEF AbortSucceeds, AbortAuditFails, AbortReturns, EndTrial, EndTrialAuditFails,
           AuditTerminate, AuditTerminateFails, AuditEnd, AuditEndFails, LoopState
<1>3. CASE PublishSkill
  <2>1. RowsRetained
    BY <1>3, AuditKeepsLines DEF PublishSkill
  <2>2. trialId = NoTrial /\ policy = loop.skill
    BY <1>3 DEF PublishSkill, BackedIInv, Serving, LoopDiscipline, TrialDiscipline, Preparing
  <2>3. BackendTypeOK' /\ BegunFirst'
    BY <1>3 DEF PublishSkill, BackedIInv, BackendTypeOK, BegunFirst
  <2>4. Serving'
    BY <1>3, <2>2 DEF PublishSkill, Serving
  <2>5. Calling' /\ LinesReproducible'
    BY <1>3 DEF PublishSkill, BackedIInv, Calling, LinesReproducible, TrialKey
  <2>6. QED BY <2>3, <2>4, <2>5 DEF BackedIInv
<1>4. ASSUME NEW w \in Workers,
             \/ Request(w) \/ InferLocks(w) \/ InferLockTimeout(w) \/ Expire(w)
             \/ \E r \in Identity : Reject(w, r)
             \/ Confirm(w) \/ LeaseLost(w) \/ Deliver(w) \/ SendFails(w)
      PROVE  BackedIInv'
  <2>1. RowsRetained
    BY <1>4, AuditKeepsLines
       DEF Request, InferLocks, InferLockTimeout, Expire, Reject, Confirm, LeaseLost,
           Deliver, SendFails
  <2>2. QED
    BY <1>4, <2>1, Aside
       DEF Request, InferLocks, InferLockTimeout, Expire, Reject, Confirm, LeaseLost,
           Deliver, SendFails, Settle
<1>5. ASSUME NEW w \in Workers, SendFailsAmbiguous(w)
      PROVE  BackedIInv'
  <2>1. RowsRetained
    BY <1>5, AuditKeepsLines DEF SendFailsAmbiguous
  <2>2. QED
    BY <1>5, <2>1, Aside
       DEF SendFailsAmbiguous, Settle, AuditTerminate, AuditTerminateFails
<1>6. ASSUME NEW w \in Workers, NEW r \in Identity, Validate(w, r)
      PROVE  BackedIInv'
  <2>1. /\ r.trial = trialId /\ r.trial \in Trials /\ trialId # NoTrial
        /\ r.skill = activeSkill /\ state = "READY"
    BY <1>6 DEF Validate, Admissible, Identity
  <2>2. BackendTypeOK' /\ BegunFirst' /\ Serving'
    BY <1>6 DEF Validate, BackedIInv, BackendTypeOK, BegunFirst, Serving, TrialKey
  <2>3. Calling'
    BY <1>6, <2>1 DEF Validate, BackedIInv, Serving, Calling, TrialAuditCoupled, TrialKey
  <2>4. LinesReproducible'
    BY <1>6 DEF Validate, BackedIInv, LinesReproducible
  <2>5. QED BY <2>2, <2>3, <2>4 DEF BackedIInv
<1>9. QED
  BY <1>1, <1>2, <1>3, <1>4, <1>5, <1>6, <1>8 DEF WithoutBackend, AroundInfer, Command, Send

\* The backend calls preserve the invariant: all but the last are made with
\* the execution lock in hand, so no other call is in progress.
LEMMA CallsBackendStep ==
  ASSUME IInv, BackedIInv, CallsBackend
  PROVE  BackedIInv'
<1> USE DEF IInv, RuntimeTypeOK
<1>1. CASE \/ PrepareReturns /\ BackendPrepare(loop.skill)
           \/ PrepareFails /\ BackendPrepareFails(loop.skill)
  <2> USE DEF PrepareReturns, PrepareFails, BackendPrepare, BackendPrepareFails
  <2>1. \A w \in Workers : pc[w] \notin InCriticalSection
    BY <1>1 DEF LockDiscipline
  <2>2. loop.skill \in Skills /\ state' # "READY"
    BY <1>1 DEF LoopDiscipline, Preparing
  <2>3. BackendTypeOK'
    BY <1>1, <2>2 DEF BackedIInv, BackendTypeOK, Key
  <2>4. BegunFirst'
    BY <1>1 DEF BackedIInv, BegunFirst
  <2>5. Serving'
    <3>1. CASE PrepareReturns /\ BackendPrepare(loop.skill)
      BY <2>2, <3>1 DEF Serving, LoopState
    <3>2. CASE PrepareFails
      BY <2>2, <3>2 DEF Serving
    <3>3. QED BY <1>1, <3>1, <3>2
  <2>6. Calling' /\ LinesReproducible'
    BY <1>1, <2>1 DEF Calling, LinesReproducible, InCriticalSection
  <2>7. QED BY <2>3, <2>4, <2>5, <2>6 DEF BackedIInv
<1>2. CASE /\ BeginTrialReturns /\ CanBeginTrial
           /\ BeginTrialSucceeds \/ BeginTrialAuditFails \/ BeginTrialPolicyFails
           /\ ResetPrng(RootSeed[loop.trial]) \/ (BeginTrialPolicyFails /\ UNCHANGED backendVars)
  <2> USE DEF BeginTrialReturns, ResetPrng, CanBeginTrial
  <2>1. \A w \in Workers : pc[w] \notin InCriticalSection
    BY <1>2 DEF LockDiscipline
  <2>2. loop.trial \in Trials /\ RootSeed[loop.trial] \in Nat /\ activeSkill \in Skills
    BY <1>2 DEF LoopDiscipline
  <2>3. RowsRetained
    BY <1>2, <2>2, AuditKeepsLines
       DEF BeginTrialSucceeds, BeginTrialAuditFails, BeginTrialPolicyFails
  <2>4. BackendTypeOK'
    BY <1>2, <2>2 DEF BackedIInv, BackendTypeOK, Key
  <2>5. active' # NoTrial => disk'[active'].manifest # "ABSENT"
    <3>1. CASE BeginTrialSucceeds
      <4>1. disk' = [disk EXCEPT ![loop.trial] = Created(loop.trial, activeSkill, generation)]
            /\ active' = loop.trial
        BY <3>1 DEF BeginTrialSucceeds, AuditBegin, Write
      <4>2. Created(loop.trial, activeSkill, generation).manifest = "ACTIVE"
        BY <2>2 DEF Created, AuditTypeOK, TrialDir
      <4>3. QED BY <2>2, <4>1, <4>2 DEF AuditTypeOK
    <3>2. CASE BeginTrialAuditFails
      BY <3>2 DEF BeginTrialAuditFails, AuditBeginFails
    <3>3. CASE BeginTrialPolicyFails
      BY <3>3 DEF BeginTrialPolicyFails, BackedIInv, BegunFirst
    <3>4. QED BY <1>2, <3>1, <3>2, <3>3
  <2>6. BegunFirst'
    BY <2>3, <2>5 DEF BackedIInv, BegunFirst, RowsRetained
  <2>7. Serving'
    <3>1. CASE BeginTrialSucceeds /\ ResetPrng(RootSeed[loop.trial])
      <4>1. disk[loop.trial].rows = <<>>
        BY <2>2, <3>1 DEF BeginTrialSucceeds, AuditBegin, DirectoryIsNew, BackedIInv, BegunFirst
      <4>2. trialId' = loop.trial /\ Len(disk'[loop.trial].rows) = 0
        BY <2>2, <2>3, <3>1, <4>1 DEF BeginTrialSucceeds, RowsRetained
      <4>3. rng' = TrialKey(trialId)'
        BY <3>1, <4>2 DEF TrialKey, Key
      <4>4. QED
        BY <1>2, <3>1, <4>3 DEF BeginTrialSucceeds, BackedIInv, Serving
    <3>2. CASE BeginTrialAuditFails /\ ResetPrng(RootSeed[loop.trial])
      BY <1>2, <3>2 DEF BeginTrialAuditFails, BackedIInv, Serving
    <3>3. CASE BeginTrialPolicyFails
      BY <1>2, <3>3 DEF BeginTrialPolicyFails, Serving
    <3>4. QED BY <1>2, <3>1, <3>2, <3>3
  <2>8. Calling' /\ LinesReproducible'
    BY <1>2, <2>1 DEF Calling, LinesReproducible, InCriticalSection
  <2>9. QED BY <2>4, <2>6, <2>7, <2>8 DEF BackedIInv
<1>3. ASSUME NEW w \in Workers, Record(w), BackendInfer
      PROVE  BackedIInv'
  <2> DEFINE t == lease[w].trial
  <2> USE DEF Record, BackendInfer, SplitKey
  <2>1. lease[w] \in Identity /\ t \in Trials
    BY <1>3 DEF LeaseDiscipline, InCriticalSection, Identity
  <2>2. AuditRecord(lease[w]) /\ active = t
    BY <1>3, <2>1 DEF AuditRecord, BackedIInv, Calling
  <2>3. /\ disk'[t].rows = Append(disk[t].rows, lease[w])
        /\ \A u \in Trials : disk'[u].manifest = disk[u].manifest
                              /\ (u # t => disk'[u].rows = disk[u].rows)
    BY <2>1, <2>2, AuditAppendsLine
  <2>4. disk[t].rows \in Seq(Identity)
    BY <2>1 DEF AuditTypeOK, TrialDir
  <2>5. Len(disk'[t].rows) = Len(disk[t].rows) + 1 /\ Len(disk[t].rows) \in Nat
    BY <2>1, <2>3, <2>4
  <2>6. policy = lease[w].skill /\ rng = TrialKey(t)
    BY <1>3 DEF BackedIInv, Calling
  <2>7. rng' = TrialKey(t)'
    BY <1>3, <2>5, <2>6 DEF TrialKey
  <2>8. BackendTypeOK'
    BY <1>3 DEF BackedIInv, BackendTypeOK
  <2>9. BegunFirst'
    <3>1. active' = t /\ disk[t].manifest # "ABSENT"
      BY <2>1, <2>2 DEF BackedIInv, BegunFirst, AuditRecord
    <3>2. \A u \in Trials : disk'[u].manifest = "ABSENT" => disk'[u].rows = <<>>
      BY <2>3, <3>1 DEF BackedIInv, BegunFirst
    <3>3. QED BY <2>1, <2>3, <3>1, <3>2 DEF BegunFirst
  <2>10. \A v \in Workers : v # w => pc[v] \notin InCriticalSection /\ pc'[v] = pc[v]
    BY <1>3 DEF LockDiscipline, InCriticalSection
  <2>11. Serving'
    <3>1. state' = "READY" => trialId = t
      BY <1>3, <2>1, IdentityIsLease DEF LeaseDiscipline, SessionBound
    <3>2. QED BY <1>3, <2>7, <3>1 DEF BackedIInv, Serving
  <2>12. Calling'
    BY <1>3, <2>10 DEF Calling, InCriticalSection
  <2>13. drawn' = [skill |-> lease[w].skill,
                   noise |-> [seed |-> RootSeed[t], split |-> Len(disk'[t].rows) - 1]]
    BY <1>3, <2>5, <2>6 DEF TrialKey
  <2>14. LinesReproducible'
    BY <1>3, <2>10, <2>13 DEF LinesReproducible, InCriticalSection
  <2>15. QED BY <2>8, <2>9, <2>11, <2>12, <2>14 DEF BackedIInv
<1>4. ASSUME NEW w \in Workers, InferFails(w), BackendInferFails
      PROVE  BackedIInv'
  <2> USE DEF InferFails, BackendInferFails, SplitKey
  <2>1. lease[w] \in Identity
    BY <1>4 DEF LeaseDiscipline, InCriticalSection
  <2>2. \A v \in Workers : pc'[v] \notin {"policy", "recorded", "answering"}
    BY <1>4 DEF LockDiscipline, InCriticalSection
  <2>3. state' # "READY" /\ UNCHANGED loop
    BY <1>4
  <2>4. BackendTypeOK'
    BY <1>4 DEF BackedIInv, BackendTypeOK
  <2>5. BegunFirst'
    <3>1. CASE Evidence
      BY <3>1 DEF BackedIInv, BegunFirst
    <3>2. CASE AuditRecordFails(lease[w])
      BY <2>1, <3>2, AuditAppendsLine DEF BackedIInv, BegunFirst, AuditRecordFails
    <3>3. QED BY <1>4, <3>1, <3>2
  <2>6. Serving' /\ Calling' /\ LinesReproducible'
    BY <1>4, <2>2, <2>3 DEF BackedIInv, Serving, Calling, LinesReproducible
  <2>7. QED BY <2>4, <2>5, <2>6 DEF BackedIInv
<1>5. ASSUME NEW w \in Workers, Leave(w), drawn' = <<>>, UNCHANGED <<policy, rng>>
      PROVE  BackedIInv'
  <2> USE DEF Leave
  <2>1. \A v \in Workers : pc'[v] \notin {"policy", "recorded", "answering"}
    BY <1>5 DEF LockDiscipline, InCriticalSection
  <2>2. QED
    BY <1>5, <2>1 DEF BackedIInv, BackendTypeOK, BegunFirst, Serving, TrialKey, Calling,
                      LinesReproducible
<1>6. CASE Close /\ BackendClose
  <2> USE DEF Close, BackendClose
  <2>1. RowsRetained
    BY <1>6, AuditKeepsLines
  <2>2. active' \in {active, NoTrial} /\ loop'.step # "publish" /\ state' # "READY"
    BY <1>6 DEF AuditTerminate, AuditTerminateFails, LoopState
  <2>3. BackendTypeOK' /\ Serving' /\ Calling' /\ LinesReproducible'
    BY <1>6, <2>2 DEF BackedIInv, BackendTypeOK, Serving, Calling, LinesReproducible
  <2>4. BegunFirst'
    BY <2>1, <2>2 DEF BackedIInv, BegunFirst, RowsRetained, AuditTypeOK
  <2>5. QED BY <2>3, <2>4 DEF BackedIInv
<1>7. CASE \/ BeginTrialSucceeds /\ ResetPrng(RootSeed[loop.trial])
           \/ BeginTrialAuditFails /\ ResetPrng(RootSeed[loop.trial])
           \/ BeginTrialPolicyFails /\ (ResetPrng(RootSeed[loop.trial]) \/ UNCHANGED backendVars)
  <2>1. BeginTrialReturns /\ CanBeginTrial
    BY <1>7 DEF BeginTrialSucceeds, BeginTrialAuditFails, BeginTrialPolicyFails
  <2>2. BeginTrialSucceeds \/ BeginTrialAuditFails \/ BeginTrialPolicyFails
    BY <1>7
  <2>3. ResetPrng(RootSeed[loop.trial]) \/ (BeginTrialPolicyFails /\ UNCHANGED backendVars)
    BY <1>7
  <2>4. QED BY <1>2, <2>1, <2>2, <2>3
<1>8. CASE \E w \in Workers :
                \/ Record(w) /\ BackendInfer
                \/ InferFails(w) /\ BackendInferFails
                \/ Leave(w) /\ drawn' = <<>> /\ UNCHANGED <<policy, rng>>
  BY <1>3, <1>4, <1>5, <1>8
<1>9. QED BY <1>1, <1>6, <1>7, <1>8 DEF CallsBackend

\* Every step of the composition preserves the invariant.
LEMMA BackedNextIInv == IInv /\ BackedIInv /\ [BackedNext]_backedVars => BackedIInv'
<1> SUFFICES ASSUME IInv, BackedIInv, [BackedNext]_backedVars PROVE BackedIInv'
  OBVIOUS
<1>1. CASE Restart /\ NewBackend
  <2>1. RowsRetained /\ active' = NoTrial
    BY <1>1, AuditKeepsLines DEF Restart, AuditRestart, IInv, RuntimeTypeOK
  <2>2. BegunFirst'
    BY <2>1 DEF BackedIInv, BegunFirst, RowsRetained
  <2>3. BackendTypeOK' /\ Serving' /\ Calling' /\ LinesReproducible'
    BY <1>1 DEF Restart, NewBackend, Key, BackendTypeOK, Serving, Calling, LinesReproducible
  <2>4. QED BY <2>2, <2>3 DEF BackedIInv
<1>2. CASE UNCHANGED backedVars
  BY <1>2 DEF backedVars, vars, BackedIInv, BackendTypeOK, BegunFirst, Serving, TrialKey,
              Calling, LinesReproducible
<1>3. QED BY <1>1, <1>2, CallsBackendStep, WithoutBackendStep DEF BackedNext

\* The inductive invariant of the composition.
THEOREM BackedInvariantHolds == BackedSpec => [](IInv /\ BackedIInv)
<1>1. BackedSpec => []IInv
  BY BackendImplementsRuntime, InvariantHolds, PTL
<1>2. QED BY <1>1, BackedInitIInv, BackedNextIInv, PTL DEF BackedSpec, BackedInit

\* Every line on file is what its trial's skill, root seed and position give,
\* through every refused, failed or interleaved command.
THEOREM LinesAlwaysReproducible == BackedSpec => []LinesReproducible
<1>1. BackedIInv => LinesReproducible
  BY DEF BackedIInv
<1>2. QED BY <1>1, BackedInvariantHolds, PTL
=============================================================================
