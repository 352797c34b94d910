--------------------------- MODULE PolicyBackend ---------------------------
(***************************************************************************)
(* The policy backend inside the server: OpenPiCompositeBackend            *)
(* (server/composite_backend.py; FakePolicyBackend keeps the same state)   *)
(* composed with PolicyRuntime, which calls it under _execution_lock.  A   *)
(* parameter tree is named by its skill.  A noise sample is the key it was *)
(* drawn from: a seed, and how often that key had been split.              *)
(***************************************************************************)
EXTENDS PolicyRuntimeProperties

CONSTANT RootSeed    \* RootSeed[t]: the root_seed sent with begin-trial t

ASSUME RootSeedAssumption == RootSeed \in [Trials -> Nat]

VARIABLES policy,    \* the skill of _policy, or NoSkill
          rng,       \* _noise_rng
          drawn      \* backend_result of the infer() in progress, as what made it

backendVars == <<policy, rng, drawn>>
backedVars  == <<vars, backendVars>>

Key(seed) == [seed |-> seed, split |-> 0]

BackendInit == /\ policy = NoSkill
               /\ rng = Key(0)
               /\ drawn = <<>>

-----------------------------------------------------------------------------
\* prepare: the new policy is complete before the old one is let go.
BackendPrepare(k) == policy' = k /\ rng' = Key(0) /\ UNCHANGED drawn

\* It may raise on any asset, and last of all on the manifest's hash, when
\* the new policy is already in place.
BackendPrepareFails(k) == BackendPrepare(k) \/ UNCHANGED backendVars

\* Mutant of ResetPrng: the noise goes on from where it was.
ResetPrngNever(seed) == UNCHANGED backendVars

ResetPrng(seed) == rng' = Key(seed) /\ UNCHANGED <<policy, drawn>>

\* The key is split before the policy is called.
SplitKey == rng' = [rng EXCEPT !.split = @ + 1]

BackendInfer == /\ policy # NoSkill
                /\ drawn' = [skill |-> policy, noise |-> rng]
                /\ SplitKey
                /\ UNCHANGED policy

BackendInferFails == UNCHANGED <<policy, drawn>> /\ (SplitKey \/ UNCHANGED rng)

BackendClose == policy' = NoSkill /\ UNCHANGED <<rng, drawn>>

-----------------------------------------------------------------------------
\* The calls the runtime makes to its backend, and infer() handing over what
\* it got from it.
CallsBackend ==
    \/ PrepareReturns /\ BackendPrepare(loop.skill)
    \/ PrepareFails /\ BackendPrepareFails(loop.skill)
    \/ BeginTrialSucceeds /\ ResetPrng(RootSeed[loop.trial])
    \/ BeginTrialAuditFails /\ ResetPrng(RootSeed[loop.trial])
    \/ BeginTrialPolicyFails /\ (ResetPrng(RootSeed[loop.trial]) \/ UNCHANGED backendVars)
    \/ \E w \in Workers : \/ Record(w) /\ BackendInfer
                          \/ InferFails(w) /\ BackendInferFails
                          \/ Leave(w) /\ drawn' = <<>> /\ UNCHANGED <<policy, rng>>
    \/ Close /\ BackendClose

\* infer() around the policy call, and sending its result.
AroundInfer(w) ==
    \/ Request(w) \/ InferLocks(w) \/ InferLockTimeout(w) \/ Expire(w)
    \/ \E r \in Identity : Validate(w, r) \/ Reject(w, r)
    \/ Confirm(w) \/ LeaseLost(w) \/ Send(w)

\* The commands, but for their calls of the backend.
WithoutBackend ==
    \/ PrepareLocks \/ PrepareLockTimeout \/ PublishSkill
    \/ BeginTrialLocks \/ BeginTrialLockTimeout \/ BeginTrialRejected
    \/ AbortLocks \/ AbortLockTimeout \/ AbortSucceeds \/ AbortAuditFails
    \/ Command \/ Stop

\* A new process has a new backend.
NewBackend == policy' = NoSkill /\ rng' = Key(0) /\ drawn' = <<>>

BackedNext == \/ CallsBackend
              \/ WithoutBackend /\ UNCHANGED backendVars
              \/ \E w \in Workers : AroundInfer(w) /\ UNCHANGED backendVars
              \/ Restart /\ NewBackend

BackedInit == Init /\ BackendInit

BackedSpec == BackedInit /\ [][BackedNext]_backedVars

\* The backend's calls return or raise with the runtime's own steps.
FairBackedSpec == BackedSpec /\ Fairness

-----------------------------------------------------------------------------
\* Same observation and root seed, same action (docs/acceptance_tests.md,
\* "action hash"): the actions on file as line n of a trial were computed by
\* the policy of the trial's own skill, from the noise that the trial's
\* root_seed gives the n-th call, whatever was prepared, begun, refused or
\* failed before it.  A call of another trial, a reset that comes late or a
\* policy swapped underneath would break it (begin_trial, infer, reset_prng).
LinesReproducible ==
    \A w \in Workers : pc[w] \in {"recorded", "answering"} =>
        drawn = [skill |-> lease[w].skill,
                 noise |-> [seed  |-> RootSeed[lease[w].trial],
                            split |-> Len(disk[lease[w].trial].rows) - 1]]
=============================================================================
