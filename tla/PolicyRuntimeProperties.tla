---------------------- MODULE PolicyRuntimeProperties ----------------------
(***************************************************************************)
(* What PolicyRuntime promises: invariants over the runtime, its store and *)
(* the calls in progress, what a step may never do, liveness, a statement  *)
(* of the documents that the code does not keep, and the inductive         *)
(* invariant behind the proofs.                                            *)
(***************************************************************************)
EXTENDS PolicyRuntime

-----------------------------------------------------------------------------
\* The runtime's and the store's idea of the open trial agree whenever
\* _condition is free, through every failure of the store, so TRIAL_REQUIRED
\* and TRIAL_ALREADY_ACTIVE never come from the store by surprise
\* (runtime.py: begin_trial, end_trial, abort, mark_transport_ambiguous).
TrialAuditCoupled == trialId = active

\* A live session is bound to the trial, the policy and the generation being
\* served, and exists only while the service is READY (_fail_locked,
\* prepare_skill and close invalidate it).
SessionBound ==
    session # NoSession =>
        /\ state = "READY"
        /\ session.session \in opened
        /\ session.trial = trialId
        /\ session.skill = activeSkill
        /\ session.generation = generation

\* S-004: from the policy call to the audit record there is one owner of the
\* policy, and in_flight counts exactly that.
PolicySerial ==
    /\ \A w \in Workers : pc[w] \in InCriticalSection => executionLock = w
    /\ inFlight = Cardinality({w \in Workers : pc[w] \in InCriticalSection})
    /\ loop.step \in {"prepare", "begin", "abort"} => executionLock = Loop

\* While an inference runs, the service either still holds the very lease it
\* was admitted under or has failed: no command closes, replaces or
\* re-binds the session underneath it.
InFlightProtected ==
    \A w \in Workers :
        pc[w] \in InCriticalSection /\ state # "FAILED" =>
            state = "READY" /\ HoldsLease(w)

\* The drain loop of prepare_skill never has anything to wait for: whenever
\* prepare_skill is admitted, nothing is in flight.
DrainNeverWaits ==
    trialId = NoTrial /\ state \in {"STARTING", "READY", "LOADING"} =>
        inFlight = 0

\* A response that left infer() is on file, exactly once, in the directory
\* of its own trial: no action is published without its evidence.
Responses == delivered \cup
             {lease[w] : w \in {v \in Workers : pc[v] \in {"answering", "sending"}}}
OnFile(r) == {i \in DOMAIN disk[r.trial].rows : disk[r.trial].rows[i] = r}
ResponsesOnFile == \A r \in Responses : Cardinality(OnFile(r)) = 1

\* S-014: record_request appends to whatever trial is active; every line it
\* wrote belongs to the trial, skill and generation of that directory.
EvidenceFiledUnderItsTrial ==
    \A t \in Trials : \A i \in DOMAIN disk[t].rows :
        LET row == disk[t].rows[i]
        IN  /\ row.trial = t
            /\ row.skill = disk[t].skill
            /\ row.generation = disk[t].generation

\* The lines a session leaves in the evidence are numbered 0, 1, 2, ... with
\* no gap and no repetition, even when responses are lost (S-012).
EvidenceInSequence ==
    \A t \in Trials : \A i \in DOMAIN disk[t].rows :
        disk[t].rows[i].sequence =
            Cardinality({j \in 1 .. i - 1 :
                disk[t].rows[j].session = disk[t].rows[i].session})

\* The request_count of a committed trial accounts for every response that
\* was delivered for it.
CommitCountsResponses ==
    \A t \in Trials :
        disk[t].manifest = "COMMITTED" /\ t # active =>
            Cardinality({r \in delivered : r.trial = t}) <= disk[t].count

\* Fail closed: within one process every handler moves along
\* RUNTIME_TRANSITIONS, so ensure_runtime_transition never raises in the
\* middle of one, and a failed service admits no inference and opens no
\* session or trial.  READY -> LOADING stands for READY -> DRAINING ->
\* SWITCHING -> LOADING, one block of prepare_skill.
FailedIsFinal ==
    [][instance' = instance =>
        /\ state' # state =>
              \/ state' \in RuntimeTransitions[state]
              \/ state = "READY" /\ state' = "LOADING"
        /\ state = "FAILED" =>
              /\ session' = NoSession
              /\ \A w \in Workers : pc'[w] = "policy" => pc[w] = "policy"
              /\ active' \in {active, NoTrial}]_vars

\* S-007: the policy is replaced only when no session is live and no policy
\* call or undelivered admission can still see the old generation.
GenerationChangesAlone ==
    [][generation' # generation /\ instance' = instance =>
        /\ generation' = generation + 1
        /\ session = NoSession /\ session' = NoSession
        /\ trialId = NoTrial
        /\ inFlight = 0]_vars

\* A response can be delivered only if its lease was live when the policy
\* call ended: what was invalidated during the call stays unpublished.
ConfirmedByLiveLease ==
    [][\A w \in Workers :
        pc'[w] = "answering" /\ pc[w] # "answering" =>
            /\ state = "READY"
            /\ session # NoSession
            /\ lease[w] = session]_vars

\* docs/minimal_runtime.md:37-38: "an ambiguous inference response remain
\* fatal and move the service to FAILED".  A response that infer() produced
\* and the server could not send leaves the service FAILED or stopping.
AmbiguousResponseIsFatal ==
    [][\A w \in Workers :
        (/\ pc[w] = "sending" /\ pc'[w] # "sending"
         /\ instance' = instance
         /\ lease[w] \notin delivered')
            => state' \in {"FAILED", "STOPPING"}]_vars

\* Every infer() call ends, and every control command gives the loop back.
EveryCallReturns ==
    /\ \A w \in Workers : pc[w] = "waiting" ~> pc[w] = "idle"
    /\ loop.step \notin {"idle", "exited"} ~> loop.step \in {"idle", "exited"}

\* The server as its client sees it: while prepare_skill runs the old policy,
\* if there is one, is still the one served.
ServedState == CASE state # "LOADING" -> state
                 [] state = "LOADING" /\ generation = 0 -> "STARTING"
                 [] state = "LOADING" /\ generation > 0 -> "READY"

Served == [state    |-> ServedState,
           skill    |-> activeSkill,
           trial    |-> trialId,
           session  |-> IF session = NoSession THEN NoSession ELSE session.session,
           instance |-> instance]

\* A trial's verdict counts once the store has let go of it.
ServedTrials == [t \in Trials |-> [verdict  |-> VerdictOf(t),
                                   skill    |-> disk[t].skill,
                                   recorded |-> Len(disk[t].rows)]]

Service == INSTANCE PolicyService WITH service <- Served, trials <- ServedTrials

\* With all its threads, locks, timeouts and failing writes the server looks
\* to its client like one that executes a command at a time: what the
\* orchestrator relies on (control_protocol.py execute, runtime.py).
ImplementsService == Service!ServiceSpec

-----------------------------------------------------------------------------
(* The inductive invariant: the typing, and what each part relies on.       *)

Preparing == {"prepare-lock", "prepare", "publish"}

\* _execution_lock belongs to whoever is between its acquire and release.
LockDiscipline ==
    /\ \A w \in Workers :
          executionLock = w <=> pc[w] \in InCriticalSection \cup {"validating"}
    /\ executionLock = Loop <=> loop.step \in {"prepare", "begin", "abort"}

InFlightCounts ==
    inFlight = IF \E w \in Workers : pc[w] \in InCriticalSection THEN 1 ELSE 0

\* Where the loop thread is says what the state can be, and back.
LoopDiscipline ==
    /\ loop.step \in Preparing <=> state = "LOADING"
    /\ loop.step \in Preparing => loop.skill \in Skills /\ generation < MaxGeneration
    /\ loop.step \in {"begin-lock", "begin"} => loop.trial \in Trials
    /\ loop.step = "exited" <=> state = "STOPPING"
    /\ loop.step = "exited" => stopping /\ \A w \in Workers : pc[w] = "idle"

TrialDiscipline ==
    /\ state \in {"STARTING", "LOADING", "READY", "FAILED", "STOPPING"}
    /\ trialId # NoTrial => state \in {"READY", "FAILED", "STOPPING"}
    /\ state = "READY" \/ trialId # NoTrial => activeSkill \in Skills

\* A worker in the policy call still holds the lease it was admitted under,
\* sequence number included, or the service has failed.
LeaseDiscipline ==
    \A w \in Workers :
        /\ pc[w] \in InCriticalSection \cup {"sending"} => lease[w] \in Identity
        /\ pc[w] \in InCriticalSection => state \in {"READY", "FAILED"}
        /\ pc[w] = "failing" => state = "FAILED"
        /\ pc[w] \in {"policy", "recorded"} /\ state = "READY" => session = lease[w]
        /\ pc[w] = "answering" /\ state = "READY" => HoldsLease(w)

\* The strengthening the proofs rest on: typing, the two locks, the loop and
\* the lease, and the two couplings stated above.
IInv == /\ RuntimeTypeOK
        /\ LockDiscipline
        /\ InFlightCounts
        /\ LoopDiscipline
        /\ TrialDiscipline
        /\ LeaseDiscipline
        /\ SessionBound
        /\ TrialAuditCoupled
-----------------------------------------------------------------------------
(* The inductive invariant of the evidence, beside IInv.                   *)

\* The lines that session s has in a requests.jsonl.
SessionLines(rows, s) == {j \in DOMAIN rows : rows[j].session = s}

\* Lines name sessions that were handed out, a directory that does not exist
\* has none, and the open trial's directory says what is being served.
FiledUnderTrial ==
    /\ EvidenceFiledUnderItsTrial
    /\ \A t \in Trials : /\ \A i \in DOMAIN disk[t].rows : disk[t].rows[i].session \in opened
                         /\ disk[t].manifest = "ABSENT" =>
                               disk[t].rows = <<>> /\ disk[t].skill = NoSkill
    /\ trialId # NoTrial => /\ disk[trialId].skill = activeSkill
                            /\ disk[trialId].generation = generation

\* A call between its two blocks was admitted for the open trial and the
\* active policy, though the trial may have ended on a FAILED server.
AdmittedForTrial ==
    \A w \in Workers :
        /\ pc[w] \in InCriticalSection =>
              /\ lease[w].skill = activeSkill
              /\ lease[w].generation = generation
              /\ trialId \in {lease[w].trial, NoTrial}
        /\ pc[w] \in InCriticalSection \cup {"sending"} => lease[w].session \in opened

\* The number a line is going to have is the number of lines before it.
NextLineNumbered ==
    /\ EvidenceInSequence
    /\ \A w \in Workers : pc[w] = "policy" =>
          lease[w].sequence =
              Cardinality(SessionLines(disk[lease[w].trial].rows, lease[w].session))
    /\ session # NoSession =>
          session.sequence + (IF \E w \in Workers : pc[w] = "recorded" THEN 1 ELSE 0) =
              Cardinality(SessionLines(disk[session.trial].rows, session.session))

\* A response, or what Confirm may make one, is on file.
AnswersOnFile ==
    \A r \in Responses \cup {lease[w] : w \in {v \in Workers : pc[v] = "recorded"}} :
        OnFile(r) # {}

ResponsesOf(t) == {r \in Responses : r.trial = t}

\* request_count, in memory and in a COMMITTED manifest, is ahead of the
\* responses; what a failed end() left behind stays true since FAILED makes no
\* more of them.
CountAhead ==
    /\ IsFiniteSet(Responses)
    /\ active # NoTrial =>
          /\ Cardinality(ResponsesOf(active)) +
                (IF session # NoSession /\ \E w \in Workers : pc[w] = "recorded" THEN 1 ELSE 0)
                    <= requestCount
          /\ disk[active].manifest = "COMMITTED" => state # "READY"
    /\ \A t \in Trials : disk[t].manifest = "COMMITTED" =>
          Cardinality(ResponsesOf(t)) <= disk[t].count

\* A policy was published before the first request for it.
GenerationKnown == /\ state = "STARTING" => generation = 0
                   /\ state = "READY" => generation > 0

EvidenceIInv == /\ FiledUnderTrial
                /\ AdmittedForTrial
                /\ NextLineNumbered
                /\ AnswersOnFile
                /\ CountAhead
=============================================================================
