---------------------------- MODULE MCFailedTrial ----------------------------
(***************************************************************************)
(* PolicyRuntime with a history variable, for what the documents say of a  *)
(* trial in which the policy failed.  The steps are those of Next.         *)
(***************************************************************************)
EXTENDS PolicyRuntimeProperties

VARIABLE interrupted    \* history: the trials in which infer() failed

\* The policy call raised, or the record of its result did.
FailedCalls    == {w \in Workers : pc[w] = "policy" /\ pc'[w] = "failing"}
NoteFailures   == interrupted' = interrupted \cup {lease[w].trial : w \in FailedCalls}

HistorySpec == /\ Init /\ interrupted = {}
               /\ [][Next /\ NoteFailures]_<<vars, interrupted>>

\* docs/safety_invariants.md S-019: a failure state is not overwritten as
\* completed, and with an exception injected in any stage the final manifest
\* keeps the reason of the failure.  A trial whose inference failed is never
\* closed as COMMITTED (infer, end_trial); a commit that itself fails is not
\* meant, its files are provisional.
FailedTrialNeverCommitted ==
    \A t \in interrupted : VerdictOf(t) # "COMMITTED"
=============================================================================
