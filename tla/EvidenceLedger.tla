--------------------------- MODULE EvidenceLedger ---------------------------
(***************************************************************************)
(* What a store of evidence promises, without files or faults in the       *)
(* middle: an id is used at most once, at most one entry is open, and the  *)
(* verdict a closed entry received is never rewritten.  TrialAudit, the    *)
(* server's store of trials, and EdgeAudit, the edge's store of runs,      *)
(* implement it.                                                           *)
(***************************************************************************)
CONSTANTS Ids, NoId,
          Sealed     \* the verdicts a store can give

VARIABLES current,   \* the open entry, or NoId
          verdict    \* verdict[i]: what the ledger says of entry i

ledgerVars == <<current, verdict>>

LedgerInit == /\ current = NoId
              /\ verdict = [i \in Ids |-> "unused"]

Open(i) == /\ current = NoId
           /\ verdict[i] = "unused"
           /\ current' = i
           /\ verdict' = [verdict EXCEPT ![i] = "open"]

\* The id was spent on an entry that could not be opened.
Spoil(i) == /\ current = NoId
            /\ verdict[i] = "unused"
            /\ verdict' = [verdict EXCEPT ![i] = "unfinished"]
            /\ UNCHANGED current

\* The owner closes the entry, with a verdict.
Seal(i) == /\ current = i
           /\ current' = NoId
           /\ \E v \in Sealed : verdict' = [verdict EXCEPT ![i] = v]

\* The owner dies with the entry open: its evidence stays as it is found,
\* finished by an attempt nobody acknowledged or not finished at all.
Abandon(i) == /\ current = i
              /\ current' = NoId
              /\ \E v \in Sealed \cup {"unfinished"} :
                    verdict' = [verdict EXCEPT ![i] = v]

LedgerNext == \E i \in Ids : Open(i) \/ Spoil(i) \/ Seal(i) \/ Abandon(i)

LedgerSpec == LedgerInit /\ [][LedgerNext]_ledgerVars
=============================================================================
