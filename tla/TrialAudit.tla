----------------------------- MODULE TrialAudit -----------------------------
(***************************************************************************)
(* TrialAuditStore (server/audit.py): one active, non-overwritable trial,  *)
(* kept as files in a directory per trial id.  Every write may fail with   *)
(* an OSError, and _atomic_json may fail AFTER its rename (the fsync of    *)
(* the directory comes last), so a failed call can leave its file behind.  *)
(* The store has a lock of its own: each call is one atomic action here.   *)
(***************************************************************************)
EXTENDS Naturals, Sequences

CONSTANTS Trials, NoTrial,      \* trial ids, chosen by the client
          Sessions,             \* session ids, fresh uuid4 values
          Skills, NoSkill,      \* skill names
          MaxGeneration,        \* bound: generations a server goes through
          MaxSequence,          \* bound: last sequence number of a session
          MaxInstances          \* bound: server processes on one runtime root

ASSUME TrialAuditAssumption ==
    /\ NoTrial \notin Trials
    /\ NoSkill \notin Skills
    /\ MaxGeneration \in Nat
    /\ MaxSequence \in Nat
    /\ MaxInstances \in Nat \ {0}

VARIABLES active,         \* trial id of TrialAuditStore._active, or NoTrial
          requestCount,   \* request_count of _active (0 when there is none)
          disk            \* disk[t]: the directory of trial t

auditVars == <<active, requestCount, disk>>

\* ABSENT: no directory.  EMPTY: a directory without server_manifest.json.
Manifests == {"ABSENT", "EMPTY", "ACTIVE",
              "COMMITTED", "ABORTED", "AMBIGUOUS_INFERENCE"}

Generations == 0 .. MaxGeneration

\* The identity of an inference: a line of requests.jsonl and a response.
Identity == [session : Sessions, trial : Trials, skill : Skills,
             generation : Generations, sequence : 0 .. MaxSequence]

TrialDir == [manifest   : Manifests,
             summary    : BOOLEAN,              \* trial_summary.json, COMMITTED
             skill      : Skills \cup {NoSkill},
             generation : Generations,
             rows       : Seq(Identity),        \* requests.jsonl
             count      : Nat]                  \* request_count, when closed

NoDirectory == [manifest |-> "ABSENT", summary |-> FALSE, skill |-> NoSkill,
                generation |-> 0, rows |-> <<>>, count |-> 0]

AuditTypeOK == /\ active \in Trials \cup {NoTrial}
               /\ requestCount \in Nat
               /\ disk \in [Trials -> TrialDir]

AuditInit == /\ active = NoTrial
             /\ requestCount = 0
             /\ disk = [t \in Trials |-> NoDirectory]

-----------------------------------------------------------------------------
\* What a call leaves in the directory of its trial.
Created(t, k, g)  == [disk[t] EXCEPT !.manifest = "ACTIVE", !.skill = k,
                                     !.generation = g]
Appended(row)     == [disk[active] EXCEPT !.rows = Append(@, row)]
Summarised        == [disk[active] EXCEPT !.summary = TRUE]
Committed         == [Summarised EXCEPT !.manifest = "COMMITTED",
                                        !.count = requestCount]
Closed(status)    == [disk[active] EXCEPT !.manifest = status,
                                          !.count = requestCount]
Write(t, dir)     == disk' = [disk EXCEPT ![t] = dir]

\* Mutant of DirectoryIsNew: mkdir(exist_ok=True).
DirectoryMayExist(t) == t \in Trials

DirectoryIsNew(t) == disk[t].manifest = "ABSENT"

\* begin: mkdir(exist_ok=False), then the ACTIVE manifest.
AuditBegin(t, k, g) ==
    /\ active = NoTrial
    /\ DirectoryIsNew(t)
    /\ active' = t
    /\ requestCount' = 0
    /\ Write(t, Created(t, k, g))

\* begin fails: the directory exists, or mkdir or the manifest write fails;
\* what was written stays and spends the id.
AuditBeginFails(t, k, g) ==
    /\ active = NoTrial
    /\ UNCHANGED <<active, requestCount>>
    /\ \/ UNCHANGED disk
       \/ /\ DirectoryIsNew(t)
          /\ \/ Write(t, [disk[t] EXCEPT !.manifest = "EMPTY"])
             \/ Write(t, Created(t, k, g))

\* Mutant of AuditRecord: the line is written, the counter forgotten.
AuditRecordUncounted(row) ==
    /\ active # NoTrial
    /\ Write(active, Appended(row))
    /\ UNCHANGED <<active, requestCount>>

\* record_request appends to the ACTIVE trial, whatever trial the row names.
AuditRecord(row) ==
    /\ active # NoTrial
    /\ Write(active, Appended(row))
    /\ requestCount' = requestCount + 1
    /\ UNCHANGED active

\* record_request fails: the first-chunk files or the line itself; the line
\* may be in the file when its fsync fails.  request_count is not raised.
AuditRecordFails(row) ==
    /\ active # NoTrial
    /\ UNCHANGED disk \/ Write(active, Appended(row))
    /\ UNCHANGED <<active, requestCount>>

\* end: trial_summary.json, then server_manifest.json, both COMMITTED.
AuditEnd ==
    /\ active # NoTrial
    /\ Write(active, Committed)
    /\ active' = NoTrial
    /\ requestCount' = 0

\* end fails before, between or after its two files; the trial stays active.
AuditEndFails ==
    /\ active # NoTrial
    /\ UNCHANGED disk \/ Write(active, Summarised) \/ Write(active, Committed)
    /\ UNCHANGED <<active, requestCount>>

\* _terminate, for abort ("ABORTED") and mark_ambiguous.
AuditTerminate(status) ==
    /\ active # NoTrial
    /\ Write(active, Closed(status))
    /\ active' = NoTrial
    /\ requestCount' = 0

AuditTerminateFails(status) ==
    /\ active # NoTrial
    /\ UNCHANGED disk \/ Write(active, Closed(status))
    /\ UNCHANGED <<active, requestCount>>

\* A new process on the same runtime root: _active is lost, the files stay.
AuditRestart == /\ active' = NoTrial
                /\ requestCount' = 0
                /\ UNCHANGED disk

-----------------------------------------------------------------------------
\* The store alone, called in any order its interface allows.
AuditNext ==
    \/ \E t \in Trials, k \in Skills, g \in Generations :
          AuditBegin(t, k, g) \/ AuditBeginFails(t, k, g)
    \/ \E row \in Identity :
          /\ active # NoTrial
          /\ Len(disk[active].rows) <= MaxSequence
          /\ AuditRecord(row) \/ AuditRecordFails(row)
    \/ AuditEnd \/ AuditEndFails
    \/ \E status \in {"ABORTED", "AMBIGUOUS_INFERENCE"} :
          AuditTerminate(status) \/ AuditTerminateFails(status)
    \/ AuditRestart

AuditSpec == AuditInit /\ [][AuditNext]_auditVars

-----------------------------------------------------------------------------
\* TrialAudit as an EvidenceLedger.  A verdict counts once the store has let
\* go of the trial; until then what is on disk is provisional.
VerdictOf(t) ==
    CASE t = active                                  -> "open"
      [] t # active /\ disk[t].manifest = "ABSENT"   -> "unused"
      [] t # active /\ disk[t].manifest \in {"EMPTY", "ACTIVE"} -> "unfinished"
      [] OTHER                                       -> disk[t].manifest

Ledger == INSTANCE EvidenceLedger
            WITH Ids <- Trials, NoId <- NoTrial,
                 Sealed <- {"COMMITTED", "ABORTED", "AMBIGUOUS_INFERENCE"},
                 current <- active,
                 verdict <- [t \in Trials |-> VerdictOf(t)]

\* begin, end, abort, mark_ambiguous and their failures only ever use a trial
\* id once, keep one trial open, and never touch a trial they have closed
\* (TrialAuditStore: "One active, non-overwritable server-side trial").
ImplementsLedger == Ledger!LedgerSpec
=============================================================================
