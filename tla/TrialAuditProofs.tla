-------------------------- MODULE TrialAuditProofs --------------------------
(***************************************************************************)
(* Typing of the trial audit store, call by call.                          *)
(***************************************************************************)
EXTENDS TrialAudit, TLAPS

\* A new store is well typed (TrialAuditStore.__init__).
LEMMA AuditInitType == AuditInit => AuditTypeOK
  BY TrialAuditAssumption
  DEF AuditInit, AuditTypeOK, TrialDir, NoDirectory, Manifests, Generations

\* Rewriting one directory with a well-typed one keeps the disk well typed.
LEMMA WriteType ==
  ASSUME AuditTypeOK, NEW t \in Trials, NEW dir \in TrialDir, Write(t, dir)
  PROVE  disk' \in [Trials -> TrialDir]
  BY DEF AuditTypeOK, Write

\* begin, successful or not, keeps the store well typed.
LEMMA AuditBeginType ==
  ASSUME AuditTypeOK, NEW t \in Trials, NEW k \in Skills, NEW g \in Generations,
         AuditBegin(t, k, g) \/ AuditBeginFails(t, k, g)
  PROVE  AuditTypeOK'
<1>1. Created(t, k, g) \in TrialDir
  BY DEF AuditTypeOK, TrialDir, Manifests, Created
<1>2. [disk[t] EXCEPT !.manifest = "EMPTY"] \in TrialDir
  BY DEF AuditTypeOK, TrialDir, Manifests
<1>3. disk' \in [Trials -> TrialDir]
  BY <1>1, <1>2, WriteType DEF AuditBegin, AuditBeginFails, AuditTypeOK
<1>4. QED
  BY <1>3 DEF AuditTypeOK, AuditBegin, AuditBeginFails

\* record_request, successful or not, keeps the store well typed.
LEMMA AuditRecordType ==
  ASSUME AuditTypeOK, NEW row \in Identity,
         AuditRecord(row) \/ AuditRecordFails(row)
  PROVE  AuditTypeOK'
<1>1. active \in Trials
  BY DEF AuditTypeOK, AuditRecord, AuditRecordFails
<1>2. Append(disk[active].rows, row) \in Seq(Identity)
  BY <1>1 DEF AuditTypeOK, TrialDir
<1>3. Appended(row) \in TrialDir
  BY <1>1, <1>2 DEF AuditTypeOK, TrialDir, Appended
<1>4. disk' \in [Trials -> TrialDir]
  BY <1>1, <1>3, WriteType DEF AuditRecord, AuditRecordFails, AuditTypeOK
<1>5. QED
  BY <1>4 DEF AuditTypeOK, AuditRecord, AuditRecordFails

\* end, successful or not, keeps the store well typed.
LEMMA AuditEndType ==
  ASSUME AuditTypeOK, AuditEnd \/ AuditEndFails
  PROVE  AuditTypeOK'
<1>1. active \in Trials
  BY DEF AuditTypeOK, AuditEnd, AuditEndFails
<1>2. Summarised \in TrialDir
  BY <1>1 DEF AuditTypeOK, TrialDir, Summarised
<1>3. Committed \in TrialDir
  BY <1>2 DEF AuditTypeOK, TrialDir, Manifests, Committed
<1>4. disk' \in [Trials -> TrialDir]
  BY <1>1, <1>2, <1>3, WriteType DEF AuditEnd, AuditEndFails, AuditTypeOK
<1>5. QED
  BY <1>4 DEF AuditTypeOK, AuditEnd, AuditEndFails

\* abort and mark_ambiguous, successful or not, keep the store well typed.
LEMMA AuditTerminateType ==
  ASSUME AuditTypeOK, NEW status \in {"ABORTED", "AMBIGUOUS_INFERENCE"},
         AuditTerminate(status) \/ AuditTerminateFails(status)
  PROVE  AuditTypeOK'
<1>1. active \in Trials
  BY DEF AuditTypeOK, AuditTerminate, AuditTerminateFails
<1>2. Closed(status) \in TrialDir
  BY <1>1 DEF AuditTypeOK, TrialDir, Manifests, Closed
<1>3. disk' \in [Trials -> TrialDir]
  BY <1>1, <1>2, WriteType DEF AuditTerminate, AuditTerminateFails, AuditTypeOK
<1>4. QED
  BY <1>3 DEF AuditTypeOK, AuditTerminate, AuditTerminateFails

\* The store is well typed after any sequence of its calls and restarts.
THEOREM AuditTypeCorrect == AuditSpec => []AuditTypeOK
<1>1. AuditTypeOK /\ [AuditNext]_auditVars => AuditTypeOK'
  <2> SUFFICES ASSUME AuditTypeOK, [AuditNext]_auditVars PROVE AuditTypeOK'
    OBVIOUS
  <2>1. CASE UNCHANGED auditVars
    BY <2>1 DEF auditVars, AuditTypeOK
  <2>2. CASE AuditRestart
    BY <2>2 DEF AuditRestart, AuditTypeOK
  <2>3. QED
    BY <2>1, <2>2, AuditBeginType, AuditRecordType, AuditEndType,
       AuditTerminateType DEF AuditNext
<1>2. QED BY <1>1, AuditInitType, PTL DEF AuditSpec
-----------------------------------------------------------------------------
(* The store implements the ledger: each call is a step of it, or none.    *)

\* A trial is open only once it has a directory (begin: mkdir, then _active).
ActiveHasDirectory == active # NoTrial => disk[active].manifest # "ABSENT"

LedgerIInv == AuditTypeOK /\ ActiveHasDirectory

\* A call of the store, whoever makes it.
AuditCall ==
    \/ \E t \in Trials, k \in Skills, g \in Generations :
          AuditBegin(t, k, g) \/ AuditBeginFails(t, k, g)
    \/ \E row \in Identity : AuditRecord(row) \/ AuditRecordFails(row)
    \/ AuditEnd \/ AuditEndFails
    \/ \E status \in {"ABORTED", "AMBIGUOUS_INFERENCE"} :
          AuditTerminate(status) \/ AuditTerminateFails(status)
    \/ AuditRestart

\* Writing a directory changes the verdict of its own trial only.
LEMMA OtherVerdicts ==
  ASSUME LedgerIInv, NEW t \in Trials, NEW u \in Trials, u # t,
         disk' = [disk EXCEPT ![t] = disk'[t]] \/ disk' = disk,
         active \in {t, NoTrial}, active' \in {t, NoTrial}
  PROVE  VerdictOf(u)' = VerdictOf(u)
<1>1. disk'[u] = disk[u]
  BY DEF LedgerIInv, AuditTypeOK
<1>2. u # active /\ u # active'
  BY TrialAuditAssumption
<1>3. QED BY <1>1, <1>2 DEF VerdictOf

\* A step that lets the verdict of one trial become v is that ledger entry's.
LEMMA VerdictBecomes ==
  ASSUME LedgerIInv, NEW t \in Trials, NEW v, VerdictOf(t)' = v,
         disk' = [disk EXCEPT ![t] = disk'[t]] \/ disk' = disk,
         active \in {t, NoTrial}, active' \in {t, NoTrial}
  PROVE  [u \in Trials |-> VerdictOf(u)]' =
            [[u \in Trials |-> VerdictOf(u)] EXCEPT ![t] = v]
  BY OtherVerdicts

\* Every call of the store is a step of the ledger or leaves it unchanged.
LEMMA CallIsLedgerStep ==
  ASSUME LedgerIInv, AuditCall
  PROVE  [Ledger!LedgerNext]_(Ledger!ledgerVars)
<1> DEFINE V == [u \in Trials |-> VerdictOf(u)]
<1> USE TrialAuditAssumption DEF LedgerIInv, AuditTypeOK, Write
<1>1. ASSUME NEW t \in Trials, NEW k \in Skills, NEW g \in Generations, AuditBegin(t, k, g)
      PROVE  Ledger!Open(t)
  <2>1. VerdictOf(t)' = "open" /\ VerdictOf(t) = "unused"
    BY <1>1 DEF AuditBegin, DirectoryIsNew, VerdictOf
  <2>2. V' = [V EXCEPT ![t] = "open"]
    BY <1>1, <2>1, VerdictBecomes DEF AuditBegin
  <2>3. QED BY <1>1, <2>1, <2>2 DEF Ledger!Open, AuditBegin
<1>2. ASSUME NEW t \in Trials, NEW k \in Skills, NEW g \in Generations,
             AuditBeginFails(t, k, g)
      PROVE  Ledger!Spoil(t) \/ UNCHANGED <<active, disk>>
  <2> SUFFICES ASSUME ~UNCHANGED disk PROVE Ledger!Spoil(t)
    BY <1>2 DEF AuditBeginFails
  <2>1. disk'[t].manifest \in {"EMPTY", "ACTIVE"} /\ disk' = [disk EXCEPT ![t] = disk'[t]]
    BY <1>2 DEF AuditBeginFails, Created, TrialDir
  <2>2. VerdictOf(t)' = "unfinished" /\ VerdictOf(t) = "unused"
    BY <1>2, <2>1 DEF AuditBeginFails, DirectoryIsNew, VerdictOf
  <2>3. V' = [V EXCEPT ![t] = "unfinished"]
    BY <1>2, <2>1, <2>2, VerdictBecomes DEF AuditBeginFails
  <2>4. QED BY <1>2, <2>2, <2>3 DEF Ledger!Spoil, AuditBeginFails
<1>3. ASSUME (\E row \in Identity : AuditRecord(row) \/ AuditRecordFails(row)) \/ AuditEndFails
             \/ (\E status \in {"ABORTED", "AMBIGUOUS_INFERENCE"} : AuditTerminateFails(status))
      PROVE  UNCHANGED <<active, V>>
  <2>1. active \in Trials /\ active' = active
    BY <1>3 DEF AuditRecord, AuditRecordFails, AuditEndFails, AuditTerminateFails
  <2>2. disk' = [disk EXCEPT ![active] = disk'[active]] \/ disk' = disk
    BY <1>3, <2>1 DEF AuditRecord, AuditRecordFails, AuditEndFails, AuditTerminateFails
  <2>3. VerdictOf(active)' = VerdictOf(active)
    BY <2>1 DEF VerdictOf
  <2>4. V' = [V EXCEPT ![active] = VerdictOf(active)]
    BY <2>1, <2>2, <2>3, VerdictBecomes
  <2>5. QED BY <2>1, <2>4
<1>4. ASSUME AuditEnd \/ (\E status \in {"ABORTED", "AMBIGUOUS_INFERENCE"} :
                             AuditTerminate(status))
      PROVE  Ledger!Seal(active)
  <2>1. active \in Trials /\ active' = NoTrial
    BY <1>4 DEF AuditEnd, AuditTerminate
  <2>2. PICK v \in {"COMMITTED", "ABORTED", "AMBIGUOUS_INFERENCE"} :
           disk'[active].manifest = v
    BY <1>4, <2>1 DEF AuditEnd, AuditTerminate, Committed, Summarised, Closed, TrialDir
  <2>3. disk' = [disk EXCEPT ![active] = disk'[active]]
    BY <1>4, <2>1 DEF AuditEnd, AuditTerminate
  <2>4. (active # active')
    BY <2>1
  <2>5. ASSUME NEW t \in Trials, t = active
        PROVE  VerdictOf(t)' = v
    BY <2>1, <2>2, <2>5 DEF VerdictOf
  <2>6. ASSUME NEW t \in Trials, t = active
        PROVE  V' = [V EXCEPT ![t] = v]
    BY <2>1, <2>3, <2>5, <2>6, VerdictBecomes
  <2>7. QED BY <2>1, <2>6 DEF Ledger!Seal
<1>5. ASSUME AuditRestart, active # NoTrial
      PROVE  Ledger!Abandon(active)
  <2>1. PICK t \in Trials : t = active
    BY <1>5
  <2>2. PICK v \in {"COMMITTED", "ABORTED", "AMBIGUOUS_INFERENCE", "unfinished"} :
           VerdictOf(t)' = v
    BY <1>5, <2>1 DEF AuditRestart, VerdictOf, ActiveHasDirectory, TrialDir, Manifests
  <2>3. V' = [V EXCEPT ![t] = v]
    BY <1>5, <2>1, <2>2, VerdictBecomes DEF AuditRestart
  <2>4. QED BY <1>5, <2>1, <2>2, <2>3 DEF Ledger!Abandon, AuditRestart
<1>6. CASE AuditRestart /\ active = NoTrial
  BY <1>6 DEF AuditRestart, Ledger!ledgerVars, VerdictOf
<1>7. (UNCHANGED <<active, disk>>) => UNCHANGED <<active, V>>
  BY DEF VerdictOf
<1>8. QED
  BY <1>1, <1>2, <1>3, <1>4, <1>5, <1>6, <1>7
  DEF AuditCall, Ledger!LedgerNext, Ledger!ledgerVars, AuditEnd, AuditTerminate

\* What the ledger needs is kept by every call.
LEMMA CallKeepsDirectory ==
  ASSUME LedgerIInv, AuditCall
  PROVE  LedgerIInv'
<1>1. AuditTypeOK'
  <2>1. CASE AuditRestart
    BY <2>1 DEF AuditRestart, AuditTypeOK, LedgerIInv
  <2>2. QED
    BY <2>1, AuditBeginType, AuditRecordType, AuditEndType, AuditTerminateType
    DEF AuditCall, LedgerIInv
<1>2. ActiveHasDirectory'
  BY DEF AuditCall, AuditBegin, AuditBeginFails, AuditRecord, AuditRecordFails, AuditEnd,
     AuditEndFails, AuditTerminate, AuditTerminateFails, AuditRestart, Write, Created,
     Appended, Committed, Summarised, Closed, ActiveHasDirectory, LedgerIInv, AuditTypeOK,
     TrialDir
<1>3. QED BY <1>1, <1>2 DEF LedgerIInv

LEMMA LedgerStart == AuditInit => LedgerIInv /\ Ledger!LedgerInit
<1>1. AuditInit => LedgerIInv
  BY AuditInitType DEF LedgerIInv, ActiveHasDirectory, AuditInit
<1>2. AuditInit => Ledger!LedgerInit
  BY TrialAuditAssumption DEF AuditInit, Ledger!LedgerInit, VerdictOf, NoDirectory
<1>3. QED BY <1>1, <1>2

LEMMA LedgerStutter ==
  ASSUME UNCHANGED auditVars
  PROVE  /\ [Ledger!LedgerNext]_(Ledger!ledgerVars)
         /\ LedgerIInv => LedgerIInv'
  BY DEF auditVars, Ledger!ledgerVars, VerdictOf, LedgerIInv, AuditTypeOK, ActiveHasDirectory

\* "One active, non-overwritable server-side trial": called in any order, with
\* every write failing in every way and the process dying anywhere, the store
\* uses an id once, keeps one trial open and never rewrites a verdict.
THEOREM StoreImplementsLedger == AuditSpec => ImplementsLedger
<1>1. AuditNext => AuditCall
  BY DEF AuditNext, AuditCall
<1>2. LedgerIInv /\ [AuditNext]_auditVars =>
         LedgerIInv' /\ [Ledger!LedgerNext]_(Ledger!ledgerVars)
  BY <1>1, CallKeepsDirectory, CallIsLedgerStep, LedgerStutter
<1>3. QED BY <1>2, LedgerStart, PTL DEF AuditSpec, ImplementsLedger, Ledger!LedgerSpec
=============================================================================
