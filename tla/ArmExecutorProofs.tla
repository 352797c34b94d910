-------------------------- MODULE ArmExecutorProofs --------------------------
(***************************************************************************)
(* One driver, which leaves the arm holding, and a stage that ends only by *)
(* a round trip of the joints, for any number of processes, any profiles   *)
(* and any samples.                                                        *)
(***************************************************************************)
EXTENDS ArmExecutor, FiniteSetTheorems, WellFoundedInduction, SequenceTheorems, TLAPS

USE ExecutorAssumption

Everywhere == Driving \cup {"off", "built", "locked", "refused", "destroyed"}

ExecType == [skill : Skills \cup {NoSkill}, rows : Int, left : Int,
             hasPublished : BOOLEAN]

\* What the two properties need of the typing.
DriverTypeOK == /\ proc \in [Procs -> Everywhere]
                /\ lock \in Procs \cup {Free}
                /\ exec \in ExecType
                /\ command \in {"none", "motion", "hold"}
                /\ excused \in BOOLEAN

\* The lock is held from its acquisition to the end of close.
LockHeld == \A p \in Procs : proc[p] \in Driving \cup {"locked"} => lock = p

\* Unless a stop failed, the process whose command moves the arm is still
\* there, knows that it has published, and has a stop ahead of it.
MotionOwned ==
    command = "motion" /\ ~excused =>
        \E p \in Procs : /\ proc[p] \in Driving \ {"idle", "closing"}
                         /\ exec.hasPublished

\* The inductive invariant.
DriverIInv == DriverTypeOK /\ LockHeld /\ MotionOwned

\* What the assignments to the executor's fields do.
LEMMA FreshExec == Fresh \in ExecType
  BY DEF Fresh, ExecType

LEMMA PublishedExec ==
  ASSUME NEW e \in ExecType
  PROVE  /\ [e EXCEPT !.hasPublished = TRUE] \in ExecType
         /\ [e EXCEPT !.hasPublished = TRUE].hasPublished = TRUE
  BY DEF ExecType

LEMMA CountedExec ==
  ASSUME NEW e \in ExecType, NEW r \in Int, NEW l \in Int
  PROVE  [e EXCEPT !.rows = r, !.left = l] \in ExecType
  BY DEF ExecType

LEMMA StagedExec ==
  ASSUME NEW e \in ExecType, NEW k \in Skills, NEW r \in Int
  PROVE  /\ [e EXCEPT !.skill = k, !.rows = r] \in ExecType
         /\ [e EXCEPT !.skill = k, !.rows = r].hasPublished = e.hasPublished
  BY DEF ExecType

LEMMA StoppedExec ==
  ASSUME NEW e \in ExecType, NEW b \in BOOLEAN
  PROVE  [e EXCEPT !.skill = NoSkill, !.hasPublished = b] \in ExecType
  BY DEF ExecType

LEMMA ExecFields ==
  ASSUME NEW e \in ExecType
  PROVE  e.rows \in Int /\ e.left \in Int /\ e.hasPublished \in BOOLEAN
  BY DEF ExecType

\* A command that moves the arm is noted.
LEMMA MoveNotes ==
  ASSUME NEW e \in ExecType, Move(e)
  PROVE  exec' \in ExecType /\ exec'.hasPublished = TRUE
  BY PublishedExec DEF Move

LEMMA RowsNote ==
  ASSUME exec \in ExecType, NEW p \in Procs, Reset(p) \/ FirstRow(p) \/ NextRow(p)
  PROVE  exec' \in ExecType /\ exec'.hasPublished = TRUE
<1>1. CASE Reset(p)
  BY <1>1, MoveNotes DEF Reset
<1>2. CASE FirstRow(p)
  <2>1. [exec EXCEPT !.rows = @ + 1, !.left = ChunkRows - 1] \in ExecType
    <3>1. exec.rows + 1 \in Int /\ ChunkRows - 1 \in Int
      BY ExecFields
    <3>2. QED BY <3>1, CountedExec, Zenon
  <2>2. QED BY <1>2, <2>1, MoveNotes DEF FirstRow
<1>3. CASE NextRow(p)
  <2>1. [exec EXCEPT !.rows = @ + 1, !.left = @ - 1] \in ExecType
    <3>1. exec.rows + 1 \in Int /\ exec.left - 1 \in Int
      BY ExecFields
    <3>2. QED BY <3>1, CountedExec, Zenon
  <2>2. QED BY <1>3, <2>1, MoveNotes DEF NextRow
<1>4. QED BY <1>1, <1>2, <1>3

\* No process runs at first.
LEMMA DriverInit == ArmInit => DriverIInv
<1>1. ArmInit => DriverTypeOK
  BY FreshExec DEF ArmInit, DriverTypeOK, Everywhere
<1>2. ArmInit => LockHeld /\ MotionOwned
  BY DEF ArmInit, LockHeld, MotionOwned, Driving, InGate
<1>3. QED BY <1>1, <1>2 DEF DriverIInv

\* A step of the driving process that commands nothing and stays on the way
\* to its stop keeps the invariant.
LEMMA DrivesOn ==
  ASSUME DriverIInv, NEW p \in Procs, NEW s \in Driving \ {"idle", "closing"},
         proc[p] \in Driving, GoTo(p, s), UNCHANGED <<lock, command, excused>>,
         exec'.hasPublished = exec.hasPublished, DriverTypeOK'
  PROVE  DriverIInv'
<1> USE DEF DriverIInv
<1>1. LockHeld'
  BY DEF GoTo, DriverTypeOK, LockHeld
<1>2. MotionOwned'
  BY DEF GoTo, DriverTypeOK, MotionOwned
<1>3. QED BY <1>1, <1>2

\* A command that moves the arm is given by a process that will stop it.
LEMMA Moves ==
  ASSUME DriverIInv, NEW p \in Procs, NEW s \in Driving \ {"idle", "closing"},
         proc[p] \in Driving, GoTo(p, s), UNCHANGED lock,
         command' = "motion", excused' = FALSE, exec'.hasPublished = TRUE, DriverTypeOK'
  PROVE  DriverIInv'
  BY DEF DriverIInv, GoTo, DriverTypeOK, Everywhere, LockHeld, MotionOwned

\* The types.
LEMMA DriverTypes == DriverTypeOK /\ [ArmNext]_armVars => DriverTypeOK'
<1> SUFFICES ASSUME DriverTypeOK, [ArmNext]_armVars PROVE DriverTypeOK'
  OBVIOUS
<1> USE DEF At, Gate, executorVars, DriverTypeOK, GoTo, LeavesGate
<1>1. ASSUME NEW p \in Procs,
             \/ Construct(p) \/ AcquireLock(p) \/ CheckPublishers(p) \/ Refuse(p)
             \/ TakeSnapshot(p) \/ ReadArmed(p) \/ Decide(p) \/ Raise(p)
      PROVE  DriverTypeOK'
  BY <1>1 DEF Construct, AcquireLock, CheckPublishers, Refuse, TakeSnapshot, ReadArmed, Decide,
              Raise, GoOn, Everywhere, Driving, InGate
<1>2. ASSUME NEW p \in Procs, Destroy(p) \/ Unlock(p) \/ Die(p)
      PROVE  DriverTypeOK'
  <2>1. exec' = exec \/ exec' = Fresh
    BY <1>2 DEF Destroy, Unlock, Die, Gone
  <2>2. exec' \in ExecType
    BY <2>1, FreshExec
  <2>3. lock' \in Procs \cup {Free} /\ command' = command
        /\ (excused' = excused \/ excused' = (excused \/ command = "motion"))
    BY <1>2 DEF Destroy, Unlock, Die, Released
  <2>4. proc' \in [Procs -> Everywhere]
    BY <1>2 DEF Destroy, Unlock, Die, Everywhere
  <2>5. QED BY <2>2, <2>3, <2>4
<1>3. ASSUME NEW p \in Procs, Reset(p) \/ FirstRow(p) \/ NextRow(p)
      PROVE  DriverTypeOK'
  BY <1>3, RowsNote DEF Reset, FirstRow, NextRow, Move, Everywhere, Driving, InGate
<1>4. ASSUME NEW p \in Procs, NEW k \in Skills, BeginStage(p, k)
      PROVE  DriverTypeOK'
  <2>1. exec' \in ExecType
    <3>1. 0 \in Int
      OBVIOUS
    <3>2. QED BY <1>4, <3>1, StagedExec, Zenon DEF BeginStage
  <2>2. QED BY <1>4, <2>1 DEF BeginStage, Everywhere, Driving
<1>5. ASSUME NEW p \in Procs, Stop(p)
      PROVE  DriverTypeOK'
  <2>1. exec' \in ExecType
    <3>1. (exec.hasPublished /\ ~NeedsHold) \in BOOLEAN
      OBVIOUS
    <3>2. QED BY <1>5, <3>1, StoppedExec DEF Stop
  <2>2. proc' \in [Procs -> Everywhere] /\ lock' = lock
    BY <1>5 DEF Stop, Everywhere, Driving
  <2>3. command' \in {"none", "motion", "hold"} /\ excused' \in BOOLEAN
    BY <1>5 DEF Stop, Hold
  <2>4. QED BY <2>1, <2>2, <2>3
<1>6. ASSUME NEW p \in Procs, StopFails(p)
      PROVE  DriverTypeOK'
  BY <1>6 DEF StopFails, Hold, Everywhere, Driving
<1>7. CASE Receive \/ UpdateGate \/ UNCHANGED armVars
  BY <1>7 DEF Receive, UpdateGate, armVars
<1>8. QED BY <1>1, <1>2, <1>3, <1>4, <1>5, <1>6, <1>7 DEF ArmNext

\* Every step keeps the invariant.
LEMMA DriverStep == DriverIInv /\ [ArmNext]_armVars => DriverIInv'
<1> SUFFICES ASSUME DriverIInv, [ArmNext]_armVars PROVE DriverIInv'
  OBVIOUS
<1> USE DEF At, Gate, executorVars
<1>0. DriverTypeOK /\ DriverTypeOK'
  BY DriverTypes DEF DriverIInv
<1>1. ASSUME NEW p \in Procs,
             Construct(p) \/ AcquireLock(p) \/ CheckPublishers(p) \/ Refuse(p)
      PROVE  DriverIInv'
  BY <1>1, <1>0 DEF Construct, AcquireLock, LockIsFree, CheckPublishers, Refuse, GoTo, DriverIInv,
              DriverTypeOK, LockHeld, MotionOwned, Driving, InGate
<1>2. ASSUME NEW p \in Procs, Destroy(p) \/ Unlock(p) \/ Die(p)
      PROVE  DriverIInv'
  <2> USE DEF GoTo, DriverIInv, DriverTypeOK, Driving, InGate
  <2>1. LockHeld'
    BY <1>2, <1>0 DEF Destroy, Unlock, Die, Released, LockHeld
  <2>2. CASE Destroy(p)
    <3>1. CASE proc[p] \in Driving
      <4>1. \A q \in Procs \ {p} : proc[q] \notin Driving
        BY <3>1 DEF LockHeld
      <4>2. command # "motion" \/ excused
        BY <4>1, <2>2 DEF Destroy, MotionOwned
      <4>3. QED BY <2>2, <4>2, <2>1, <1>0 DEF Destroy, MotionOwned
    <3>2. CASE proc[p] \notin Driving
      BY <2>2, <3>2, <2>1, <1>0 DEF Destroy, MotionOwned
    <3>3. QED BY <3>1, <3>2
  <2>3. CASE Unlock(p)
    BY <2>3, <2>1, <1>0 DEF Unlock, MotionOwned
  <2>4. CASE Die(p)
    <3>1. CASE proc[p] \in Driving
      BY <2>4, <3>1, <2>1, <1>0 DEF Die, MotionOwned
    <3>2. CASE proc[p] \notin Driving
      BY <2>4, <3>2, <2>1, <1>0 DEF Die, MotionOwned
    <3>3. QED BY <3>1, <3>2
  <2>5. QED BY <1>2, <2>2, <2>3, <2>4
<1>3. ASSUME NEW p \in Procs, Reset(p) \/ FirstRow(p) \/ NextRow(p)
      PROVE  DriverIInv'
  <2>1. PICK s \in {"ready", "raised", "snapshot"} : GoTo(p, s)
    BY <1>3 DEF Reset, FirstRow, NextRow
  <2>2. exec'.hasPublished = TRUE
    BY <1>3, <1>0, RowsNote DEF DriverTypeOK
  <2>3. proc[p] \in Driving /\ s \in Driving \ {"idle", "closing"}
    BY <1>3 DEF Reset, FirstRow, NextRow, Driving, InGate
  <2>4. QED BY <1>3, <1>0, <2>1, <2>2, <2>3, Moves DEF Reset, FirstRow, NextRow, Move
<1>4. ASSUME NEW p \in Procs,
             \/ Raise(p) \/ TakeSnapshot(p) \/ ReadArmed(p) \/ Decide(p)
             \/ \E k \in Skills : BeginStage(p, k)
      PROVE  DriverIInv'
  <2>1. PICK s \in {"raised", "staged", "row", "armed", "decide", "rest"} : GoTo(p, s)
    BY <1>4 DEF Raise, TakeSnapshot, ReadArmed, Decide, BeginStage, GoOn
  <2>2. proc[p] \in Driving /\ s \in Driving \ {"idle", "closing"}
    BY <1>4 DEF Raise, TakeSnapshot, ReadArmed, Decide, BeginStage, Driving, InGate
  <2>3. UNCHANGED <<lock, command, excused>>
    BY <1>4 DEF Raise, TakeSnapshot, ReadArmed, Decide, BeginStage
  <2>4. exec'.hasPublished = exec.hasPublished
    <3>1. CASE \E k \in Skills : BeginStage(p, k)
      <4>1. 0 \in Int
        OBVIOUS
      <4>2. exec \in ExecType
        BY <1>0 DEF DriverTypeOK
      <4>3. QED BY <3>1, <4>1, <4>2, StagedExec, Zenon DEF BeginStage
    <3>2. CASE ~(\E k \in Skills : BeginStage(p, k))
      BY <1>4, <3>2 DEF Raise, TakeSnapshot, ReadArmed, Decide
    <3>3. QED BY <3>1, <3>2
  <2>5. QED BY <1>0, <2>1, <2>2, <2>3, <2>4, DrivesOn
<1>5. ASSUME NEW p \in Procs, Stop(p) \/ StopFails(p)
      PROVE  DriverIInv'
  <2>1. proc[p] \in {"rest", "raised"} /\ lock' = lock
    BY <1>5 DEF Stop, StopFails, Stopping
  <2>2. PICK s \in {"idle", "closing", "raised"} : GoTo(p, s)
    BY <1>5 DEF Stop, StopFails
  <2>3. command' # "motion" \/ excused'
    <3>1. command = "motion" /\ ~excused => exec.hasPublished
      BY DEF DriverIInv, MotionOwned
    <3>2. QED BY <1>5, <3>1 DEF Stop, StopFails, Hold, NeedsHold
  <2>4. QED
    BY <1>0, <2>1, <2>2, <2>3 DEF GoTo, DriverIInv, DriverTypeOK, LockHeld,
       MotionOwned, Driving, InGate
<1>6. CASE Receive \/ UpdateGate \/ UNCHANGED armVars
  BY <1>6 DEF Receive, UpdateGate, armVars, DriverIInv, DriverTypeOK, LockHeld, MotionOwned
<1>7. QED BY <1>1, <1>2, <1>3, <1>4, <1>5, <1>6 DEF ArmNext

\* The invariant holds of every behaviour.
THEOREM DriverInvariantHolds == ArmSpec => []DriverIInv
  BY DriverInit, DriverStep, PTL DEF ArmSpec

\* S-003: two processes never drive at the same time, however many start and
\* whatever the search for other publishers misses (_acquire_action_lock).
THEOREM AlwaysOneDriver == ArmSpec => []OneDriver
<1>1. DriverIInv => OneDriver
  BY DEF DriverIInv, LockHeld, OneDriver
<1>2. QED BY <1>1, DriverInvariantHolds, PTL

\* S-015: at the end of a stage, and when the lock is free for the next
\* process, the arm holds, or a stop is known to have failed (stop, close).
THEOREM AlwaysLeftHolding == ArmSpec => []LeftHolding
<1>1. DriverIInv => LeftHolding
  BY DEF DriverIInv, DriverTypeOK, LockHeld, MotionOwned, LeftHolding, At, Driving, InGate
<1>2. QED BY <1>1, DriverInvariantHolds, PTL
-----------------------------------------------------------------------------
\* The round trip.  First what the gate's operators on samples return.

\* A set of natural numbers has a least element.
LEMMA LeastNatural ==
  ASSUME NEW T \in SUBSET Nat, T # {}
  PROVE  \E x \in T : \A y \in T : x <= y
<1> DEFINE R == {ss \in Nat \X Nat : ss[1] < ss[2]}
<1>1. OpToRel(<, Nat) = R
  BY DEF OpToRel
<1>2. IsWellFoundedOn(R, Nat)
  BY <1>1, NatLessThanWellFounded, Zenon
<1>3. PICK x \in T : \A y \in T : ~ (<<y, x>> \in R)
  <2> HIDE DEF R
  <2>1. QED BY <1>2, WFMin, Zenon
<1>4. ASSUME NEW y \in T PROVE x <= y
  <2>1. <<y, x>> \in Nat \X Nat
    OBVIOUS
  <2>2. ~(y < x)
    BY <1>3, <2>1
  <2>3. QED BY <2>2
<1>5. QED BY <1>4

\* A finite set of integers has a largest and a smallest element.
LEMMA FiniteLargest ==
  ASSUME NEW S \in SUBSET Int, S # {}, IsFiniteSet(S)
  PROVE  \E x \in S : \A y \in S : y <= x
<1> DEFINE Above(x) == {y \in S : y > x}
           C == {Cardinality(Above(x)) : x \in S}
<1>1. \A x \in S : IsFiniteSet(Above(x)) /\ Cardinality(Above(x)) \in Nat
  BY FS_Subset, FS_CardinalityType
<1>2. C \in SUBSET Nat /\ C # {}
  BY <1>1
<1>3. PICK c \in C : \A d \in C : c <= d
  <2> HIDE DEF C
  <2>2. QED BY <1>2, LeastNatural
<1>4. PICK x \in S : c = Cardinality(Above(x))
  OBVIOUS
<1> HIDE DEF C
<1>5. ASSUME NEW y \in S PROVE y <= x
  <2> SUFFICES ASSUME y > x PROVE FALSE
    OBVIOUS
  <2>0. ASSUME NEW z \in S, z > y PROVE z > x
    <3>1. x \in Int /\ y \in Int /\ z \in Int
      OBVIOUS
    <3>2. QED BY <2>0, <3>1
  <2>1. y \in Int
    OBVIOUS
  <2>2. Above(y) \subseteq Above(x) /\ y \in Above(x) /\ y \notin Above(y)
    <3>1. \A z \in Above(y) : z \in Above(x)
      BY <2>0
    <3>2. y \in Above(x)
      OBVIOUS
    <3>3. ~(y > y)
      BY <2>1
    <3>4. QED BY <3>1, <3>2, <3>3
  <2>3. Cardinality(Above(y)) <= Cardinality(Above(x))
        /\ (Cardinality(Above(y)) = Cardinality(Above(x)) => Above(y) = Above(x))
    <3> HIDE DEF Above
    <3>1. QED BY <1>1, <2>2, FS_Subset
  <2>4. Cardinality(Above(y)) < Cardinality(Above(x))
    BY <1>1, <2>2, <2>3
  <2>5. Cardinality(Above(y)) \in C
    BY DEF C
  <2>6. QED
    <3> HIDE DEF Above
    <3>1. QED BY <1>1, <1>3, <1>4, <2>4, <2>5
<1>6. QED BY <1>5

LEMMA FiniteSmallest ==
  ASSUME NEW S \in SUBSET Int, S # {}, IsFiniteSet(S)
  PROVE  \E x \in S : \A y \in S : x <= y
<1> DEFINE N == {-x : x \in S}
<1>1. N \in SUBSET Int /\ N # {}
  <2>1. \A x \in S : -x \in Int
    OBVIOUS
  <2>2. N \subseteq Int
    BY <2>1, Zenon
  <2>3. N # {}
    BY Zenon
  <2>4. QED BY <2>2, <2>3
<1>2. IsFiniteSet(N)
  <2>1. [x \in S |-> -x] \in Surjection(S, N)
    BY DEF Surjection
  <2>2. QED BY <2>1, FS_Surjection, Zenon
<1>3. PICK n \in N : \A m \in N : m <= n
  <2> HIDE DEF N
  <2>1. QED BY <1>1, <1>2, FiniteLargest
<1>4. PICK x \in S : n = -x
  OBVIOUS
<1>5. ASSUME NEW y \in S PROVE x <= y
  <2>1. -y \in N
    OBVIOUS
  <2>2. -y <= -x /\ x \in Int /\ y \in Int
    BY <1>3, <1>4, <2>1
  <2>3. QED BY <2>2
<1>6. QED BY <1>5

\* The largest window exists: the deque has a length.
LEMMA MaximumWindowType ==
  ASSUME Skills # {}
  PROVE  MaximumWindow \in Nat \ {0}
<1> DEFINE W == {Profiles[k].window_samples : k \in Skills}
<1>1. \A k \in Skills : Profiles[k].window_samples \in Nat \ {0}
  BY GateAssumption DEF JointGateProfile
<1>2. W \in SUBSET Int /\ W # {} /\ W \subseteq Nat \ {0}
  BY <1>1
<1>3. IsFiniteSet(W)
  <2>1. [k \in Skills |-> Profiles[k].window_samples] \in Surjection(Skills, W)
    BY DEF Surjection
  <2>2. QED BY <2>1, GateAssumption, FS_Surjection, Zenon
<1>4. \E n \in W : \A m \in W : m <= n
  <2> HIDE DEF W
  <2>1. QED BY <1>2, <1>3, FiniteLargest
<1>5. \E n \in W : \A k \in Skills : Profiles[k].window_samples <= n
  BY <1>4
<1>6. MaximumWindow \in W
  BY <1>5 DEF MaximumWindow
<1>7. QED BY <1>2, <1>6

\* The n-th smallest sample of a window exists, and is a sample of it.
LEMMA SmallestIsSample ==
  ASSUME NEW w \in Seq(Int), NEW n \in 1 .. Len(w)
  PROVE  Smallest(w, n) \in {w[i] : i \in DOMAIN w}
<1> DEFINE D == DOMAIN w
           V == {w[i] : i \in D}
           UpTo(p) == {i \in D : w[i] <= p}
           Under(p) == {i \in D : w[i] < p}
           T == {p \in V : Cardinality(UpTo(p)) >= n}
<1>1. D = 1 .. Len(w) /\ Len(w) \in Nat /\ IsFiniteSet(D) /\ Cardinality(D) = Len(w)
  BY FS_Interval
<1>2. \A i \in D : w[i] \in Int
  OBVIOUS
<1>3. V \in SUBSET Int /\ V # {} /\ IsFiniteSet(V)
  <2>1. [i \in D |-> w[i]] \in Surjection(D, V)
    BY DEF Surjection
  <2>2. IsFiniteSet(V)
    BY <1>1, <2>1, FS_Surjection, Zenon
  <2>3. 1 \in D
    BY <1>1
  <2>4. QED BY <1>2, <2>2, <2>3
<1>4. \A p : UpTo(p) \in SUBSET D /\ Under(p) \in SUBSET D
  OBVIOUS
<1>5. T # {}
  <2>1. PICK m \in V : \A v \in V : v <= m
    <3> HIDE DEF V
    <3>1. QED BY <1>3, FiniteLargest
  <2>2. UpTo(m) = D
    BY <2>1
  <2>3. Cardinality(UpTo(m)) >= n
    <3> HIDE DEF UpTo, D
    <3>1. QED BY <1>1, <2>2
  <2>4. QED BY <2>1, <2>3
<1>6. T \in SUBSET Int /\ IsFiniteSet(T)
  <2> HIDE DEF V
  <2>1. T \in SUBSET V
    OBVIOUS
  <2>2. QED BY <1>3, <2>1, FS_Subset
<1>7. PICK p \in T : \A q \in T : p <= q
  <2> HIDE DEF T
  <2>1. QED BY <1>5, <1>6, FiniteSmallest
<1>8. Cardinality(Under(p)) < n
  <2>1. CASE Under(p) = {}
    <3>1. Cardinality(Under(p)) = 0
      BY <2>1, FS_EmptySet
    <3>2. QED BY <3>1
  <2>2. CASE Under(p) # {}
    <3> DEFINE U == {w[i] : i \in Under(p)}
    <3>1. U \subseteq V /\ U # {}
      BY <2>2
    <3>2. U \in SUBSET Int /\ IsFiniteSet(U)
      <4> HIDE DEF U, V
      <4>1. QED BY <3>1, <1>3, FS_Subset
    <3>3. PICK q \in U : \A u \in U : u <= q
      <4> HIDE DEF U
      <4>1. QED BY <3>1, <3>2, FiniteLargest
    <3>4. q < p /\ q \in V /\ q \in Int /\ p \in Int
      BY <1>6, <3>1, <3>2
    <3>5. UpTo(q) = Under(p)
      <4>1. ASSUME NEW i \in D, w[i] <= q PROVE w[i] < p
        BY <4>1, <1>2, <3>4
      <4>2. ASSUME NEW i \in D, w[i] < p PROVE w[i] <= q
        <5>1. w[i] \in U
          BY <4>2
        <5>2. QED BY <5>1, <3>3
      <4>3. QED BY <4>1, <4>2
    <3>6. q \notin T
      <4> HIDE DEF T
      <4>1. QED BY <1>7, <3>4
    <3>7. ~(Cardinality(UpTo(q)) >= n)
      BY <3>4, <3>6
    <3>8. Cardinality(Under(p)) \in Nat
      BY <1>1, <1>4, FS_Subset, FS_CardinalityType
    <3>9. QED
      <4> HIDE DEF UpTo, Under
      <4>1. QED BY <3>5, <3>7, <3>8
  <2>3. QED BY <2>1, <2>2
<1>9. p \in V /\ Cardinality(UpTo(p)) >= n
  OBVIOUS
<1>10. QED BY <1>8, <1>9 DEF Smallest

\* A number within s of two others, whose mean is within r of t, is within
\* r + s of t.
LEMMA NearTheMedian ==
  ASSUME NEW m \in Int, NEW v \in Int, NEW a \in Int, NEW b \in Int, NEW t \in Int,
         NEW r \in Int, NEW s \in Int, m = a + b, Abs(m - 2 * t) <= 2 * r,
         v - a <= s, a - v <= s, v - b <= s, b - v <= s
  PROVE  Abs(v - t) <= r + s
<1>1. m - 2 * t <= 2 * r /\ 2 * t - m <= 2 * r
  BY Z3 DEF Abs
<1>2. v - t <= r + s /\ t - v <= r + s
  <2>1. 2 * v <= m + 2 * s /\ m <= 2 * v + 2 * s
    BY Z3
  <2>2. QED BY <1>1, <2>1, Z3
<1>3. QED BY <1>2, Z3 DEF Abs

\* A window that passes is at one target, every sample of it.
LEMMA PassingWindow ==
  ASSUME NEW k \in Skills, NEW w \in Seq(Int), Len(w) > 0, WindowPasses(k, w)
  PROVE  \E t \in Profiles[k].targets : \A i \in DOMAIN w :
            Abs(w[i] - t) <= Profiles[k].tolerance + Profiles[k].max_spread
<1>1. /\ Profiles[k].tolerance \in Nat /\ Profiles[k].max_spread \in Nat
      /\ Profiles[k].targets \subseteq Int
  BY GateAssumption DEF JointGateProfile
<1>2. /\ Smallest(w, (Len(w) + 1) \div 2) \in {w[i] : i \in DOMAIN w}
      /\ Smallest(w, Len(w) \div 2 + 1) \in {w[i] : i \in DOMAIN w}
  <2>1. (Len(w) + 1) \div 2 \in 1 .. Len(w) /\ Len(w) \div 2 + 1 \in 1 .. Len(w)
    <3>1. Len(w) \in Nat /\ Len(w) >= 1
      OBVIOUS
    <3> HIDE DEF WindowPasses
    <3>2. QED BY <3>1, Z3
  <2>2. QED BY <2>1, SmallestIsSample
<1>3. PICK a \in DOMAIN w, b \in DOMAIN w : TwiceMedian(w) = w[a] + w[b]
  BY <1>2 DEF TwiceMedian
<1>4. PICK t \in Profiles[k].targets :
         Abs(TwiceMedian(w) - 2 * t) <= 2 * Profiles[k].tolerance
  BY DEF WindowPasses
<1>5. ASSUME NEW i \in DOMAIN w
      PROVE  Abs(w[i] - t) <= Profiles[k].tolerance + Profiles[k].max_spread
  <2>1. /\ w[i] \in Int /\ w[a] \in Int /\ w[b] \in Int /\ t \in Int
    BY <1>1
  <2>2. /\ w[i] - w[a] <= Profiles[k].max_spread /\ w[a] - w[i] <= Profiles[k].max_spread
        /\ w[i] - w[b] <= Profiles[k].max_spread /\ w[b] - w[i] <= Profiles[k].max_spread
    BY DEF WindowPasses
  <2>3. TwiceMedian(w) \in Int
    BY <1>3, <2>1
  <2>4. Profiles[k].tolerance \in Int /\ Profiles[k].max_spread \in Int
    BY <1>1
  <2>5. QED BY <1>3, <1>4, <2>1, <2>2, <2>3, <2>4, NearTheMedian, Zenon
<1>6. QED BY <1>5

-----------------------------------------------------------------------------
\* The inductive invariant of the round trip.

InStage  == {"staged", "row", "rest"} \cup InGate
HoldsView == {"armed", "decide", "rest"}

\* The numbers of samples that arrived one after the other.
Consecutive(s) == \A i \in 1 .. Len(s) - 1 : s[i + 1] = s[i] + 1

\* The deque holds the latest samples, up to the last; the view held some.
SamplesInOrder ==
    /\ seen \in Seq(Int) /\ Len(seen) <= MaxSamples
    /\ gate \in [skill : Skills \cup {NoSkill}, departed : BOOLEAN,
                 armed : BOOLEAN, samples : Seq(1 .. Len(seen))]
    /\ Consecutive(gate.samples)
    /\ gate.samples # <<>> => gate.samples[Len(gate.samples)] = Len(seen)
    /\ view \in Seq(1 .. Len(seen)) /\ Consecutive(view)
    /\ callback \in {<<>>} \cup {<<m>> : m \in JointMessage}

\* A chunk is begun only when all of its rows are within the budget.
WithinStage ==
    /\ exec.rows \in 0 .. ActionSteps /\ exec.left \in 0 .. ChunkRows - 1
    /\ \A p \in Procs :
          /\ proc[p] \in InGate \cup {"row"} => exec.rows + exec.left <= ActionSteps
          /\ At(p, "row") => exec.left > 0

\* The gate is asked about the stage it was begun for; a view is held only
\* inside reached_result and until the stop that follows it; and what the
\* sections found of the gate's flags stays so to the end.
ViewOfStage ==
    /\ view # <<>> => \E p \in Procs : proc[p] \in HoldsView
    /\ \A p \in Procs :
          /\ proc[p] \in InStage => exec.skill \in Skills /\ gate.skill = exec.skill
          /\ proc[p] \in {"armed", "decide"} => view # <<>>
          /\ proc[p] \in HoldsView => Len(view) <= Profiles[exec.skill].window_samples
          /\ proc[p] \in {"decide", "rest"} => gate.armed
          /\ At(p, "rest") => gate.departed

\* The gate is armed by a sample it has seen.
ArmedBySample ==
    gate.armed => \E i \in DOMAIN seen : IsArming(gate.skill, seen[i])

\* Every sample kept or viewed since the departure is no older than a sample
\* away from every target.
AwaySince(d) == /\ ~TargetIsNear(gate.skill, seen[d])
                /\ \A i \in DOMAIN gate.samples : d <= gate.samples[i]
                /\ \A i \in DOMAIN view : d <= view[i]
DepartedBefore == gate.departed => \E d \in DOMAIN seen : AwaySince(d)

\* The window that was accepted is still what it was.
StableWindow(k) ==
    /\ Len(view) >= Profiles[k].window_samples
    /\ \E t \in Profiles[k].targets : \A i \in DOMAIN view :
          Abs(seen[view[i]] - t) <= Profiles[k].tolerance + Profiles[k].max_spread
    /\ exec.rows >= Profiles[k].min_publish_step
RestAccepted == \A p \in Procs : At(p, "rest") => StableWindow(exec.skill)

GateIInv      == SamplesInOrder /\ ArmedBySample /\ DepartedBefore
StageIInv     == WithinStage /\ ViewOfStage /\ RestAccepted
RoundTripIInv == GateIInv /\ StageIInv

\* The fields of the gate after each of its assignments.
GateRec(S) == [skill : Skills \cup {NoSkill}, departed : BOOLEAN,
               armed : BOOLEAN, samples : Seq(S)]

LEMMA NewGateFields ==
  ASSUME NEW S
  PROVE  /\ NewGate \in GateRec(S) /\ NewGate.skill = NoSkill
         /\ NewGate.departed = FALSE /\ NewGate.armed = FALSE /\ NewGate.samples = <<>>
<1>1. <<>> \in Seq(S)
  OBVIOUS
<1>2. QED BY <1>1 DEF NewGate, GateRec

LEMMA BegunGateFields ==
  ASSUME NEW k \in Skills, NEW S, NEW g, g = [NewGate EXCEPT !.skill = k]
  PROVE  /\ g \in GateRec(S) /\ g.skill = k
         /\ g.departed = FALSE /\ g.armed = FALSE /\ g.samples = <<>>
  BY NewGateFields DEF GateRec

LEMMA DepartedGateFields ==
  ASSUME NEW S, NEW h \in GateRec(S), NEW s \in Seq(S),
         NEW g, g = [h EXCEPT !.departed = TRUE, !.samples = s]
  PROVE  /\ g \in GateRec(S) /\ g.skill = h.skill
         /\ g.departed = TRUE /\ g.armed = h.armed /\ g.samples = s
  BY DEF GateRec

\* The end of a sequence keeps its order and its last element.
LEMMA LastOfIsEnd ==
  ASSUME NEW S, NEW s \in Seq(S), NEW n \in Nat \ {0}
  PROVE  /\ LastOf(s, n) \in Seq(S)
         /\ Len(LastOf(s, n)) <= n
         /\ Len(LastOf(s, n)) <= Len(s)
         /\ s # <<>> => LastOf(s, n) # <<>>
         /\ \A i \in 1 .. Len(LastOf(s, n)) :
               LastOf(s, n)[i] = s[i + (Len(s) - Len(LastOf(s, n)))]
<1>1. CASE Len(s) <= n
  <2>1. LastOf(s, n) = s
    BY <1>1 DEF LastOf
  <2>2. QED BY <1>1, <2>1
<1>2. CASE Len(s) > n
  <2>1. LastOf(s, n) = SubSeq(s, Len(s) - n + 1, Len(s))
    BY <1>2 DEF LastOf
  <2>2. Len(s) \in Nat /\ Len(s) - n + 1 \in 1 .. Len(s)
    BY <1>2
  <2>3. /\ LastOf(s, n) \in Seq(S)
        /\ Len(LastOf(s, n)) = n
        /\ \A i \in 1 .. n : LastOf(s, n)[i] = s[Len(s) - n + 1 + i - 1]
    BY <2>1, <2>2
  <2>4. QED BY <1>2, <2>2, <2>3
<1>3. QED BY <1>1, <1>2

LEMMA LastOfInOrder ==
  ASSUME NEW m \in Nat, NEW s \in Seq(1 .. m), NEW n \in Nat \ {0}, Consecutive(s)
  PROVE  /\ Consecutive(LastOf(s, n))
         /\ s # <<>> => LastOf(s, n)[Len(LastOf(s, n))] = s[Len(s)]
         /\ \A d \in Nat : (\A i \in DOMAIN s : d <= s[i]) =>
                               \A i \in DOMAIN LastOf(s, n) : d <= LastOf(s, n)[i]
<1> DEFINE l == LastOf(s, n)
           o == Len(s) - Len(l)
<1>1. /\ l \in Seq(1 .. m) /\ Len(l) <= Len(s) /\ (s # <<>> => l # <<>>)
      /\ \A i \in 1 .. Len(l) : l[i] = s[i + o]
  BY LastOfIsEnd
<1>2. o \in Nat /\ Len(l) \in Nat /\ Len(s) \in Nat /\ DOMAIN l = 1 .. Len(l)
      /\ DOMAIN s = 1 .. Len(s) /\ Len(l) + o = Len(s)
  <2> HIDE DEF l
  <2>1. QED BY <1>1
<1> HIDE DEF l, o
<1>3. Consecutive(l)
  <2> SUFFICES ASSUME NEW i \in 1 .. Len(l) - 1 PROVE l[i + 1] = l[i] + 1
    BY DEF Consecutive
  <2>1. i + o \in 1 .. Len(s) - 1 /\ i + 1 \in 1 .. Len(l) /\ i \in 1 .. Len(l)
        /\ (i + 1) + o = (i + o) + 1
    BY <1>2
  <2>2. s[(i + o) + 1] = s[i + o] + 1
    BY <2>1 DEF Consecutive
  <2>3. l[i + 1] = s[(i + 1) + o] /\ l[i] = s[i + o]
    BY <1>1, <2>1
  <2>4. QED BY <2>1, <2>2, <2>3
<1>4. ASSUME s # <<>> PROVE l[Len(l)] = s[Len(s)]
  <2>1. Len(l) \in 1 .. Len(l)
    BY <1>1, <1>2, <1>4
  <2>2. Len(l) + o = Len(s)
    BY <1>2
  <2>3. l[Len(l)] = s[Len(l) + o]
    BY <1>1, <2>1
  <2>4. QED BY <2>2, <2>3
<1>5. ASSUME NEW d \in Nat, \A i \in DOMAIN s : d <= s[i], NEW i \in DOMAIN l
      PROVE  d <= l[i]
  <2>1. i + o \in DOMAIN s /\ i \in 1 .. Len(l)
    BY <1>2
  <2>2. QED BY <1>1, <1>5, <2>1
<1>6. QED BY <1>3, <1>4, <1>5 DEF l

\* What a step may do to the gate, by the section of the code that does it.
GateStep ==
    \/ UNCHANGED gateVars
    \/ view' = <<>> /\ UNCHANGED <<gate, seen>>
    \/ gate' = NewGate /\ view' = <<>> /\ seen' = <<>>
    \/ \E p \in Procs : proc[p] \in {"idle", "ready"} /\ \E k \in Skills : GateBegin(k)
    \/ \E p \in Procs : At(p, "snapshot") /\ GateSnapshot(exec.skill)
    \/ \E p \in Procs : At(p, "decide") /\ GateJudgesDeparture(exec.skill)
    \/ UpdateGate

LEMMA GateSteps ==
  ASSUME callback \in {<<>>} \cup {<<m>> : m \in JointMessage}, [ArmNext]_armVars
  PROVE  /\ GateStep
         /\ callback' \in {<<>>} \cup {<<m>> : m \in JointMessage}
<1> USE DEF GateStep, Gate, LeavesGate, executorVars
<1>1. ASSUME NEW p \in Procs,
             \/ Construct(p) \/ AcquireLock(p) \/ CheckPublishers(p) \/ Refuse(p)
             \/ Unlock(p) \/ Reset(p) \/ FirstRow(p) \/ NextRow(p)
      PROVE  GateStep /\ callback' = callback
  BY <1>1 DEF Construct, AcquireLock, CheckPublishers, Refuse, Unlock, Reset, FirstRow, NextRow
<1>2. ASSUME NEW p \in Procs, Destroy(p) \/ Die(p)
      PROVE  GateStep /\ (callback' = callback \/ callback' = <<>>)
  BY <1>2 DEF Destroy, Die, Gone
<1>3. ASSUME NEW p \in Procs, Raise(p) \/ ReadArmed(p) \/ Stop(p) \/ StopFails(p)
      PROVE  GateStep /\ callback' = callback
  BY <1>3 DEF Raise, ReadArmed, Stop, StopFails
<1>4. ASSUME NEW p \in Procs, TakeSnapshot(p) \/ Decide(p)
      PROVE  GateStep /\ callback' = callback
  BY <1>4 DEF TakeSnapshot, Decide
<1>5. ASSUME NEW p \in Procs, NEW k \in Skills, BeginStage(p, k)
      PROVE  GateStep /\ callback' = callback
  BY <1>5 DEF BeginStage
<1>6. CASE Receive
  BY <1>6 DEF Receive
<1>7. CASE UpdateGate
  BY <1>7 DEF UpdateGate
<1>8. CASE UNCHANGED armVars
  BY <1>8 DEF armVars
<1>9. QED BY <1>1, <1>2, <1>3, <1>4, <1>5, <1>6, <1>7, <1>8 DEF ArmNext

\* Only one process drives.
LEMMA DrivesAlone ==
  ASSUME DriverIInv, NEW p \in Procs, proc[p] \in Driving
  PROVE  \A q \in Procs : q # p => proc[q] \notin Driving
  BY DEF DriverIInv, LockHeld

\* begin finds no view: reached_result is over.
LEMMA NoViewAtBegin ==
  ASSUME DriverIInv, ViewOfStage, NEW p \in Procs, proc[p] \in {"idle", "ready"}
  PROVE  view = <<>>
<1>1. \A q \in Procs : proc[q] \notin HoldsView
  BY DrivesAlone DEF Driving, InGate, HoldsView
<1>2. QED BY <1>1 DEF ViewOfStage

\* A sample of the arm's own skill: its effect on the gate.
Arrived == /\ gate.skill \in Skills
           /\ view' = view
           /\ \E x \in Int :
                 /\ seen' = Append(seen, x)
                 /\ gate'.armed = (gate.armed \/ IsArming(gate.skill, x))
           /\ gate'.skill = gate.skill /\ gate'.departed = gate.departed
           /\ gate' \in GateRec(1 .. Len(seen) + 1)
           /\ gate'.samples = LastOf(Append(gate.samples, Len(seen) + 1), MaximumWindow)

LEMMA Arrives ==
  ASSUME SamplesInOrder, UpdateGate
  PROVE  UNCHANGED gateVars \/ (Arrived /\ Len(seen) < MaxSamples)
<1>1. PICK m \in JointMessage : callback = <<m>>
  BY DEF UpdateGate, SamplesInOrder
<1>2. m.pos \in Int
  BY DEF JointMessage
<1>3. GateUpdate(m.arm, m.pos) /\ Len(seen) < MaxSamples
  BY <1>1 DEF UpdateGate
<1>4. gate \in GateRec(1 .. Len(seen))
  BY DEF SamplesInOrder, GateRec
<1>5. CASE gate.skill = NoSkill \/ Profiles[gate.skill].arm # m.arm
  BY <1>3, <1>5 DEF GateUpdate, gateVars
<1>6. CASE gate.skill # NoSkill /\ Profiles[gate.skill].arm = m.arm
  <2> DEFINE s == LastOf(Append(gate.samples, Len(seen) + 1), MaximumWindow)
             b == gate.armed \/ IsArming(gate.skill, m.pos)
  <2>1. gate.skill \in Skills
    BY <1>4, <1>6 DEF GateRec
  <2>2. /\ seen' = Append(seen, m.pos) /\ view' = view
        /\ gate' = [gate EXCEPT !.samples = s, !.armed = b]
    BY <1>3, <1>6 DEF GateUpdate
  <2>3. MaximumWindow \in Nat \ {0}
    BY <2>1, MaximumWindowType
  <2>4. Append(gate.samples, Len(seen) + 1) \in Seq(1 .. Len(seen) + 1)
    <3>1. gate.samples \in Seq(1 .. Len(seen)) /\ Len(seen) \in Nat
      BY <1>4 DEF GateRec, SamplesInOrder
    <3>2. 1 .. Len(seen) \subseteq 1 .. Len(seen) + 1
      BY <3>1
    <3>3. gate.samples \in Seq(1 .. Len(seen) + 1)
      BY <3>1, <3>2
    <3>4. QED BY <3>1, <3>3
  <2>5. s \in Seq(1 .. Len(seen) + 1)
    BY <2>3, <2>4, LastOfIsEnd
  <2>6. b \in BOOLEAN
    <3>1. gate.armed \in BOOLEAN
      BY <1>4 DEF GateRec
    <3>2. QED BY <3>1 DEF IsArming
  <2> HIDE DEF s, b
  <2>7. /\ gate' \in GateRec(1 .. Len(seen) + 1) /\ gate'.skill = gate.skill
        /\ gate'.departed = gate.departed /\ gate'.armed = b /\ gate'.samples = s
    BY <1>4, <2>2, <2>5, <2>6 DEF GateRec
  <2>8. QED BY <1>2, <1>3, <2>1, <2>2, <2>7 DEF Arrived, s, b
<1>7. QED BY <1>5, <1>6

\* A sample arrives: it follows those kept, and takes nothing back.
LEMMA ArrivalKeepsGate ==
  ASSUME GateIInv, Arrived, Len(seen) < MaxSamples
  PROVE  /\ Len(seen') <= MaxSamples /\ seen' \in Seq(Int)
         /\ gate' \in GateRec(1 .. Len(seen'))
         /\ Consecutive(gate'.samples)
         /\ gate'.samples # <<>> => gate'.samples[Len(gate'.samples)] = Len(seen')
         /\ view' \in Seq(1 .. Len(seen')) /\ Consecutive(view')
         /\ ArmedBySample' /\ DepartedBefore'
<1> DEFINE n == Len(seen)
           a == Append(gate.samples, n + 1)
           l == LastOf(a, MaximumWindow)
<1>1. /\ gate.samples \in Seq(1 .. n) /\ Consecutive(gate.samples)
      /\ gate.samples # <<>> => gate.samples[Len(gate.samples)] = n
      /\ view \in Seq(1 .. n) /\ Consecutive(view)
      /\ seen \in Seq(Int) /\ n \in Nat
  BY DEF GateIInv, SamplesInOrder
<1>2. PICK x \in Int : /\ seen' = Append(seen, x)
                       /\ gate'.armed = (gate.armed \/ IsArming(gate.skill, x))
  BY DEF Arrived
<1>3. /\ view' = view /\ gate'.skill = gate.skill /\ gate'.departed = gate.departed
      /\ gate' \in GateRec(1 .. n + 1) /\ gate'.samples = l
      /\ gate.skill \in Skills
  BY DEF Arrived
<1>4. /\ Len(seen') = n + 1 /\ seen' \in Seq(Int) /\ DOMAIN seen = 1 .. n
      /\ DOMAIN seen' = 1 .. n + 1 /\ seen'[n + 1] = x
      /\ \A i \in 1 .. n : seen'[i] = seen[i]
  BY <1>1, <1>2
<1>5. /\ a \in Seq(1 .. n + 1) /\ Len(a) = Len(gate.samples) + 1 /\ a # <<>>
      /\ a[Len(a)] = n + 1 /\ \A i \in 1 .. Len(gate.samples) : a[i] = gate.samples[i]
      /\ DOMAIN a = 1 .. Len(a) /\ Len(gate.samples) \in Nat
  <2>1. gate.samples \in Seq(1 .. n + 1) /\ n + 1 \in 1 .. n + 1
    <3>1. 1 .. n \subseteq 1 .. n + 1
      BY <1>1
    <3>2. QED BY <1>1, <3>1
  <2>2. QED BY <2>1
<1>6. view \in Seq(1 .. n + 1)
  <2>1. 1 .. n \subseteq 1 .. n + 1
    BY <1>1
  <2>2. QED BY <1>1, <2>1
<1>7. MaximumWindow \in Nat \ {0}
  BY <1>3, MaximumWindowType
<1> HIDE DEF a, n
<1>8. Consecutive(a)
  <2> SUFFICES ASSUME NEW i \in 1 .. Len(a) - 1 PROVE a[i + 1] = a[i] + 1
    BY DEF Consecutive
  <2>1. i \in 1 .. Len(gate.samples)
    BY <1>5
  <2>2. CASE i < Len(gate.samples)
    <3>1. i \in 1 .. Len(gate.samples) - 1 /\ i + 1 \in 1 .. Len(gate.samples)
      BY <1>5, <2>1, <2>2
    <3>2. gate.samples[i + 1] = gate.samples[i] + 1
      BY <1>1, <3>1 DEF Consecutive
    <3>3. QED BY <1>5, <2>1, <3>1, <3>2
  <2>3. CASE i = Len(gate.samples)
    <3>1. gate.samples # <<>>
      BY <2>1, <2>3
    <3>2. a[i] = n /\ i + 1 = Len(a)
      BY <1>1, <1>5, <2>1, <2>3, <3>1
    <3>3. QED BY <1>5, <3>2
  <2>4. QED BY <1>5, <2>1, <2>2, <2>3
<1>9. /\ Consecutive(l) /\ l[Len(l)] = n + 1
      /\ \A d \in Nat : (\A i \in DOMAIN a : d <= a[i]) => \A i \in DOMAIN l : d <= l[i]
  <2>1. n + 1 \in Nat
    BY <1>1
  <2>2. QED BY <1>5, <1>7, <1>8, <2>1, LastOfInOrder
<1> HIDE DEF l
<1>10. ArmedBySample'
  <2> SUFFICES ASSUME gate'.armed
               PROVE  \E i \in DOMAIN seen' : IsArming(gate'.skill, seen'[i])
    BY DEF ArmedBySample
  <2>1. CASE IsArming(gate.skill, x)
    <3>1. n + 1 \in DOMAIN seen' /\ IsArming(gate'.skill, seen'[n + 1])
      BY <1>1, <1>3, <1>4, <2>1
    <3>2. QED BY <3>1
  <2>2. CASE gate.armed
    <3>1. PICK i \in DOMAIN seen : IsArming(gate.skill, seen[i])
      BY <2>2 DEF GateIInv, ArmedBySample
    <3>2. i \in DOMAIN seen' /\ seen'[i] = seen[i]
      BY <1>1, <1>4
    <3>3. QED BY <1>3, <3>1, <3>2
  <2>3. QED BY <1>2, <2>1, <2>2
<1>11. DepartedBefore'
  <2> SUFFICES ASSUME gate'.departed PROVE \E d \in DOMAIN seen' : AwaySince(d)'
    BY DEF DepartedBefore
  <2>1. PICK d \in DOMAIN seen : AwaySince(d)
    BY <1>3 DEF GateIInv, DepartedBefore
  <2>2. d \in DOMAIN seen' /\ seen'[d] = seen[d] /\ d \in Nat /\ d <= n
    BY <1>1, <1>4
  <2>3. \A i \in DOMAIN a : d <= a[i]
    <3> SUFFICES ASSUME NEW i \in DOMAIN a PROVE d <= a[i]
      OBVIOUS
    <3>1. CASE i = Len(a)
      BY <1>1, <1>5, <2>2, <3>1
    <3>2. CASE i # Len(a)
      <4>1. i \in 1 .. Len(gate.samples)
        BY <1>5, <3>2
      <4>2. i \in DOMAIN gate.samples
        BY <1>1, <4>1
      <4>3. QED BY <1>5, <2>1, <4>1, <4>2 DEF AwaySince
    <3>3. QED BY <3>1, <3>2
  <2>4. \A i \in DOMAIN l : d <= l[i]
    BY <1>9, <2>2, <2>3
  <2>5. AwaySince(d)'
    BY <1>3, <2>1, <2>2, <2>4 DEF AwaySince
  <2>6. QED BY <2>2, <2>5
<1>12. n < MaxSamples /\ MaxSamples \in Nat
  BY GateAssumption DEF n
<1>13. QED BY <1>1, <1>3, <1>4, <1>6, <1>9, <1>10, <1>11, <1>12

\* The three sections of reached_result, and begin, keep the gate's part.
LEMMA SnapshotKeepsGate ==
  ASSUME GateIInv, exec.skill \in Skills, GateSnapshot(exec.skill)
  PROVE  /\ view' \in Seq(1 .. Len(seen')) /\ Consecutive(view')
         /\ ArmedBySample' /\ DepartedBefore'
         /\ Len(view') <= Profiles[exec.skill].window_samples
<1> DEFINE k == exec.skill
           n == Profiles[k].window_samples
           l == LastOf(gate.samples, n)
<1>1. /\ gate.samples \in Seq(1 .. Len(seen)) /\ Consecutive(gate.samples)
      /\ Len(seen) \in Nat /\ n \in Nat \ {0}
  BY GateAssumption DEF GateIInv, SamplesInOrder, JointGateProfile
<1>2. /\ l \in Seq(1 .. Len(seen)) /\ Len(l) <= n /\ Consecutive(l)
      /\ \A d \in Nat : (\A i \in DOMAIN gate.samples : d <= gate.samples[i]) =>
                            \A i \in DOMAIN l : d <= l[i]
  <2> HIDE DEF n
  <2>1. QED BY <1>1, LastOfIsEnd, LastOfInOrder
<1>3. gate' = gate /\ seen' = seen /\ (view' = <<>> \/ view' = l)
  BY DEF GateSnapshot, Snapshot
<1> HIDE DEF l, n
<1>4. view' \in Seq(1 .. Len(seen')) /\ Consecutive(view') /\ Len(view') <= n
  <2>1. <<>> \in Seq(1 .. Len(seen)) /\ Consecutive(<<>>) /\ Len(<<>>) <= n
    BY <1>1 DEF Consecutive
  <2>2. QED BY <1>2, <1>3, <2>1
<1>5. ArmedBySample'
  BY <1>3 DEF GateIInv, ArmedBySample
<1>6. DepartedBefore'
  <2> SUFFICES ASSUME gate.departed PROVE \E d \in DOMAIN seen : AwaySince(d)'
    BY <1>3 DEF DepartedBefore
  <2>1. PICK d \in DOMAIN seen : AwaySince(d)
    BY DEF GateIInv, DepartedBefore
  <2>2. d \in Nat
    BY DEF GateIInv, SamplesInOrder
  <2>3. \A i \in DOMAIN view' : d <= view'[i]
    BY <1>2, <1>3, <2>1, <2>2 DEF AwaySince
  <2>4. QED BY <1>3, <2>1, <2>3 DEF AwaySince
<1>7. QED BY <1>4, <1>5, <1>6 DEF n

LEMMA DepartureKeepsGate ==
  ASSUME GateIInv, GateJudgesDeparture(exec.skill), gate.skill = exec.skill, view # <<>>
  PROVE  /\ gate' \in GateRec(1 .. Len(seen)) /\ gate'.skill = gate.skill
         /\ gate'.armed = gate.armed
         /\ Consecutive(gate'.samples)
         /\ gate'.samples # <<>> => gate'.samples[Len(gate'.samples)] = Len(seen)
         /\ ArmedBySample' /\ DepartedBefore'
<1> DEFINE l == LastOf(gate.samples, 1)
<1>1. /\ gate \in GateRec(1 .. Len(seen)) /\ gate.samples \in Seq(1 .. Len(seen))
      /\ Consecutive(gate.samples) /\ Len(seen) \in Nat
      /\ gate.samples # <<>> => gate.samples[Len(gate.samples)] = Len(seen)
      /\ view \in Seq(1 .. Len(seen)) /\ DOMAIN seen = 1 .. Len(seen)
  BY DEF GateIInv, SamplesInOrder, GateRec
<1>2. seen' = seen /\ view' = <<>> /\ ~gate.departed
  BY DEF GateJudgesDeparture
<1>3. PICK d : d = view[Len(view)]
  OBVIOUS
<1>4. CASE gate' = gate
  BY <1>1, <1>2, <1>4 DEF GateIInv, ArmedBySample, DepartedBefore
<1>5. CASE ~TargetIsNear(exec.skill, seen[d]) /\ gate' = Departed
  <2>1. /\ l \in Seq(1 .. Len(seen)) /\ Len(l) <= 1 /\ Consecutive(l)
        /\ gate.samples # <<>> => l # <<>> /\ l[Len(l)] = gate.samples[Len(gate.samples)]
        /\ gate.samples = <<>> => l = <<>>
    <3>1. 1 \in Nat \ {0}
      OBVIOUS
    <3>2. gate.samples = <<>> => l = <<>>
      BY DEF LastOf
    <3>3. QED BY <1>1, <3>1, <3>2, LastOfIsEnd, LastOfInOrder
  <2> HIDE DEF l
  <2>2. gate' = [gate EXCEPT !.departed = TRUE, !.samples = l]
    BY <1>5 DEF Departed, l
  <2>3. /\ gate' \in GateRec(1 .. Len(seen)) /\ gate'.skill = gate.skill
        /\ gate'.departed = TRUE /\ gate'.armed = gate.armed /\ gate'.samples = l
    BY <1>1, <2>1, <2>2 DEF GateRec
  <2>4. d \in 1 .. Len(seen)
    BY <1>1, <1>3
  <2>5. ASSUME NEW i \in DOMAIN l PROVE d <= l[i]
    <3>1. DOMAIN l = 1 .. Len(l) /\ Len(l) \in Nat
      BY <2>1
    <3>2. i = 1 /\ Len(l) = 1 /\ l # <<>>
      BY <2>1, <3>1
    <3>3. gate.samples # <<>>
      BY <2>1, <3>2
    <3>4. l[i] = Len(seen)
      BY <1>1, <2>1, <3>2, <3>3
    <3>5. QED BY <1>1, <2>4, <3>4
  <2>6. AwaySince(d)'
    <3>1. ~TargetIsNear(gate'.skill, seen'[d])
      BY <1>2, <1>5, <2>3
    <3>2. \A i \in DOMAIN view' : d <= view'[i]
      BY <1>2
    <3>3. QED BY <1>2, <2>3, <2>5, <3>1, <3>2 DEF AwaySince
  <2>7. QED BY <1>1, <1>2, <2>1, <2>3, <2>4, <2>6 DEF GateIInv, ArmedBySample, DepartedBefore
<1>6. QED BY <1>4, <1>5, <1>3 DEF GateJudgesDeparture

\* Every step keeps the gate's part of the invariant.
LEMMA GateKept ==
  ASSUME DriverIInv, RoundTripIInv, [ArmNext]_armVars
  PROVE  GateIInv'
<1> USE DEF RoundTripIInv, StageIInv
<1>1. GateStep /\ callback' \in {<<>>} \cup {<<m>> : m \in JointMessage}
  BY GateSteps DEF GateIInv, SamplesInOrder
<1>2. <<>> \in Seq(Int) /\ Len(<<>>) = 0 /\ Consecutive(<<>>)
  BY DEF Consecutive
<1>3. MaxSamples \in Nat
  BY GateAssumption
<1>4. CASE UNCHANGED gateVars
  BY <1>1, <1>4 DEF GateIInv, SamplesInOrder, ArmedBySample, DepartedBefore, AwaySince, gateVars
<1>5. CASE view' = <<>> /\ UNCHANGED <<gate, seen>>
  <2>1. view' \in Seq(1 .. Len(seen'))
    BY <1>5
  <2>2. SamplesInOrder' /\ ArmedBySample'
    BY <1>1, <1>2, <1>5, <2>1 DEF GateIInv, SamplesInOrder, ArmedBySample
  <2>3. DepartedBefore'
    BY <1>5 DEF GateIInv, DepartedBefore, AwaySince
  <2>4. QED BY <2>2, <2>3 DEF GateIInv
<1>6. ASSUME gate'.samples = <<>>, gate'.armed = FALSE, gate'.departed = FALSE,
             gate' \in GateRec(1 .. Len(seen')), view' = <<>>, seen' = <<>>
      PROVE  GateIInv'
  <2>1. <<>> \in Seq(1 .. Len(seen'))
    OBVIOUS
  <2>2. SamplesInOrder'
    BY <1>1, <1>2, <1>3, <1>6, <2>1 DEF SamplesInOrder, GateRec
  <2>3. QED BY <1>6, <2>2 DEF GateIInv, ArmedBySample, DepartedBefore
<1>7. CASE gate' = NewGate /\ view' = <<>> /\ seen' = <<>>
  BY <1>6, <1>7, NewGateFields
<1>8. ASSUME NEW p \in Procs, proc[p] \in {"idle", "ready"}, NEW k \in Skills, GateBegin(k)
      PROVE  GateIInv'
  <2>1. view = <<>>
    BY <1>8, NoViewAtBegin
  <2>2. gate' = [NewGate EXCEPT !.skill = k] /\ seen' = <<>> /\ view' = <<>>
    BY <1>8, <2>1 DEF GateBegin
  <2>3. /\ gate'.samples = <<>> /\ gate'.armed = FALSE /\ gate'.departed = FALSE
        /\ gate' \in GateRec(1 .. Len(seen'))
    BY <2>2, BegunGateFields
  <2>4. QED BY <1>6, <2>2, <2>3
<1>9. ASSUME NEW p \in Procs, At(p, "snapshot"), GateSnapshot(exec.skill)
      PROVE  GateIInv'
  <2>1. exec.skill \in Skills
    BY <1>9 DEF ViewOfStage, InStage, InGate, At
  <2>2. gate' = gate /\ seen' = seen
    BY <1>9 DEF GateSnapshot
  <2>3. /\ view' \in Seq(1 .. Len(seen')) /\ Consecutive(view')
        /\ ArmedBySample' /\ DepartedBefore'
    BY <1>9, <2>1, SnapshotKeepsGate
  <2>4. QED BY <1>1, <2>2, <2>3 DEF GateIInv, SamplesInOrder
<1>10. ASSUME NEW p \in Procs, At(p, "decide"), GateJudgesDeparture(exec.skill)
       PROVE  GateIInv'
  <2>1. gate.skill = exec.skill /\ view # <<>>
    BY <1>10 DEF ViewOfStage, InStage, InGate, At
  <2>2. view' = <<>> /\ seen' = seen
    BY <1>10 DEF GateJudgesDeparture
  <2>3. /\ gate' \in GateRec(1 .. Len(seen)) /\ Consecutive(gate'.samples)
        /\ gate'.samples # <<>> => gate'.samples[Len(gate'.samples)] = Len(seen)
        /\ ArmedBySample' /\ DepartedBefore'
    BY <1>10, <2>1, DepartureKeepsGate
  <2>4. view' \in Seq(1 .. Len(seen))
    BY <2>2
  <2>5. SamplesInOrder'
    BY <1>1, <1>2, <2>2, <2>3, <2>4 DEF GateIInv, SamplesInOrder, GateRec
  <2>6. QED BY <2>3, <2>5 DEF GateIInv
<1>11. CASE UpdateGate
  <2>1. CASE UNCHANGED gateVars
    BY <1>4, <2>1
  <2>2. CASE Arrived /\ Len(seen) < MaxSamples
    BY <1>1, <2>2, ArrivalKeepsGate DEF GateIInv, SamplesInOrder, GateRec
  <2>3. QED BY <1>11, <2>1, <2>2, Arrives DEF GateIInv
<1>12. QED BY <1>1, <1>4, <1>5, <1>7, <1>8, <1>9, <1>10, <1>11 DEF GateStep

-----------------------------------------------------------------------------
\* The stage's part.  The executor's fields after its assignments.
LEMMA RowsCounted ==
  ASSUME exec \in ExecType, NEW p \in Procs
  PROVE  /\ Reset(p) => /\ exec'.rows = exec.rows /\ exec'.left = exec.left
         /\ FirstRow(p) => /\ exec'.rows = exec.rows + 1 /\ exec'.left = ChunkRows - 1
                           /\ exec'.skill = exec.skill
         /\ NextRow(p) => /\ exec'.rows = exec.rows + 1 /\ exec'.left = exec.left - 1
                          /\ exec'.skill = exec.skill
<1>1. ASSUME Reset(p) PROVE exec'.rows = exec.rows /\ exec'.left = exec.left
  <2>1. exec' = [exec EXCEPT !.hasPublished = TRUE]
    BY <1>1 DEF Reset, Move
  <2>2. QED BY <2>1 DEF ExecType
<1>2. ASSUME FirstRow(p)
      PROVE  /\ exec'.rows = exec.rows + 1 /\ exec'.left = ChunkRows - 1
             /\ exec'.skill = exec.skill
  <2>1. exec' = [[exec EXCEPT !.rows = @ + 1, !.left = ChunkRows - 1]
                    EXCEPT !.hasPublished = TRUE]
    BY <1>2 DEF FirstRow, Move
  <2>2. QED BY <2>1 DEF ExecType
<1>3. ASSUME NextRow(p)
      PROVE  /\ exec'.rows = exec.rows + 1 /\ exec'.left = exec.left - 1
             /\ exec'.skill = exec.skill
  <2>1. exec' = [[exec EXCEPT !.rows = @ + 1, !.left = @ - 1] EXCEPT !.hasPublished = TRUE]
    BY <1>3 DEF NextRow, Move
  <2>2. QED BY <2>1 DEF ExecType
<1>4. QED BY <1>1, <1>2, <1>3

\* Nobody is in a stage: nothing is left to show but the counters.
LEMMA NobodyInStage ==
  ASSUME exec'.rows \in 0 .. ActionSteps, exec'.left \in 0 .. ChunkRows - 1,
         view' = <<>>, \A q \in Procs : proc'[q] \notin InStage
  PROVE  StageIInv'
  BY DEF StageIInv, WithinStage, ViewOfStage, RestAccepted, At, InStage, InGate, HoldsView

\* The driving process leaves the stage, or was in none.
LEMMA LeavesStage ==
  ASSUME DriverIInv, NEW p \in Procs, NEW s, s \notin InStage, GoTo(p, s),
         proc[p] \in Driving, view' = <<>>,
         exec'.rows \in 0 .. ActionSteps, exec'.left \in 0 .. ChunkRows - 1
  PROVE  StageIInv'
<1>1. \A q \in Procs : proc'[q] \notin InStage
  BY DrivesAlone DEF GoTo, DriverIInv, DriverTypeOK, InStage, InGate, Driving
<1>2. QED BY <1>1, NobodyInStage

\* The driving process goes on in its stage.
LEMMA StaysInStage ==
  ASSUME DriverIInv, NEW p \in Procs, NEW s \in InStage, GoTo(p, s),
         proc[p] \in Driving,
         exec'.rows \in 0 .. ActionSteps, exec'.left \in 0 .. ChunkRows - 1,
         s \in InGate \cup {"row"} => exec'.rows + exec'.left <= ActionSteps,
         s = "row" => exec'.left > 0,
         exec'.skill \in Skills, gate'.skill = exec'.skill,
         view' # <<>> => s \in HoldsView,
         s \in {"armed", "decide"} => view' # <<>>,
         s \in HoldsView => Len(view') <= Profiles[exec'.skill].window_samples,
         s \in {"decide", "rest"} => gate'.armed,
         s = "rest" => gate'.departed /\ StableWindow(exec.skill)'
  PROVE  StageIInv'
<1>1. proc'[p] = s /\ \A q \in Procs : q # p => proc'[q] \notin InStage
  BY DrivesAlone DEF GoTo, DriverIInv, DriverTypeOK, InStage, InGate, Driving
<1>2. InGate \cup {"row"} \subseteq InStage /\ HoldsView \subseteq InStage
  BY DEF InStage, InGate, HoldsView
<1>3. WithinStage'
  BY <1>1, <1>2 DEF WithinStage, At, InStage
<1>4. ViewOfStage'
  BY <1>1, <1>2 DEF ViewOfStage, At, InStage, InGate
<1>5. RestAccepted'
  BY <1>1 DEF RestAccepted, At, InStage
<1>6. QED BY <1>3, <1>4, <1>5 DEF StageIInv

\* Another process moves, outside of any stage.
LEMMA ElsewhereKeepsStage ==
  ASSUME DriverIInv, StageIInv, NEW p \in Procs, NEW s, s \notin InStage, GoTo(p, s),
         proc[p] \notin InStage, UNCHANGED <<gateVars, exec>>
  PROVE  StageIInv'
<1>1. \A q \in Procs : proc'[q] \in InStage => proc'[q] = proc[q]
  BY DEF GoTo, DriverIInv, DriverTypeOK
<1>2. \A q \in Procs : proc[q] \in InStage => proc'[q] = proc[q]
  BY DEF GoTo, DriverIInv, DriverTypeOK
<1>3. InGate \cup {"row"} \subseteq InStage /\ HoldsView \subseteq InStage
  BY DEF InStage, InGate, HoldsView
<1>4. gate' = gate /\ view' = view /\ seen' = seen /\ exec' = exec
  BY DEF gateVars
<1>5. WithinStage'
  BY <1>1, <1>3, <1>4 DEF StageIInv, WithinStage, At, InStage
<1>6. ViewOfStage'
  <2>1. view' # <<>> => \E q \in Procs : proc'[q] \in HoldsView
    BY <1>2, <1>3, <1>4 DEF StageIInv, ViewOfStage
  <2>2. ASSUME NEW q \in Procs
        PROVE  /\ proc'[q] \in InStage => exec'.skill \in Skills /\ gate'.skill = exec'.skill
               /\ proc'[q] \in {"armed", "decide"} => view' # <<>>
               /\ proc'[q] \in HoldsView =>
                     Len(view') <= Profiles[exec'.skill].window_samples
               /\ proc'[q] \in {"decide", "rest"} => gate'.armed
               /\ proc'[q] = "rest" => gate'.departed
    BY <1>1, <1>3, <1>4 DEF StageIInv, ViewOfStage, At, InStage, InGate
  <2>3. QED BY <2>1, <2>2 DEF ViewOfStage, At
<1>7. RestAccepted'
  BY <1>1, <1>4 DEF StageIInv, RestAccepted, StableWindow, At, InStage
<1>8. QED BY <1>5, <1>6, <1>7 DEF StageIInv

\* A new sample does not undo what was found of the viewed ones.
LEMMA ArrivalKeepsStage ==
  ASSUME RoundTripIInv, Arrived, UNCHANGED <<proc, exec>>
  PROVE  StageIInv'
<1> USE DEF RoundTripIInv, StageIInv
<1>1. PICK x \in Int : /\ seen' = Append(seen, x)
                       /\ gate'.armed = (gate.armed \/ IsArming(gate.skill, x))
  BY DEF Arrived
<1>2. view' = view /\ gate'.skill = gate.skill /\ gate'.departed = gate.departed
  BY DEF Arrived
<1>3. WithinStage'
  BY DEF WithinStage, At
<1>4. ViewOfStage'
  BY <1>1, <1>2 DEF ViewOfStage, At
<1>5. RestAccepted'
  <2>1. \A i \in DOMAIN view : seen'[view[i]] = seen[view[i]]
    <3>1. view \in Seq(1 .. Len(seen)) /\ seen \in Seq(Int)
      BY DEF GateIInv, SamplesInOrder
    <3>2. \A j \in 1 .. Len(seen) : seen'[j] = seen[j]
      BY <1>1, <3>1
    <3>3. \A i \in DOMAIN view : view[i] \in 1 .. Len(seen)
      BY <3>1
    <3>4. QED BY <3>2, <3>3
  <2>2. \A k : StableWindow(k) =>
          /\ Len(view') >= Profiles[k].window_samples
          /\ exec'.rows >= Profiles[k].min_publish_step
          /\ \E t \in Profiles[k].targets : \A i \in DOMAIN view' :
                Abs(seen'[view'[i]] - t) <= Profiles[k].tolerance + Profiles[k].max_spread
    BY <1>2, <2>1 DEF StableWindow
  <2>3. QED BY <2>2 DEF RestAccepted, StableWindow, At
<1>6. QED BY <1>3, <1>4, <1>5

\* Joint rest: the window passed.
LEMMA RestIsStable ==
  ASSUME GateIInv, exec.skill \in Skills, Reached(exec.skill, exec.rows),
         UNCHANGED <<gateVars, exec>>
  PROVE  gate.departed /\ StableWindow(exec.skill)'
<1> DEFINE k == exec.skill
           w == [i \in DOMAIN view |-> seen[view[i]]]
<1>1. /\ view \in Seq(1 .. Len(seen)) /\ seen \in Seq(Int)
      /\ Profiles[k].window_samples \in Nat \ {0}
  BY GateAssumption DEF GateIInv, SamplesInOrder, JointGateProfile
<1>2. w \in Seq(Int) /\ Len(w) = Len(view) /\ DOMAIN w = DOMAIN view
  <2>1. Len(view) \in Nat /\ DOMAIN view = 1 .. Len(view)
    BY <1>1
  <2>2. \A i \in 1 .. Len(view) : seen[view[i]] \in Int
    BY <1>1
  <2>3. w \in [1 .. Len(view) -> Int]
    BY <2>1, <2>2
  <2>4. QED BY <2>1, <2>3
<1>3. /\ gate.departed /\ exec.rows >= Profiles[k].min_publish_step
      /\ Len(view) >= Profiles[k].window_samples /\ WindowPasses(k, w)
  BY DEF Reached
<1>4. Len(w) > 0
  BY <1>1, <1>2, <1>3
<1>5. \E t \in Profiles[k].targets : \A i \in DOMAIN w :
         Abs(w[i] - t) <= Profiles[k].tolerance + Profiles[k].max_spread
  <2> HIDE DEF w
  <2>1. QED BY <1>2, <1>3, <1>4, PassingWindow
<1>6. gate' = gate /\ view' = view /\ seen' = seen /\ exec' = exec
  BY DEF gateVars
<1>7. QED BY <1>2, <1>3, <1>5, <1>6 DEF StableWindow

\* Every step keeps the stage's part of the invariant.
LEMMA StageKept ==
  ASSUME DriverIInv, RoundTripIInv, [ArmNext]_armVars
  PROVE  StageIInv'
<1> USE DEF At, Gate, executorVars
<1>0. /\ proc \in [Procs -> Everywhere] /\ exec \in ExecType
      /\ exec.rows \in 0 .. ActionSteps /\ exec.left \in 0 .. ChunkRows - 1
      /\ StageIInv /\ GateIInv
  BY DEF DriverIInv, DriverTypeOK, RoundTripIInv, StageIInv, WithinStage
<1>1. ASSUME NEW p \in Procs,
             \/ Construct(p) \/ AcquireLock(p) \/ CheckPublishers(p) \/ Refuse(p) \/ Unlock(p)
             \/ proc[p] \notin Driving /\ (Destroy(p) \/ Die(p))
      PROVE  StageIInv'
  <2>1. PICK s \in {"built", "locked", "refused", "idle", "destroyed", "off"} : GoTo(p, s)
    BY <1>1 DEF Construct, AcquireLock, CheckPublishers, Refuse, Unlock, Destroy, Die
  <2>2. UNCHANGED <<gateVars, exec>>
    BY <1>1 DEF Construct, AcquireLock, CheckPublishers, Refuse, Unlock, Destroy, Die, gateVars
  <2>3. proc[p] \notin InStage /\ s \notin InStage
    BY <1>1 DEF Construct, AcquireLock, CheckPublishers, Refuse, Unlock, InStage, InGate, Driving
  <2>4. QED BY <1>0, <2>1, <2>2, <2>3, ElsewhereKeepsStage
<1>2. ASSUME NEW p \in Procs, proc[p] \in Driving, Destroy(p) \/ Die(p)
      PROVE  StageIInv'
  <2>1. PICK s \in {"destroyed", "off"} : GoTo(p, s)
    BY <1>2 DEF Destroy, Die
  <2>2. exec' = Fresh /\ view' = <<>>
    BY <1>2 DEF Destroy, Die, Gone
  <2>3. exec'.rows \in 0 .. ActionSteps /\ exec'.left \in 0 .. ChunkRows - 1
    BY <2>2 DEF Fresh
  <2>4. s \notin InStage
    BY DEF InStage, InGate
  <2>5. QED BY <1>2, <2>1, <2>2, <2>3, <2>4, LeavesStage
<1>3. ASSUME NEW p \in Procs, Raise(p) \/ Stop(p) \/ StopFails(p) \/ Reset(p)
      PROVE  StageIInv'
  <2>1. PICK s \in {"raised", "idle", "closing", "ready"} : GoTo(p, s)
    BY <1>3 DEF Raise, Stop, StopFails, Reset
  <2>2. view' = <<>>
    <3>1. CASE Reset(p)
      BY <1>0, <3>1, NoViewAtBegin DEF Reset, StageIInv, gateVars
    <3>2. CASE Raise(p) \/ Stop(p) \/ StopFails(p)
      BY <3>2 DEF Raise, Stop, StopFails, LeavesGate
    <3>3. QED BY <1>3, <3>1, <3>2
  <2>3. exec'.rows = exec.rows /\ exec'.left = exec.left
    <3>1. CASE Reset(p)
      BY <1>0, <3>1, RowsCounted
    <3>2. CASE Raise(p) \/ StopFails(p)
      BY <3>2 DEF Raise, StopFails
    <3>3. CASE Stop(p)
      <4>1. exec' = [exec EXCEPT !.skill = NoSkill, !.hasPublished = @ /\ ~NeedsHold]
        BY <3>3 DEF Stop
      <4>2. QED BY <1>0, <4>1 DEF ExecType
    <3>4. QED BY <1>3, <3>1, <3>2, <3>3
  <2>4. proc[p] \in Driving /\ s \notin InStage
    BY <1>3 DEF Raise, Stop, StopFails, Stopping, Reset, Driving, InGate, InStage
  <2>5. QED BY <1>0, <2>1, <2>2, <2>3, <2>4, LeavesStage
<1>4. ASSUME NEW p \in Procs, NEW k \in Skills, BeginStage(p, k)
      PROVE  StageIInv'
  <2>1. GoTo(p, "staged") /\ proc[p] \in {"idle", "ready"} /\ GateBegin(k)
    BY <1>4 DEF BeginStage
  <2>2. exec'.skill = k /\ exec'.rows = 0 /\ exec'.left = exec.left
    BY <1>0, <1>4 DEF BeginStage, ExecType
  <2>3. gate'.skill = k
    BY <2>1, BegunGateFields DEF GateBegin
  <2>4. view' = <<>>
    BY <1>0, <2>1, NoViewAtBegin DEF GateBegin, StageIInv
  <2>5. proc[p] \in Driving /\ "staged" \in InStage /\ "staged" \notin InGate \cup HoldsView
    BY <2>1 DEF Driving, InStage, InGate, HoldsView
  <2>6. exec'.rows \in 0 .. ActionSteps /\ exec'.left \in 0 .. ChunkRows - 1
    BY <1>0, <2>2
  <2>7. QED
    BY <2>1, <2>2, <2>3, <2>4, <2>5, <2>6, StaysInStage
<1>5. ASSUME NEW p \in Procs, FirstRow(p) \/ NextRow(p)
      PROVE  StageIInv'
  <2>1. GoTo(p, "snapshot") /\ UNCHANGED gateVars /\ proc[p] \in {"staged", "row"}
    BY <1>5 DEF FirstRow, NextRow, gateVars
  <2>2. /\ exec'.skill = exec.skill
        /\ exec'.rows \in 0 .. ActionSteps /\ exec'.left \in 0 .. ChunkRows - 1
        /\ exec'.rows + exec'.left <= ActionSteps
    <3>1. CASE FirstRow(p)
      <4>1. exec.rows + ChunkRows <= ActionSteps
        BY <3>1 DEF FirstRow, WithinBudget
      <4>2. QED BY <1>0, <3>1, <4>1, RowsCounted
    <3>2. CASE NextRow(p)
      <4>1. exec.left > 0 /\ exec.rows + exec.left <= ActionSteps
        BY <1>0, <3>2 DEF NextRow, StageIInv, WithinStage
      <4>2. QED BY <1>0, <3>2, <4>1, RowsCounted
    <3>3. QED BY <1>5, <3>1, <3>2
  <2>3. proc[p] \in Driving /\ proc[p] \in InStage /\ "snapshot" \in InStage
    BY <2>1 DEF Driving, InStage, InGate
  <2>4. exec.skill \in Skills /\ gate.skill = exec.skill
    BY <1>0, <2>3 DEF StageIInv, ViewOfStage
  <2>5. view = <<>>
    <3>1. \A q \in Procs : proc[q] \notin HoldsView
      BY <2>1, <2>3, DrivesAlone DEF Driving, InGate, HoldsView
    <3>2. QED BY <1>0, <3>1 DEF StageIInv, ViewOfStage
  <2>6. "snapshot" \notin HoldsView
    BY DEF HoldsView
  <2>7. view' = <<>> /\ gate'.skill = exec'.skill /\ exec'.skill \in Skills
    BY <2>1, <2>2, <2>4, <2>5 DEF gateVars
  <2>8. QED BY <2>1, <2>2, <2>3, <2>6, <2>7, StaysInStage
<1>6. ASSUME NEW p \in Procs, proc[p] \in InGate, UNCHANGED exec, GoOn(p),
             view' = <<>>, gate'.skill = gate.skill
      PROVE  StageIInv'
  <2>1. PICK s \in {"row", "staged"} : GoTo(p, s) /\ (s = "row" => exec.left > 0)
    BY <1>6 DEF GoOn
  <2>2. /\ proc[p] \in Driving /\ proc[p] \in InStage /\ s \in InStage
        /\ s \notin InGate /\ s \notin HoldsView
    BY <1>6 DEF Driving, InStage, InGate, HoldsView
  <2>3. /\ exec.skill \in Skills /\ gate.skill = exec.skill
        /\ exec.rows + exec.left <= ActionSteps
    BY <1>0, <1>6, <2>2 DEF StageIInv, ViewOfStage, WithinStage
  <2>4. QED BY <1>0, <1>6, <2>1, <2>2, <2>3, StaysInStage
<1>7. ASSUME NEW p \in Procs, TakeSnapshot(p)
      PROVE  StageIInv'
  <2>1. /\ proc[p] \in InGate /\ proc[p] \in InStage /\ proc[p] \in Driving
        /\ "armed" \in InStage /\ "armed" \in InGate /\ "armed" \in HoldsView
    BY <1>7 DEF TakeSnapshot, InGate, InStage, Driving, HoldsView
  <2>2. /\ exec.skill \in Skills /\ gate.skill = exec.skill
        /\ exec.rows + exec.left <= ActionSteps
    BY <1>0, <2>1 DEF StageIInv, ViewOfStage, WithinStage
  <2>3. GateSnapshot(exec.skill) /\ exec' = exec /\ gate' = gate
    BY <1>7 DEF TakeSnapshot, GateSnapshot
  <2>4. Len(view') <= Profiles[exec.skill].window_samples
    BY <1>0, <2>2, <2>3, SnapshotKeepsGate
  <2>5. CASE view' = <<>>
    BY <1>6, <1>7, <2>1, <2>3, <2>5 DEF TakeSnapshot
  <2>6. CASE view' # <<>> /\ GoTo(p, "armed")
    BY <1>0, <2>1, <2>2, <2>3, <2>4, <2>6, StaysInStage
  <2>7. QED BY <1>7, <2>5, <2>6 DEF TakeSnapshot
<1>8. ASSUME NEW p \in Procs, ReadArmed(p)
      PROVE  StageIInv'
  <2>1. /\ proc[p] \in InGate /\ proc[p] \in InStage /\ proc[p] \in Driving
        /\ proc[p] \in HoldsView
        /\ "decide" \in InStage /\ "decide" \in InGate /\ "decide" \in HoldsView
    BY <1>8 DEF ReadArmed, InGate, InStage, Driving, HoldsView
  <2>2. /\ exec.skill \in Skills /\ gate.skill = exec.skill
        /\ exec.rows + exec.left <= ActionSteps
        /\ view # <<>> /\ Len(view) <= Profiles[exec.skill].window_samples
    BY <1>0, <1>8, <2>1 DEF StageIInv, ViewOfStage, WithinStage, ReadArmed
  <2>3. CASE ~gate.armed
    BY <1>6, <1>8, <2>1, <2>3 DEF ReadArmed, LeavesGate
  <2>4. CASE gate.armed
    <3>1. gate' = gate /\ view' = view /\ exec' = exec /\ GoTo(p, "decide")
      BY <1>8, <2>4 DEF ReadArmed, gateVars
    <3>2. QED BY <1>0, <2>1, <2>2, <2>4, <3>1, StaysInStage
  <2>5. QED BY <2>3, <2>4
<1>9. ASSUME NEW p \in Procs, Decide(p)
      PROVE  StageIInv'
  <2>1. /\ proc[p] \in InGate /\ proc[p] \in InStage /\ proc[p] \in Driving
        /\ proc[p] \in HoldsView
        /\ "rest" \in InStage /\ "rest" \notin InGate /\ "rest" \in HoldsView
    BY <1>9 DEF Decide, InGate, InStage, Driving, HoldsView
  <2>2. /\ exec.skill \in Skills /\ gate.skill = exec.skill /\ gate.armed
        /\ view # <<>> /\ Len(view) <= Profiles[exec.skill].window_samples
    BY <1>0, <1>9, <2>1 DEF StageIInv, ViewOfStage, Decide
  <2>3. exec' = exec
    BY <1>9 DEF Decide
  <2>4. CASE GateJudgesDeparture(exec.skill) /\ GoOn(p)
    <3>1. view' = <<>>
      BY <2>4 DEF GateJudgesDeparture
    <3>2. gate'.skill = gate.skill
      BY <1>0, <2>2, <2>4, DepartureKeepsGate
    <3>3. QED BY <1>6, <2>1, <2>3, <2>4, <3>1, <3>2
  <2>5. CASE GoOn(p) /\ LeavesGate
    BY <1>6, <2>1, <2>3, <2>5 DEF LeavesGate
  <2>6. CASE Reached(exec.skill, exec.rows) /\ GoTo(p, "rest") /\ UNCHANGED gateVars
    <3>1. gate.departed /\ StableWindow(exec.skill)'
      BY <1>0, <2>2, <2>3, <2>6, RestIsStable
    <3>2. gate' = gate /\ view' = view
      BY <2>6 DEF gateVars
    <3>3. QED BY <1>0, <2>1, <2>2, <2>3, <2>6, <3>1, <3>2, StaysInStage
  <2>7. QED BY <1>9, <2>4, <2>5, <2>6 DEF Decide, gateVars
<1>10. CASE UNCHANGED <<gateVars, proc, exec>>
  BY <1>0, <1>10 DEF StageIInv, WithinStage, ViewOfStage, RestAccepted, StableWindow, gateVars
<1>11. CASE UpdateGate
  <2>1. CASE UNCHANGED gateVars
    BY <1>10, <1>11, <2>1 DEF UpdateGate
  <2>2. CASE Arrived
    BY <1>11, <2>2, ArrivalKeepsStage DEF UpdateGate
  <2>3. QED BY <1>0, <1>11, <2>1, <2>2, Arrives DEF GateIInv
<1>12. CASE Receive \/ UNCHANGED armVars
  BY <1>10, <1>12 DEF Receive, armVars
<1>13. QED
  BY <1>1, <1>2, <1>3, <1>4, <1>5, <1>7, <1>8, <1>9, <1>11, <1>12 DEF ArmNext

\* Nothing has happened at first.
LEMMA RoundTripInit == ArmInit => RoundTripIInv
<1> SUFFICES ASSUME ArmInit PROVE RoundTripIInv
  OBVIOUS
<1>1. /\ gate = NewGate /\ view = <<>> /\ seen = <<>> /\ callback = <<>>
      /\ exec = Fresh /\ proc = [p \in Procs |-> "off"]
  BY DEF ArmInit, GateInit
<1>2. /\ gate \in GateRec(1 .. Len(seen))
      /\ gate.departed = FALSE /\ gate.armed = FALSE /\ gate.samples = <<>>
  BY <1>1, NewGateFields
<1>3. GateIInv
  <2>1. <<>> \in Seq(Int) /\ Len(<<>>) = 0 /\ Consecutive(<<>>) /\ MaxSamples \in Nat
    BY GateAssumption DEF Consecutive
  <2>2. view \in Seq(1 .. Len(seen))
    BY <1>1
  <2>3. QED BY <1>1, <1>2, <2>1, <2>2 DEF GateIInv, SamplesInOrder, ArmedBySample,
               DepartedBefore, GateRec
<1>4. StageIInv
  <2>1. exec.rows = 0 /\ exec.left = 0
    BY <1>1 DEF Fresh
  <2>2. QED BY <1>1, <2>1 DEF StageIInv, WithinStage, ViewOfStage, RestAccepted,
               At, InStage, InGate, HoldsView
<1>5. QED BY <1>3, <1>4 DEF RoundTripIInv

\* The invariants hold of every behaviour.
THEOREM RoundTripHolds == ArmSpec => [](DriverIInv /\ RoundTripIInv)
<1>1. ArmInit => DriverIInv /\ RoundTripIInv
  BY DriverInit, RoundTripInit
<1>2. DriverIInv /\ RoundTripIInv /\ [ArmNext]_armVars => (DriverIInv /\ RoundTripIInv)'
  BY DriverStep, GateKept, StageKept DEF RoundTripIInv
<1>3. QED BY <1>1, <1>2, PTL DEF ArmSpec

\* Whatever the number of processes, the profiles, the samples and the moments
\* at which they arrive, a stage counts as ended only after a round trip: an
\* arming pose, a departure, then the full window at one target
\* (OnlineJointGate.reached_result, begin_stage, publish).
THEOREM RestIsAlwaysARoundTrip == ArmSpec => []RestIsARoundTrip
<1>1. DriverIInv /\ RoundTripIInv => RestIsARoundTrip
  <2> SUFFICES ASSUME DriverIInv, RoundTripIInv, NEW p \in Procs, At(p, "rest")
               PROVE  /\ Len(view) = Profiles[exec.skill].window_samples
                      /\ \A i \in 1 .. Len(view) - 1 : view[i + 1] = view[i] + 1
                      /\ \E i \in DOMAIN seen : IsArming(exec.skill, seen[i])
                      /\ \E d \in 1 .. view[1] : ~TargetIsNear(exec.skill, seen[d])
                      /\ \E t \in Profiles[exec.skill].targets : \A i \in DOMAIN view :
                            Abs(seen[view[i]] - t) <= Profiles[exec.skill].tolerance
                                                        + Profiles[exec.skill].max_spread
                      /\ exec.rows >= Profiles[exec.skill].min_publish_step
    BY DEF RestIsARoundTrip
  <2> USE DEF RoundTripIInv, GateIInv, StageIInv
  <2>1. /\ exec.skill \in Skills /\ gate.skill = exec.skill
        /\ Len(view) <= Profiles[exec.skill].window_samples /\ gate.armed /\ gate.departed
    BY DEF ViewOfStage, At, InStage, HoldsView
  <2>2. StableWindow(exec.skill)
    BY DEF RestAccepted
  <2>3. /\ view \in Seq(1 .. Len(seen)) /\ Consecutive(view) /\ seen \in Seq(Int)
        /\ Profiles[exec.skill].window_samples \in Nat \ {0}
    BY <2>1, GateAssumption DEF SamplesInOrder, JointGateProfile
  <2>4. Len(view) = Profiles[exec.skill].window_samples
    BY <2>1, <2>2, <2>3 DEF StableWindow
  <2>5. PICK d \in DOMAIN seen : AwaySince(d)
    BY <2>1 DEF DepartedBefore
  <2>6. 1 \in DOMAIN view /\ view[1] \in Nat /\ d \in Nat \ {0}
    BY <2>3, <2>4
  <2>7. d \in 1 .. view[1] /\ ~TargetIsNear(exec.skill, seen[d])
    BY <2>1, <2>5, <2>6 DEF AwaySince
  <2>8. \E i \in DOMAIN seen : IsArming(exec.skill, seen[i])
    BY <2>1 DEF ArmedBySample
  <2>9. QED BY <2>2, <2>3, <2>4, <2>7, <2>8 DEF StableWindow, Consecutive
<1>2. QED BY <1>1, RoundTripHolds, PTL

\* The fields of the executor and the gate keep their types; in particular no
\* stage publishes more rows than its budget (publish, _rollout), and the gate
\* keeps only samples that exist (update).
THEOREM ArmAlwaysTyped == ArmSpec => []ArmTypeOK
<1>1. DriverIInv /\ RoundTripIInv => ArmTypeOK
  <2> SUFFICES ASSUME DriverIInv, RoundTripIInv PROVE ArmTypeOK
    OBVIOUS
  <2> USE DEF RoundTripIInv, GateIInv, StageIInv, DriverIInv
  <2>1. /\ seen \in Seq(Int) /\ Len(seen) <= MaxSamples /\ gate \in GateRec(1 .. Len(seen))
        /\ view \in Seq(1 .. Len(seen)) /\ MaxSamples \in Nat /\ Len(seen) \in Nat
    BY GateAssumption DEF SamplesInOrder, GateRec
  <2>2. Seq(1 .. Len(seen)) \subseteq Seq(1 .. MaxSamples)
    <3>1. 1 .. Len(seen) \subseteq 1 .. MaxSamples
      BY <2>1
    <3>2. QED BY <3>1, SeqMonotonic, Zenon
  <2>3. gate \in GateRec(1 .. MaxSamples)
    BY <2>1, <2>2 DEF GateRec
  <2>4. GateTypeOK
    BY <2>1, <2>2, <2>3 DEF GateTypeOK, Samples, GateRec
  <2>5. exec \in [skill : Skills \cup {NoSkill}, rows : 0 .. ActionSteps,
                  left : 0 .. ChunkRows - 1, hasPublished : BOOLEAN]
    BY DEF DriverTypeOK, ExecType, WithinStage
  <2>6. QED BY <2>4, <2>5 DEF ArmTypeOK, DriverTypeOK, SamplesInOrder, Everywhere
<1>2. QED BY <1>1, RoundTripHolds, PTL
=============================================================================
