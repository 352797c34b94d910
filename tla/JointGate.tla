----------------------------- MODULE JointGate -----------------------------
(***************************************************************************)
(* OnlineJointGate (edge/joint_gate.py): joint rest is a departure from    *)
(* every target of the skill, followed by a stable window of samples at    *)
(* one of them.  The ROS callback appends samples; the publishing thread   *)
(* asks after every row, in three separate critical sections of _lock, so  *)
(* samples may arrive between any two.  A pose is the position of one      *)
(* joint, an integer; a sample is its number in the order of arrival.      *)
(***************************************************************************)
EXTENDS Integers, Sequences, FiniteSets

CONSTANTS Skills, NoSkill,
          Profiles,     \* Profiles[k]: the JointGateProfile of skill k
          MaxSamples    \* bound: samples that arrive in one stage

Arms == {"left", "right"}

\* arming_min_abs_position is 0 when the profile has no arming_indices.
JointGateProfile == [arm                     : Arms,
                     targets                 : SUBSET Int \ {{}},
                     tolerance               : Nat \ {0},
                     departure_threshold     : Nat \ {0},
                     arming_min_abs_position : Nat,
                     min_publish_step        : Nat,
                     window_samples          : Nat \ {0},
                     max_spread              : Nat \ {0}]

ASSUME GateAssumption == /\ IsFiniteSet(Skills) /\ NoSkill \notin Skills
                         /\ \A k \in Skills : Profiles[k] \in JointGateProfile
                         /\ MaxSamples \in Nat

VARIABLES gate,    \* the fields of OnlineJointGate
          view,    \* samples, as reached_result took it from _snapshot
          seen     \* history: every pose appended since begin

gateVars == <<gate, view, seen>>

Samples == Seq(1 .. MaxSamples)
GateTypeOK == /\ gate \in [skill : Skills \cup {NoSkill}, departed : BOOLEAN,
                           armed : BOOLEAN, samples : Samples]
              /\ view \in Samples
              /\ seen \in Seq(Int)

NewGate  == [skill |-> NoSkill, departed |-> FALSE, armed |-> FALSE, samples |-> <<>>]
GateInit == /\ gate = NewGate
            /\ view = <<>>
            /\ seen = <<>>

-----------------------------------------------------------------------------
Abs(n) == IF n < 0 THEN -n ELSE n

\* The last n elements, or all of them.
LastOf(s, n) == IF Len(s) <= n THEN s ELSE SubSeq(s, Len(s) - n + 1, Len(s))

\* maxlen of the deque: the largest window of any skill.
MaximumWindow == CHOOSE n \in {Profiles[k].window_samples : k \in Skills} :
                    \A k \in Skills : Profiles[k].window_samples <= n

\* np.maximum(tolerance, departure_threshold)
DepartureTolerance(k) ==
    IF Profiles[k].tolerance < Profiles[k].departure_threshold
    THEN Profiles[k].departure_threshold ELSE Profiles[k].tolerance

TargetIsNear(k, p) ==
    \E t \in Profiles[k].targets : Abs(p - t) < DepartureTolerance(k)

\* With no arming_indices every sample arms.
IsArming(k, p) == Abs(p) >= Profiles[k].arming_min_abs_position

\* The n-th smallest of the poses in w, and twice their median.
Smallest(w, n) ==
    CHOOSE p \in {w[i] : i \in DOMAIN w} :
        /\ Cardinality({i \in DOMAIN w : w[i] < p}) < n
        /\ Cardinality({i \in DOMAIN w : w[i] <= p}) >= n
TwiceMedian(w) == Smallest(w, (Len(w) + 1) \div 2) + Smallest(w, Len(w) \div 2 + 1)

\* _window_result: the median is at a target and the samples are together.
WindowPasses(k, w) ==
    /\ \E t \in Profiles[k].targets :
          Abs(TwiceMedian(w) - 2 * t) <= 2 * Profiles[k].tolerance
    /\ \A i, j \in DOMAIN w : w[i] - w[j] <= Profiles[k].max_spread

-----------------------------------------------------------------------------
\* Called by begin_stage, on the publishing thread.
GateBegin(k) ==
    /\ gate' = [NewGate EXCEPT !.skill = k]
    /\ seen' = <<>>
    /\ UNCHANGED view

\* The ROS callback: a valid position of one arm.
GateUpdate(arm, p) ==
    LET mine == gate.skill # NoSkill /\ Profiles[gate.skill].arm = arm
    IN  /\ UNCHANGED view
        /\ \/ ~mine /\ UNCHANGED <<gate, seen>>
           \/ /\ mine
              /\ seen' = Append(seen, p)
              /\ gate' = [gate EXCEPT
                             !.samples = LastOf(Append(@, Len(seen) + 1), MaximumWindow),
                             !.armed = @ \/ IsArming(gate.skill, p)]

\* The first section of reached_result.
Snapshot(k) == IF gate.skill # k THEN <<>>
               ELSE LastOf(gate.samples, Profiles[k].window_samples)

GateSnapshot(k) == view' = Snapshot(k) /\ UNCHANGED <<gate, seen>>

\* Mutant of Departed: the samples from before the departure are kept.
DepartedKeeping == [gate EXCEPT !.departed = TRUE]

\* Departure: everything but the newest sample is forgotten, which need not
\* be the one that was judged.
Departed == [gate EXCEPT !.departed = TRUE, !.samples = LastOf(@, 1)]

\* The third section: not departed yet, and the newest sample of the view
\* tells whether the arm departs now.
GateJudgesDeparture(k) ==
    /\ ~gate.departed
    /\ gate' = IF TargetIsNear(k, seen[view[Len(view)]]) THEN gate ELSE Departed
    /\ view' = <<>>
    /\ UNCHANGED seen

\* What follows when it had departed: is the view a stable window?
Reached(k, step) ==
    /\ gate.departed
    /\ step >= Profiles[k].min_publish_step
    /\ Len(view) >= Profiles[k].window_samples
    /\ WindowPasses(k, [i \in DOMAIN view |-> seen[view[i]]])
=============================================================================
