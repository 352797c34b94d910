------------------------- MODULE ObservationProofs -------------------------
(***************************************************************************)
(* What reaches a request or a verdict is fresh and whole, for any number  *)
(* of skills, whichever arms they use, and any age limits.                 *)
(***************************************************************************)
EXTENDS Observation, TLAPS

USE ObservationAssumption

\* What the properties need of the typing.
CacheTypeOK == /\ cache \in [Topics -> Ages \cup {Missing}]
               /\ captured \in Ages
               /\ \A t \in DOMAIN held : held[t] \in Ages

\* captured_at_monotonic_ns is no younger than any part of the sample.
SampleBounded ==
    step = "sampled" => /\ DOMAIN held = Parts(skill)
                        /\ \A t \in DOMAIN held : held[t] <= captured

\* The image is the one whose age is tested, and the model the one asked for.
VerdictBounded ==
    /\ step \in {"prepared", "captured"} => model = skill
    /\ step = "captured" => /\ DOMAIN held = {"front_image"}
                            /\ held["front_image"] <= captured

\* The inductive invariant.
ObservationIInv == CacheTypeOK /\ NothingMissing /\ SampleBounded /\ VerdictBounded

\* Everything that a sample or a hold needs is on a topic.
Needed == {"left_joint", "right_joint"} \cup UNION {Parts(k) : k \in Skills}

\* The preflight asks for everything that is needed later.
LEMMA RequiredCoversNeeded == Needed \subseteq Required /\ Required \subseteq Topics
<1>1. ASSUME NEW k \in Skills PROVE Parts(k) \subseteq Required
  BY DEF Parts, Required, Joint
<1>2. Required \subseteq Topics
  BY DEF Required, Topics, Wrist
<1>3. QED BY <1>1, <1>2 DEF Needed, Required

LEMMA MissingIsNoAge ==
  /\ Ages \subseteq Nat /\ Missing \notin Ages /\ 0 \in Ages
  /\ ObservationAge \in Nat /\ ImageAge \in Nat
  BY DEF Ages

\* Time keeps the order of ages.
LEMMA OlderInOrder ==
  /\ \A a \in Ages : Older(a) \in Ages
  /\ Older(Missing) = Missing
  /\ \A a, b \in Ages : a <= b => Older(a) <= Older(b)
  BY DEF Older, Ages

\* The oldest part of a sample is as old as each of them.
LEMMA CapturedAtIsOldest ==
  ASSUME NEW k \in Skills, cache \in [Topics -> Ages \cup {Missing}],
         \A t \in Parts(k) : cache[t] # Missing
  PROVE  /\ CapturedAt(Parts(k)) \in Ages
         /\ \A t \in Parts(k) : cache[t] \in Ages /\ cache[t] <= CapturedAt(Parts(k))
<1> DEFINE S == {cache[t] : t \in Parts(k)}
           Oldest(age) == \A t \in Parts(k) : age >= cache[t]
<1>1. \A t \in Parts(k) : cache[t] \in Ages
  BY RequiredCoversNeeded DEF Needed
<1>2. PICK a, b, c \in Parts(k) : Parts(k) = {a, b, c}
  BY DEF Parts
<1>3. \E t \in Parts(k) : Oldest(cache[t])
  <2>1. cache[a] \in Nat /\ cache[b] \in Nat /\ cache[c] \in Nat
    BY <1>1, MissingIsNoAge
  <2>2. \E t \in {a, b, c} : \A u \in {a, b, c} : cache[t] >= cache[u]
    BY <2>1
  <2>3. QED BY <1>2, <2>2
<1>4. \E age \in S : Oldest(age)
  BY <1>3
<1>5. CapturedAt(Parts(k)) \in S /\ Oldest(CapturedAt(Parts(k)))
  BY <1>4 DEF CapturedAt
<1>6. QED BY <1>1, <1>5, MissingIsNoAge

LEMMA ObservationStarts == ObservationInit => ObservationIInv
  BY MissingIsNoAge DEF ObservationInit, Nothing, ObservationIInv, CacheTypeOK, NothingMissing,
     SampleBounded, VerdictBounded

LEMMA ObservationStep == ObservationIInv /\ [ObservationNext]_obsVars => ObservationIInv'
<1> SUFFICES ASSUME ObservationIInv, [ObservationNext]_obsVars PROVE ObservationIInv'
  OBVIOUS
<1> USE DEF ObservationIInv
<1> USE MissingIsNoAge
<1>1. ASSUME NEW t \in Topics, Receive(t) PROVE ObservationIInv'
  BY <1>1, RequiredCoversNeeded
     DEF Receive, CacheTypeOK, NothingMissing, Needed, SampleBounded, VerdictBounded
<1>2. CASE Tick
  <2>1. CacheTypeOK'
    BY <1>2, OlderInOrder DEF Tick, CacheTypeOK
  <2>2. NothingMissing'
    <3>1. \A t \in Topics : cache[t] # Missing => cache'[t] # Missing
      BY <1>2, OlderInOrder DEF Tick, CacheTypeOK
    <3>2. QED BY <1>2, <3>1, RequiredCoversNeeded DEF Tick, NothingMissing, Needed
  <2>3. SampleBounded' /\ VerdictBounded'
    BY <1>2, OlderInOrder DEF Tick, CacheTypeOK, SampleBounded, VerdictBounded
  <2>4. QED BY <2>1, <2>2, <2>3
<1>3. CASE Fault
  BY <1>3 DEF Fault, Nothing, CacheTypeOK, NothingMissing, SampleBounded, VerdictBounded
<1>4. CASE Preflight
  <2>1. NothingMissing'
    BY <1>4, RequiredCoversNeeded DEF Preflight, MessagesFresh, NothingMissing, Needed
  <2>2. QED BY <1>4, <2>1 DEF Preflight, CacheTypeOK, SampleBounded, VerdictBounded
<1>5. ASSUME NEW k \in Skills, Sample(k) PROVE ObservationIInv'
  <2>1. /\ CapturedAt(Parts(k)) \in Ages
        /\ \A t \in Parts(k) : cache[t] \in Ages /\ cache[t] <= CapturedAt(Parts(k))
    BY <1>5, CapturedAtIsOldest DEF Sample, CacheTypeOK
  <2>2. CacheTypeOK' /\ SampleBounded'
    BY <1>5, <2>1 DEF Sample, CacheTypeOK, SampleBounded
  <2>3. NothingMissing' /\ VerdictBounded'
    BY <1>5 DEF Sample, NothingMissing, VerdictBounded
  <2>4. QED BY <2>2, <2>3
<1>6. CASE Validate \/ Judge
  BY <1>6 DEF Validate, Judge, CacheTypeOK, NothingMissing, SampleBounded, VerdictBounded
<1>7. CASE Proceed
  BY <1>7 DEF Proceed, Nothing, CacheTypeOK, NothingMissing, SampleBounded, VerdictBounded
<1>8. ASSUME NEW k \in Skills, PrepareChecker(k) PROVE ObservationIInv'
  BY <1>8 DEF PrepareChecker, Loaded, CacheTypeOK, NothingMissing, SampleBounded, VerdictBounded
<1>9. CASE CaptureFront
  <2>1. cache["front_image"] \in Ages
    BY <1>9 DEF CaptureFront, CacheTypeOK, Topics
  <2>2. CacheTypeOK' /\ VerdictBounded'
    BY <1>9, <2>1 DEF CaptureFront, CacheTypeOK, VerdictBounded
  <2>3. NothingMissing' /\ SampleBounded'
    BY <1>9 DEF CaptureFront, NothingMissing, SampleBounded
  <2>4. QED BY <2>2, <2>3
<1>10. CASE UNCHANGED obsVars
  BY <1>10 DEF obsVars, CacheTypeOK, NothingMissing, SampleBounded, VerdictBounded
<1>11. QED
  BY <1>1, <1>2, <1>3, <1>4, <1>5, <1>6, <1>7, <1>8, <1>9, <1>10
     DEF ObservationNext, PreflightFails, ValidateStale, PrepareCheckerFails, JudgeStale

\* The invariant holds of every behaviour.
THEOREM ObservationInvariantHolds == ObservationSpec => []ObservationIInv
  BY ObservationStarts, ObservationStep, PTL DEF ObservationSpec

\* Past the preflight nothing a sample or a hold needs is missing, whichever
\* arms have skills (_messages_fresh, joint_snapshot).
THEOREM NothingEverMissing == ObservationSpec => []NothingMissing
<1>1. ObservationIInv => NothingMissing
  BY DEF ObservationIInv
<1>2. QED BY <1>1, ObservationInvariantHolds, PTL

\* Every part of a request and every image of a verdict is within its age
\* limit when it is used, and the verdict is of the skill's own model
\* (sample, validate, evaluate).
THEOREM AlwaysDecidedOnFreshData == ObservationSpec => DecidedOnFreshData
<1> DEFINE Fresh ==
        step' # step =>
            /\ step' = "asked" => /\ DOMAIN held = Parts(skill)
                                  /\ \A t \in DOMAIN held : held[t] <= ObservationAge
            /\ step' = "judged" => /\ held["front_image"] <= ImageAge
                                   /\ model = skill
<1>1. ObservationIInv /\ [ObservationNext]_obsVars => [Fresh]_obsVars
  <2> SUFFICES ASSUME ObservationIInv, ObservationNext PROVE Fresh
    OBVIOUS
  <2>1. CASE Validate
    <3>1. /\ DOMAIN held = Parts(skill) /\ captured \in Nat /\ captured <= ObservationAge
          /\ \A t \in DOMAIN held : held[t] \in Nat /\ held[t] <= captured
      BY <2>1, MissingIsNoAge DEF Validate, ObservationIInv, CacheTypeOK, SampleBounded
    <3>2. \A t \in DOMAIN held : held[t] <= ObservationAge
      BY <3>1, MissingIsNoAge
    <3>3. QED BY <2>1, <3>1, <3>2 DEF Validate
  <2>2. CASE Judge
    <3>1. /\ model = skill /\ captured \in Nat /\ captured <= ImageAge
          /\ held["front_image"] \in Nat /\ held["front_image"] <= captured
      BY <2>2, MissingIsNoAge DEF Judge, ObservationIInv, CacheTypeOK, VerdictBounded
    <3>2. held["front_image"] <= ImageAge
      BY <3>1, MissingIsNoAge
    <3>3. QED BY <2>2, <3>1, <3>2 DEF Judge
  <2>3. CASE ~Validate /\ ~Judge
    BY <2>3 DEF ObservationNext, Receive, Tick, Preflight, PreflightFails, Fault, Sample,
       PrepareChecker, PrepareCheckerFails, ValidateStale, Proceed, CaptureFront, JudgeStale
  <2>4. QED BY <2>1, <2>2, <2>3
<1>2. QED BY <1>1, ObservationInvariantHolds, PTL DEF ObservationSpec, DecidedOnFreshData
=============================================================================
