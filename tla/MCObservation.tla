--------------------------- MODULE MCObservation ---------------------------
(***************************************************************************)
(* Small instances of Observation for TLC: both skills use the left arm,   *)
(* so nothing but the preflight needs the right one.                       *)
(***************************************************************************)
EXTENDS Observation, TLC

LeftArm == [k \in Skills |-> "left"]

\* Skills are only ever compared.
Symmetry == Permutations(Skills)
=============================================================================
