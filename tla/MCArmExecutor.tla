--------------------------- MODULE MCArmExecutor ---------------------------
(***************************************************************************)
(* Small instances of ArmExecutor for TLC: a skill of the left arm without *)
(* arming and one of the right arm with it and with a shorter window.      *)
(***************************************************************************)
EXTENDS ArmExecutor, TLC

CONSTANTS k1, k2

GateProfiles ==
    k1 :> [arm |-> "left", targets |-> {0}, tolerance |-> 1,
           departure_threshold |-> 2, arming_min_abs_position |-> 0,
           min_publish_step |-> 2, window_samples |-> 3, max_spread |-> 1]
    @@
    k2 :> [arm |-> "right", targets |-> {0}, tolerance |-> 2,
           departure_threshold |-> 1, arming_min_abs_position |-> 2,
           min_publish_step |-> 1, window_samples |-> 2, max_spread |-> 1]

\* Processes are only ever compared.
Symmetry == Permutations(Procs)
=============================================================================
