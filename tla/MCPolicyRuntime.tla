-------------------------- MODULE MCPolicyRuntime --------------------------
(***************************************************************************)
(* Small instances of PolicyRuntime for TLC.                               *)
(***************************************************************************)
EXTENDS PolicyRuntimeProperties, TLC

\* Ids are only ever compared, so permuting them changes nothing.
Symmetry == Permutations(Workers) \cup Permutations(Sessions)
            \cup Permutations(Trials) \cup Permutations(Skills)
=============================================================================
