---------------------------- MODULE MCEdgeAudit ----------------------------
(***************************************************************************)
(* The edge audit store alone, under any sequence of its calls, for TLC.   *)
(***************************************************************************)
EXTENDS EdgeAudit, TLC

\* Run ids are only ever compared.
Symmetry == Permutations(Runs)
=============================================================================
