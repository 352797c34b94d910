-------------------------- MODULE MCPolicyBackend --------------------------
(***************************************************************************)
(* Small instances of PolicyBackend for TLC.                               *)
(***************************************************************************)
EXTENDS PolicyBackend, TLC

\* One seed for all, not the one prepare leaves behind: the worst case for
\* telling trials apart, and it keeps the symmetry.
OneSeed == [t \in Trials |-> 1]

\* Ids are only ever compared, so permuting them changes nothing.
Symmetry == Permutations(Workers) \cup Permutations(Sessions)
            \cup Permutations(Trials) \cup Permutations(Skills)
=============================================================================
