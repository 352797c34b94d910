--------------------------- MODULE MCOrchestrator ---------------------------
(***************************************************************************)
(* Small instances of Orchestrator for TLC.                                *)
(***************************************************************************)
EXTENDS OrchestratorProperties, TLC

CONSTANTS k1, k2

\* Every run has the stages of the pipeline, in its order.
PipelinePlan == [r \in Runs |-> [i \in Stages |-> IF i = 0 THEN k1 ELSE k2]]

\* Each run is of one declared skill, and they differ.
FirstRun == CHOOSE r \in Runs : TRUE
SkillPlan == [r \in Runs |-> [i \in Stages |-> IF r = FirstRun THEN k1 ELSE k2]]

\* Session ids are only ever compared.
Symmetry == Permutations(Sessions)
=============================================================================
