--------------------------- MODULE MCWorkflowRuns ---------------------------
(* WorkflowRuns on two server incarnations. *)
EXTENDS WorkflowRuns, TLC

Symmetry == Permutations(Process)
=============================================================================
