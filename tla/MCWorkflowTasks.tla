-------------------------- MODULE MCWorkflowTasks --------------------------
(* WorkflowTasks for TLC *)
EXTENDS WorkflowTasks, TLC

Symmetry == Permutations(Workers) \cup Permutations(Providers) \cup Permutations(Workflows) \cup Permutations(Revisions)
=============================================================================
