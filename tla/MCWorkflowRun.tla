--------------------------- MODULE MCWorkflowRun ---------------------------
(***************************************************************************)
(* Two steps, the second waiting for the first or not, and two scripts     *)
(* that differ in the second step and may be swapped.                      *)
(***************************************************************************)
EXTENDS WorkflowRun, TLC

TwoStepPlans == {<<{}, {1}>>, <<{}, {}>>}
Swaps == Permutations(Scripts)
=============================================================================
