--------------------------- MODULE MCKernelShadow ---------------------------
(* KernelShadow with interchangeable slots, calls and tasks. *)
EXTENDS KernelShadow, TLC

Interchangeable ==
  Permutations(Calls) \cup Permutations(Agents) \cup Permutations(CallIds) \cup Permutations(Names)
=============================================================================
