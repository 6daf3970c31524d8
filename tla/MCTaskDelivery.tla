--------------------------- MODULE MCTaskDelivery ---------------------------
(* TaskDelivery with tasks that are interchangeable. *)
EXTENDS TaskDelivery, TLC

Interchangeable == Permutations(Tasks)
=============================================================================
