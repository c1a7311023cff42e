---- MODULE MCCleaningTask ----
(* An instance of CleaningTask for TLC. *)
EXTENDS CleaningTask, TLC

CONSTANTS d1, d2

\* One device is ahead of the server and one behind.
OffClocks == (d1 :> 1) @@ (d2 :> -1)
Symmetry == Permutations(Requests)
====
