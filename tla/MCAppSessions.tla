---- MODULE MCAppSessions ----
(* Instances of AppSessions for TLC. *)
EXTENDS AppSessions, TLC

\* For safety runs only.
Symmetry == Permutations(Processes)
====
