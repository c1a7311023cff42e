---- MODULE MCPreventive ----
(* An instance of Preventive for TLC. *)
EXTENDS Preventive, TLC

Symmetry == Permutations(Items) \cup Permutations(Phones)
====
