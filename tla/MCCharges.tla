---- MODULE MCCharges ----
(* An instance of Charges for TLC. *)
EXTENDS Charges, TLC

Starts == <<1, 3, 5>>
Symmetry == Permutations(Reservations) \cup Permutations(Processes)
====
