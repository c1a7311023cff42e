---- MODULE MCGuestAccess ----
(* An instance of GuestAccess for TLC.  Liveness is checked: no symmetry. *)
EXTENDS GuestAccess, TLC
====
