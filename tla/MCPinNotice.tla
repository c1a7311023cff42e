---- MODULE MCPinNotice ----
(* An instance of PinNotice for TLC: a guest with a PIN for everything and a   *)
(* pedestrian one, which never gets a notice and always waits for it.          *)
EXTENDS PinNotice, TLC

CONSTANTS s1, c1, c2

OneStay == (c1 :> s1) @@ (c2 :> s1)
BothAndPedestrian == (c1 :> "both") @@ (c2 :> "pedestrian")
====
