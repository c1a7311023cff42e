---------------------------- MODULE MCRemoteGate ----------------------------
(* The constants of RemoteGate for TLC.  The order of the timings is the one  *)
(* of the code (8 s < 10 s < 30 s < 40 s < 90 s), their ratios are not.        *)
EXTENDS RemoteGate, TLC

Symmetry == UNION {Permutations(Guests), Permutations(RequestIds), Permutations(Handlers)}
=============================================================================
