--------------------------- MODULE MCBleTransport ---------------------------
(* Model-checking instance of BleTransport. *)
EXTENDS BleTransport, TLC

Symmetry == Permutations(Callers) \cup Permutations(Loops)
=============================================================================
