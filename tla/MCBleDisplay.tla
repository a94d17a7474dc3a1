---------------------------- MODULE MCBleDisplay ----------------------------
(* Model-checking instance of BleDisplay. *)
EXTENDS BleDisplay, TLC

Symmetry == Permutations(Presenters)
=============================================================================
