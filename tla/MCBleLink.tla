----------------------------- MODULE MCBleLink -----------------------------
(* BleLink for TLC. *)
EXTENDS BleLink, TLC
Symmetry == Permutations(Conn)
=============================================================================
