---------------------------- MODULE MCBleReports ----------------------------
(* BleReports for TLC. *)
EXTENDS BleReports
=============================================================================
