---------------------------- MODULE MCBleSession ----------------------------
(* BleSession with two digits to a code, the deadline two time units away. *)
EXTENDS BleSession, TLC
=============================================================================
