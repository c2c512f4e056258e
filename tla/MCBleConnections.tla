-------------------------- MODULE MCBleConnections --------------------------
(***************************************************************************)
(* Instances of BleConnections for TLC: one device, which one session      *)
(* connects again and again or two sessions share.                         *)
(***************************************************************************)
EXTENDS BleConnections

CONSTANTS s1, s2, d1
=============================================================================
