-------------------------- MODULE MCSerialMonitor --------------------------
(***************************************************************************)
(* Instances of SerialMonitor for TLC: two sessions that want one port, a  *)
(* channel of one command and one event on the way.                        *)
(***************************************************************************)
EXTENDS SerialMonitor

CONSTANTS s1, s2, p1
=============================================================================
