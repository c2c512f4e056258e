-------------------------- MODULE MCResponseWriter --------------------------
(***************************************************************************)
(* Instances of ResponseWriter for TLC: two requests whose responses       *)
(* interleave, a channel shorter than the traffic and a cooldown of two    *)
(* ticks, so that chunks arrive before and after part of it has passed.    *)
(***************************************************************************)
EXTENDS ResponseWriter

CONSTANTS i1, i2

=============================================================================
