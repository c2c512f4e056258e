----------------------------- MODULE MCBleScan -----------------------------
(***************************************************************************)
(* An instance of BleScan for TLC: a session that scans twice, possibly    *)
(* under one id, or two sessions that scan once each, so that a scan       *)
(* replaces another of its session or of a stranger.                       *)
(***************************************************************************)
EXTENDS BleScan, FiniteSets

CONSTANTS s1, s2, i1

Scan(s, n) == [session |-> s, id |-> i1, nth |-> n]

ThreeScans == {Scan(s1, 1), Scan(s1, 2), Scan(s2, 1)}

\* Bound: two of the scans arrive, any two.
TwoArrive == Cardinality({x \in Scans : phase[x] # "absent"}) <= 2
=============================================================================
