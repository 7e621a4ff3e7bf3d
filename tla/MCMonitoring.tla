---------------------------- MODULE MCMonitoring ----------------------------
(* A small instance of Monitoring for TLC: one URL, which the items of a scan *)
(* may repeat.  Findings with other URLs are compared apart from it.          *)
EXTENDS Monitoring, TLC

CONSTANTS k1, r1, r2

MCKeys     == {k1}
MCRequests == {r1, r2}
MCFindings == <<k1>>

MCSymmetry == Permutations(MCRequests)
=============================================================================
