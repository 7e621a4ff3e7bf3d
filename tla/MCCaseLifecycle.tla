-------------------------- MODULE MCCaseLifecycle ---------------------------
(* A small instance of CaseLifecycle for TLC. *)
EXTENDS CaseLifecycle

CONSTANTS r1, r2, x1

MCRequests   == {r1, r2}
MCStreams    == {x1}
MCOperations == {"graph", "monitor"}
=============================================================================
