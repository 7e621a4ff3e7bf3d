--------------------------- MODULE MCProviderMesh ---------------------------
(* A small instance of ProviderMesh for TLC. *)
EXTENDS ProviderMesh

CONSTANTS p1, p2, s1, s2

MCProviders == {p1, p2}
MCScans     == {s1, s2}
=============================================================================
