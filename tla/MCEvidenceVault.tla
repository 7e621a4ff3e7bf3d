-------------------------- MODULE MCEvidenceVault --------------------------
(* A small instance of EvidenceVault for TLC. *)
EXTENDS EvidenceVault, TLC

CONSTANTS f1, f2, r1, r2, c1, c2

MCFindings == {f1, f2}
MCRequests == {r1, r2}
MCContents == {c1, c2}

MCSymmetry == Permutations(MCFindings) \cup Permutations(MCRequests)
                \cup Permutations(MCContents)
=============================================================================
