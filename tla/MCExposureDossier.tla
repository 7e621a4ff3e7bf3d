------------------------- MODULE MCExposureDossier -------------------------
(* A small instance of ExposureDossier for TLC: two findings on two         *)
(* domains, one of them named like a breach index.                          *)
EXTENDS ExposureDossier, TLC

CONSTANTS f1, f2, mirror, leaks, r1, r2

MCFindings == {f1, f2}
MCDomain   == (f1 :> mirror) @@ (f2 :> leaks)
MCBreach   == {leaks}
MCRequests == {r1, r2}

MCSymmetry == Permutations(MCRequests)
=============================================================================
