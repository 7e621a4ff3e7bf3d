-------------------------- MODULE MCBiometricStores ---------------------------
(* Small instances of BiometricStores. *)
EXTENDS BiometricStores, TLC

CONSTANTS i1, p1, a1, a2, d1, x1, r1, r2, f1

MCProcesses  == {"server", "script"}
MCReferences == {i1}
MCPhotos     == {p1}
MCArtifacts  == {a1, a2}
\* Both artifacts are of one finding.
MCFinding    == [a \in MCArtifacts |-> f1]
MCDocuments  == {d1}
MCRequests   == {r1, r2}
MCPictures   == {x1}
MCVectors    == {i1} \cup ((1..2) \X {x1})

\* The requests differ in name only.
Symmetry == Permutations(MCRequests)

==============================================================================
