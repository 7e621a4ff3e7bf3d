------------------------ MODULE MCParticipantRegistry -------------------------
(* Small instances of ParticipantRegistry. *)
EXTENDS ParticipantRegistry, TLC

CONSTANTS p1, p2, x1, r1, r2, m1, verified, rejected

MCPeople     == {p1, p2}
MCPictures   == {x1}
MCRequests   == {r1, r2}
MCMatches    == {m1}
MCTypedCodes == {2}

\* The code of a directory, "id-" and its name, may be typed for a participant too; no
\* generated one looks like it, and that it meets one here allows only more.
MCDirectoryCodes == {2}

MCVerdicts   == {verified, rejected}

\* The participants, the requests and the verdicts differ in name only.
Symmetry ==
  Permutations(MCPeople) \cup Permutations(MCRequests) \cup Permutations(MCVerdicts)

==============================================================================
