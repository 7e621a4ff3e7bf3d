---------------------------- MODULE MCIncidentDesk ----------------------------
EXTENDS IncidentDesk, TLC

CONSTANTS i1, k1, k2, e1, r1, r2

MCIncidents == {i1}
MCForeign == {e1}
MCKeys == {k1, k2}
MCRequests == {r1, r2}
MCDeskWords == {"open", "false_positive"}
Symmetry == Permutations(MCKeys) \cup Permutations(MCRequests)

==============================================================================
