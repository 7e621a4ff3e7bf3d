-------------------------- MODULE MCTenantAccounts ---------------------------
EXTENDS TenantAccounts, TLC

CONSTANTS o1, o2, u1, u2, a1, a2, t1, t2, t3, r1, r2

MCOrganizations == {o1, o2}
MCScripted == {o1}
MCAccounts == {u1, u2}
MCMailboxes == {a1, a2}
MCTokens == {t1, t2, t3}
MCForms == {[active |-> FALSE], [active |-> TRUE, role |-> "admin"],
            [role |-> "member", mail |-> [box |-> a1, small |-> FALSE]]}
MCClients == {r1, r2}
Symmetry ==
  Permutations(MCAccounts) \cup Permutations(MCTokens) \cup Permutations(MCClients)

==============================================================================
