SPECIFICATION AccountsSpec
CONSTANTS
  o1 = o1
  o2 = o2
  u1 = u1
  u2 = u2
  a1 = a1
  a2 = a2
  t1 = t1
  t2 = t2
  t3 = t3
  r1 = r1
  r2 = r2
  Organizations <- MCOrganizations
  Scripted <- MCScripted
  Accounts <- MCAccounts
  Mailboxes <- MCMailboxes
  Forms <- MCForms
  Tokens <- MCTokens
  Clients <- MCClients
SYMMETRY Symmetry
INVARIANTS
  FoundByAddress
  OneLiveToken
PROPERTY
  DeactivationStands
CHECK_DEADLOCK FALSE
