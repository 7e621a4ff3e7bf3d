SPECIFICATION Spec
CONSTANTS
  i1 = i1
  k1 = k1
  k2 = k2
  e1 = e1
  r1 = r1
  r2 = r2
  Incidents <- MCIncidents
  Keys <- MCKeys
  Foreign <- MCForeign
  DeskWords <- MCDeskWords
  Requests <- MCRequests
SYMMETRY Symmetry
INVARIANTS
  LinkedEscalated
  SettledStays
