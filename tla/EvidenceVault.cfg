CONSTANTS
  f1 = f1
  f2 = f2
  r1 = r1
  r2 = r2
  c1 = c1
  c2 = c2
  Findings <- MCFindings
  Requests <- MCRequests
  Contents <- MCContents
  Outcomes = {"VERIFIED", "REJECTED"}
  MaxObjects = 4
SYMMETRY MCSymmetry
SPECIFICATION Spec
INVARIANTS
  ForksNeedOverlap
  GateRespected
  MismatchIsTraceable
PROPERTIES
  ImplementsLedger
CHECK_DEADLOCK FALSE
