CONSTANTS
  f1 = f1
  f2 = f2
  r1 = r1
  r2 = r2
  c1 = c1
  c2 = c2
  Findings <- MCFindings
  Requests <- MCRequests
  Contents <- MCContents
  Outcomes = {"VERIFIED"}
  MaxObjects = 4
SPECIFICATION Spec
INVARIANTS ChainVerifiable
CHECK_DEADLOCK FALSE
