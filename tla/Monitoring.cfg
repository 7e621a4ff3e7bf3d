CONSTANTS
  k1 = k1
  r1 = r1
  r2 = r2
  Keys <- MCKeys
  Requests <- MCRequests
  MockFindings <- MCFindings
  Engines = {"SearchAPI"}
  MaxItems = 2
  MaxFound = 1
  MaxFindings = 2
  MaxRuns = 2
  MaxRules = 2
SYMMETRY MCSymmetry
SPECIFICATION Spec
INVARIANTS
  DuplicatesExplained
  StateReflectsLastScan
  RulesExplained
  CountsAddUp
CHECK_DEADLOCK FALSE
