CONSTANTS
  f1 = f1
  f2 = f2
  mirror = mirror
  leaks = leaks
  r1 = r1
  r2 = r2
  Findings <- MCFindings
  Domain <- MCDomain
  Breach <- MCBreach
  Requests <- MCRequests
  MaxEvidence = 2
  MaxDocs = 3
  MaxSaves = 2
SYMMETRY MCSymmetry
SPECIFICATION Spec
INVARIANTS
  OnlyVerifiedDerived
  LaterDocumentsCover
  ReportsDownloadable
  RiskOnlyRises
  RiskNotOutdated
CHECK_DEADLOCK FALSE
