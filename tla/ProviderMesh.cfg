CONSTANTS
  p1 = p1
  p2 = p2
  s1 = s1
  s2 = s2
  Providers <- MCProviders
  Scans <- MCScans
  Threshold = 2
  MaxRetries = 1
  MaxFailures = 2
SPECIFICATION Spec
INVARIANTS
  BreakerCounts
  ImagesWithdrawn
PROPERTIES
  OpenShedsLoad
  ScansReturn
