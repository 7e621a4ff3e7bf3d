CONSTANTS
  p1 = p1
  p2 = p2
  x1 = x1
  r1 = r1
  r2 = r2
  m1 = m1
  verified = verified
  rejected = rejected
  Pending = Pending
  NoOne = NoOne
  People <- MCPeople
  Pictures <- MCPictures
  Requests <- MCRequests
  Matches <- MCMatches
  TypedCodes <- MCTypedCodes
  DirectoryCodes <- MCDirectoryCodes
  Verdicts <- MCVerdicts
SYMMETRY Symmetry
SPECIFICATION Spec
INVARIANTS
  OnlyConsentedIndexed
  ErasureComplete
  RecordedIsStored
  MatchStands
  GeneratedCodeFree
