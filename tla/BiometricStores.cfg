CONSTANTS
  i1 = i1
  p1 = p1
  a1 = a1
  a2 = a2
  d1 = d1
  x1 = x1
  r1 = r1
  r2 = r2
  f1 = f1
  Processes <- MCProcesses
  Vectors <- MCVectors
  References <- MCReferences
  Photos <- MCPhotos
  Artifacts <- MCArtifacts
  Finding <- MCFinding
  Documents <- MCDocuments
  Requests <- MCRequests
  Pictures <- MCPictures
  MaxRuns = 2
SYMMETRY Symmetry
SPECIFICATION Spec
INVARIANTS
  FilesFollowRows
  IndexedInQdrant
  VectorsOwned
CHECK_DEADLOCK FALSE
