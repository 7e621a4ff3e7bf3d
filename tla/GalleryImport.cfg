SPECIFICATION ImportSpec
CONSTANTS
  f1 = f1
  f2 = f2
  f3 = f3
  f4 = f4
  Processes <- MCProcesses
  Images <- MCImages
  Vectors <- MCVectors
  Order <- MCOrder
  Closing <- MCClosing
  Content <- MCContent
  Fit <- MCFit
  MaxImports = 3
INVARIANTS
  NothingSkipped
  TwiceOnlyIfLost
CHECK_DEADLOCK FALSE
