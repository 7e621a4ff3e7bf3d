CONSTANTS
  r1 = r1
  r2 = r2
  x1 = x1
  Requests <- MCRequests
  Streams <- MCStreams
  Operations <- MCOperations
  MaxScansPerHour = 1
  Budget = 2
  MaxJobs = 2
  MaxRules = 2
  MaxRestarts = 1
SPECIFICATION Spec
INVARIANTS
  StatusEarned
  EventAfterCommit
PROPERTIES
  OutcomeStands
  ScansSettle
