SPECIFICATION AnalysisSpec
CONSTANTS
  a1 = a1
  a2 = a2
  r1 = r1
  r2 = r2
  w1 = w1
  w2 = w2
  v1 = v1
  Analyses <- MCAnalyses
  Keys <- MCKeys
  DeskWords <- MCDeskWords
  Digests <- MCDigests
  Contents <- MCContents
  Contexts <- MCContexts
  Submissions <- MCSubmissions
  Workers <- MCWorkers
  Watchers <- MCWatchers
INVARIANTS
  OneAnalysisPerContent
  LastWordHeard
PROPERTIES
  ImplementsRecord
  JobsSettle
