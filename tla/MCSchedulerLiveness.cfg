SPECIFICATION FairSpec
CONSTANTS
  sA = sA
  sB = sB
  sC = sC
  Scopes <- MCScopes
  Synchronized <- MCSynchronized
  ScopeLists <- MCPairOnly
  Intervals <- MCIntervals
  MaxRuns = 1
  NoTask = NoTask
PROPERTIES ServedScopesRun StopCompletes
\* start() may wait for ever and the process may abort.
CHECK_DEADLOCK FALSE
