SPECIFICATION Spec
CONSTANTS
  sA = sA
  sB = sB
  sC = sC
  Scopes <- MCScopes
  Synchronized <- MCSynchronized
  ScopeLists <- MCScopeLists
  Intervals <- MCIntervals
  MaxRuns = 2
  NoTask = NoTask
INVARIANTS TypeOK SyncExclusive MutexOwner TimerDiscipline StartFindsNoTask AgentFreesTasks OverlapOnlyAfterTimeout SpinNeverLost
PROPERTY ServiceSpec
\* start() may wait for ever and the process may abort.
CHECK_DEADLOCK FALSE
