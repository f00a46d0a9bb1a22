SPECIFICATION FairSpec
CONSTANTS
  w1 = w1
  w2 = w2
  Waiters <- MCWaiters
  Limits <- MCLimits
  Defaults <- MCDefaults
  NoDate = NoDate
  Empty = Empty
  Startup = Startup
  Nobody = Nobody
INVARIANTS TypeOK WaitedForSettings
PROPERTIES WaitersReturn BreakerEnds
\* The program exits.
CHECK_DEADLOCK FALSE
