SPECIFICATION Spec
CONSTANTS
  cA = cA
  cB = cB
  Classes <- MCClasses
  Synchronize <- MCSynchronize
  Groups <- MCGroups
  Rank <- MCRank
  Settings <- MCSettings
  Methods <- MCMethods
  MaxStacks = 2
  MaxPosted = 2
INVARIANT StatsRecorded
CHECK_DEADLOCK FALSE
