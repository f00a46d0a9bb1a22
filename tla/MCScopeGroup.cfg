SPECIFICATION FairSpec
CONSTANTS
  cA = cA
  cB = cB
  Classes <- MCClasses
  Synchronize <- MCSynchronize
  Groups <- MCGroups
  Rank <- MCRank
  Settings <- MCSettings
  Methods <- MCMethods
  MaxStacks = 2
  MaxPosted = 2
INVARIANTS TypeOK RegistryComplete InvocationOrdered OneClassRunsItsOwn
PROPERTIES BindingsStable InvocationsComplete
\* The bound on stack ids ends a behaviour.
CHECK_DEADLOCK FALSE
