SPECIFICATION FairSpec
CONSTANTS
  outer = outer
  inner = inner
  shallow = shallow
  deep = deep
  nested = nested
  alone = alone
  printer = printer
  maintence = maintence
  actuator = actuator
  printed = printed
  NoObject = NoObject
  Objects <- MCObjects
  Kind <- MCKind
  Parent <- MCParent
  MaxCalls = 5
INVARIANTS
  TypeOK
  RollbackReachesNearest
  AnswersOwnFailures
PROPERTIES
  WalksEnd
\* The thread has made all of its calls.
CHECK_DEADLOCK FALSE
