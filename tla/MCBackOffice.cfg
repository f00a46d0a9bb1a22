SPECIFICATION FairSpec
CONSTANTS
  r1 = r1
  r2 = r2
  r3 = r3
  cFirst = cFirst
  cSecond = cSecond
  cUnnamed = cUnnamed
  cAbstract = cAbstract
  Requests <- MCRequests
  Controllers <- MCControllers
  Info <- MCInfo
  Names <- MCNames
  NameOrders <- MCNameOrders
  Paths <- MCPaths
  Serves <- MCServes
  Envs <- MCEnvs
  Authorization <- MCAuthorization
  Blank = ""
  Torn = Torn
  Nobody = Nobody
INVARIANTS TypeOK FilledOnce LateAccessComplete NoControllerLeaked
PROPERTIES RequestsAnswered
\* Every object answers one request.
CHECK_DEADLOCK FALSE
