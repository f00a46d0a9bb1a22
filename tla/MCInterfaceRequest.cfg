SPECIFICATION FairSpec
CONSTANTS
  r1 = r1
  r2 = r2
  Requests <- MCRequests
  MaxConnections = 1
INVARIANTS TypeOK ActiveOnConnection HandlerPrepared OkIsCommitted ConnectionReturned
PROPERTIES OutcomeSpec RequestsEnd
\* All the requests may be gone.
CHECK_DEADLOCK FALSE
