SPECIFICATION FairSpec
CONSTANTS
  h1 = h1
  h2 = h2
  k1 = k1
  k2 = k2
  own = own
  edited = edited
  production = production
  Handlers <- MCHandlers
  Workers <- MCWorkers
  Bodies <- MCBodies
  Allowed <- MCAllowed
  Steps = 2
  RequestCap = 2
  MaxJobs = 1
  MaxRequests = 5
  MAX_STALLED = 1
INVARIANTS
  TypeOK
  ProbesGranted
  RejectedSentNothing
PROPERTIES
  RunsSettle
CHECK_DEADLOCK FALSE
