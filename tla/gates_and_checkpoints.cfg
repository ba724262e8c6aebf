SPECIFICATION Spec
CONSTANTS
  api = api
  w1 = w1
  a1 = a1
  a2 = a2
  b1 = b1
  b2 = b2
  NoHandler = NoHandler
  Apis = {api}
  Workers = {w1}
  Handlers = {a1, b1}
  Home <- HomeOne
  Ops = {"start", "approve", "resume", "reconcile"}
  Faults = {"runner", "crash"}
  MaxRequests = 4
  MaxFailures = 1
  EstimateRequired = TRUE
  ApproverRequired = TRUE
  AutoFixEnabled = TRUE
  DastConfigured = TRUE
  DastRequiresApprover = TRUE
  HardHalt = TRUE
INVARIANTS
  JobsInOrder
  LiveApproved
PROPERTIES
  ImplementsPipeline
CHECK_DEADLOCK FALSE
