SPECIFICATION Spec
CONSTANTS
  api = api
  w1 = w1
  a1 = a1
  a2 = a2
  b1 = b1
  b2 = b2
  NoHandler = NoHandler
  Apis = {api}
  Workers = {w1}
  Handlers = {a1, b1, b2}
  Home <- HomeTwin
  Ops = {"start", "resume", "reconcile", "killall"}
  Faults = {"runner", "evict"}
  MaxRequests = 2
  MaxFailures = 2
  EstimateRequired = TRUE
  ApproverRequired = TRUE
  AutoFixEnabled = TRUE
  DastConfigured = TRUE
  DastRequiresApprover = TRUE
  HardHalt = TRUE
INVARIANTS
  OneRunner
CHECK_DEADLOCK FALSE
