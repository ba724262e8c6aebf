SPECIFICATION Spec
CONSTANTS
  api = api
  w1 = w1
  a1 = a1
  a2 = a2
  b1 = b1
  b2 = b2
  NoHandler = NoHandler
  Apis = {api}
  Workers = {w1}
  Handlers = {a1, b1, b2}
  Home <- HomeTwin
  Ops = {"start", "approve", "kill", "cancel"}
  Faults = {"store", "budget", "runner", "stall"}
  MaxRequests = 3
  MaxFailures = 1
  EstimateRequired = TRUE
  ApproverRequired = FALSE
  AutoFixEnabled = TRUE
  DastConfigured = TRUE
  DastRequiresApprover = TRUE
  HardHalt = TRUE
SYMMETRY TwinSymmetry
INVARIANTS
  CheckpointSound
  EstimateGate
  KillReachesRunning
PROPERTIES
  KillStopsStart
CHECK_DEADLOCK FALSE
