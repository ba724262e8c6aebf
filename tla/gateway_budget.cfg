SPECIFICATION Spec
CONSTANTS
  Runs = {r1, r2}
  cheap = cheap
  strong = strong
  NoModel = NoModel
  Models = {cheap, strong}
  Rate <- PriceList
  Matrix <- ModelMatrix
  FallbackModel = cheap
  ATTEMPTS = 2
  MAX_RETRIES = 1
  MAX_ESCALATIONS = 1
  MaxUsd = 4
  MaxTotalTokens = 2
  HardHalt = TRUE
  MaxSize = 1
  Drift = 1
  MaxCalls = 1
  MaxLayers = 3
  MaxResumes = 1
SYMMETRY Symmetry
INVARIANTS
  TypeOK
  OvershootBounded
  GuardArmed
PROPERTIES
  NoAttemptAfterAbort
CHECK_DEADLOCK FALSE
