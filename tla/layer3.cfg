SPECIFICATION FairSpec
CONSTANTS
  Candidates <- MCCandidates
  CorrelatedMap <- MCCorrelatedMap
  Answers <- MCAnswers
  Marks = {}
  LaterMarks <- MCLaterMarks
  Shapes = {}
  AppMap <- MCAppMap
  Jobs <- MCJobs
  Allowlist = {"staging", "prod"}
  Production = {"prod"}
  Responses <- MCResponses
  Payloads <- MCPayloads
  RequestCap = 4
  MutatingCap = 1
  RPS = 2
  Window = 2
  MaxTurns = 2
  Verifiers = 3
  Severities = {"critical", "high"}
  Scenario <- MCScenario
  NoScenario = NoScenario
  MAX_ADAPTIVE_ROUNDS = 3
  MaxCrashes = 1
INVARIANTS
  TypeOK
  ProbesGuarded
  KillPrompt
  ClassifiedOnce
  VerdictBacked
PROPERTIES
  NoProbeAfterKill
  LayerEnds
CHECK_DEADLOCK FALSE
