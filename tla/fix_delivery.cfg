SPECIFICATION FairSpec
CONSTANTS
  Finding <- MCFinding
  Confirmed <- MCConfirmed
  Proposals <- MCProposals
  Deterministic <- MCDeterministic
  NoPatch = NoPatch
  Configs <- MCConfigs
  Attempts = 2
  MaxFaults = 2
  MaxStalls = 1
  MaxResumes = 1
INVARIANTS
  TypeOK
  AutoEligibleSound
  PrsGated
  OnePrPerFix
  GateOnAllFixes
PROPERTIES
  LayersEnd
CHECK_DEADLOCK FALSE
