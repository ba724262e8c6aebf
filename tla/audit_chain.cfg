SPECIFICATION Spec
CONSTANTS
  Clients = {c1, c2}
  Writers = {w1, w2}
  MAX_APPEND_ATTEMPTS = 3
  MaxAppends = 5
  Faulty = TRUE
SYMMETRY Symmetry
INVARIANTS
  ChainIntact
  RecordedOnce
  GivesUpUnderContention
  TamperEvident
PROPERTIES
  AppendIsAtomic
CHECK_DEADLOCK FALSE
