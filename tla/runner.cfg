SPECIFICATION Spec
CONSTANTS
  N = 3
  Controllers = {c1, c2}
  Runner = runner
  MaxCalls = 4
INVARIANTS
  PauseHolds
  EndIsConsistent
PROPERTIES
  CancelWins
  EndsUnlessPaused
  KeepsContract
CHECK_DEADLOCK FALSE
