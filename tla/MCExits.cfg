SPECIFICATION Spec
CONSTANTS
  j1 = j1
  j2 = j2
  Job <- MCJob
  Relay = {r1, r2}
  Does <- MCDoes
  None = None
  PinExitRelay = TRUE
  MaxCircuits = 1
SYMMETRY Symmetry
INVARIANTS
  
  PinIsTors
PROPERTIES
  NewnymTakesEffect
  RotationChangesExit
CHECK_DEADLOCK FALSE
