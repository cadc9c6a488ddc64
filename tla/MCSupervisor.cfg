SPECIFICATION FairSpec
CONSTANTS
  Caller = {c1, c2}
  First = c1
  MaxProcs = 4
  None = None
INVARIANTS
  SoleRestartIsClean
  StartingIsALaunch
PROPERTIES
  EveryCallReturns
CHECK_DEADLOCK FALSE
