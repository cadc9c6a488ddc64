SPECIFICATION FairSpec
CONSTANTS
  Instance = {i1}
  Job = {j1, j2}
  Reporter = {r1}
  Faults = {"crash", "stall", "error"}
  Operators = TRUE
  None = None
INVARIANTS
  TypeOK
  OneRemediationPerInstance
  MarksAreHeld
PROPERTIES
  FlagComesDown
  MarkComesDown
  DeadTorIsRestarted
