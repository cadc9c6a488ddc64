SPECIFICATION FairSpec
CONSTANTS
  Instance = {i1}
  Job = {j1, j2}
  Reporter = {r1}
  Faults = {}
  Operators = FALSE
  None = None
PROPERTY
  RecoversOnItsOwn
