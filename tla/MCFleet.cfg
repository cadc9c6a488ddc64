SPECIFICATION Spec
CONSTANTS
  Resizer = {r1, r2}
  Worker = {w1, w2}
  PoolSize = 2
  Sizes = {1, 2, 3}
  MaxMade = 3
  MaxResizes = 2
  InstancePortBase = 65532
  instancePortBlock = 2
  None = None
SYMMETRY Symmetry
INVARIANTS
  PortsAreDistinct
  WorkIsExclusive
PROPERTIES
  SoleResizeIsExact
CHECK_DEADLOCK FALSE
