SPECIFICATION RoutingSpec
CONSTANTS
  Instance = {1, 2}
  Key = {k1}
  Client = {c1}
  Mover = {m1}
  PerKey = 1
  DrainOnRotate = TRUE
  MaxTroubled = 2
  None = None
SYMMETRY Symmetry
INVARIANTS
  StaysPut
PROPERTIES
  RefusedOnlyWhenNoneServes
