SPECIFICATION RoutingSpec
CONSTANTS
  Instance = {1, 2, 3}
  Key = {k1}
  Client = {c1, c2}
  Mover = {m1}
  PerKey = 2
  DrainOnRotate = TRUE
  MaxTroubled = 0
  None = None
SYMMETRY Symmetry
INVARIANTS
  StaysPut
VIEW Unjudged
