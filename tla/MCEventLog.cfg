SPECIFICATION FairSpec
CONSTANTS
  Producer = {p1, p2}
  Subscriber = {s1, s2}
  Size = 2
  Buffer = 2
  MaxSeq = 3
INVARIANTS
  RecentIsNewest
  MissesOnlyOverflow
  AuthorsKeepOrder
PROPERTIES
  NeverWaits
CHECK_DEADLOCK FALSE
