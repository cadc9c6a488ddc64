SPECIFICATION FairSpec
CONSTANTS
  Token = {t1, t2}
  MaxClock = 2
  Absent = Absent
  None = None
INVARIANTS
  GrantedSurvives
  RevokedStaysRevoked
PROPERTIES
  StampsAreSaved
