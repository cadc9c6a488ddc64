SPECIFICATION FairSpec
CONSTANTS
  i1 = i1
  i2 = i2
  k1 = k1
  k2 = k2
  Conn = {c1}
  Key <- MCKey
  Instance <- MCInstance
  PortKey <- MCPortKey
  Secret = {s1}
  Target = {t1, t2, private, long}
  Unroutable = {private}
  Overlong = {long}
  None = None
INVARIANTS
  OwnUpstream
  RevokedIsRefused
PROPERTIES
  ImplementsAccounting
  UnroutableSpared
  RequestsEnd
