SPECIFICATION SessionsFairSpec
CONSTANTS
  Key = {k1, k2, k3}
  PortKey = {k1}
  Instance = {i1, i2}
  Request = {r1, r2}
  TTL = 1
  MaxSessions = 2
  None = None
INVARIANTS
  SessionsTypeOK
  CountsTraffic
PROPERTIES
  IdleSessionsGo
