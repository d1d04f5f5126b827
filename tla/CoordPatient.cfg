SPECIFICATION CapturesOrLinks
CONSTANTS
  None = None
  c = c
  p1 = p1
  p2 = p2
  Node = {c, p1, p2}
  Session = {s1}
  Coordinator = c
  Owner <- MCOwner
  Limit <- MCLimit
  Beating = {p1}
  MaxConn = 2
  MaxInvites = 1
  MaxOps = 2
  MaxSubmaps = 0
  MaxDrops = 1
  MaxRestarts = 0
INVARIANT QuiescentAgreement
PROPERTIES ImplementsCoordinatedCapture StartReachesFollowers HeartbeatHeals
CHECK_DEADLOCK FALSE
