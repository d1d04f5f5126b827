SPECIFICATION Spec
CONSTANTS
  None = None
  c = c
  p1 = p1
  p2 = p2
  s1 = s1
  s2 = s2
  Node = {c, p1}
  Session = {s1}
  Owner <- OneOwner
  Beating = {}
  Limit <- MCLimit
  MaxConn = 2
  MaxInvites = 1
  MaxOps = 2
  MaxSubmaps = 0
  MaxDrops = 1
  MaxRestarts = 0
INVARIANTS ReconnectSyncs
CHECK_DEADLOCK FALSE
