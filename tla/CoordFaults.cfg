SPECIFICATION Spec
CONSTANTS
  None = None
  c = c
  p1 = p1
  p2 = p2
  s1 = s1
  s2 = s2
  Node = {c, p1, p2}
  Session = {s1}
  Owner <- OneOwner
  Beating = {p1}
  Limit <- MCLimit
  MaxConn = 2
  MaxInvites = 1
  MaxOps = 2
  MaxSubmaps = 1
  MaxDrops = 1
  MaxRestarts = 1
 
PROPERTIES CaptureFollowsCommands
CONSTRAINT FaultsOrRelay
CHECK_DEADLOCK FALSE
