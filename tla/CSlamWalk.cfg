SPECIFICATION Spec
CONSTANTS
  None = None
  c = c
  p1 = p1
  p2 = p2
  s1 = s1
  a = a
  b = b
  Scanner = {c, p1, s1}
  Host = {c, p1}
  Coord = c
  Area = {a, b}
  Clouds <- MCWalking
  Triggering = {c}
  MaxCreates = 2
  MaxPublish = 2
  MaxTriggers = 1
  MaxClears = 1
  MaxLeaves = 1
  MaxSims = 1
INVARIANTS CoordinatorInJoinOrder CoordinatorApart CoordinatorOneMap
 
CONSTRAINT WalkOrClears
CHECK_DEADLOCK FALSE
