SPECIFICATION FairSpec
CONSTANTS
  None = None
  c = c
  p1 = p1
  p2 = p2
  s1 = s1
  a = a
  b = b
  Scanner = {c, p1}
  Host = {c, p1}
  Coord = c
  Area = {a, b}
  Clouds <- MCWalking
  Triggering = {c}
  MaxCreates = 1
  MaxPublish = 3
  MaxTriggers = 0
  MaxClears = 0
  MaxLeaves = 1
  MaxSims = 0
PROPERTY CloudsSpread
CHECK_DEADLOCK FALSE
