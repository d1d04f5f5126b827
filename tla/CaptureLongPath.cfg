SPECIFICATION Spec
CONSTANTS
  None = None
  s1 = s1
  s2 = s2
  Active <- One
  MaxStarts = 1
  MaxScans = 2
  MaxLate = 0
  MaxCrashes = 0
  MaxBacklog = 1
  LineLimit = 1
INVARIANT PullIsWhole
CHECK_DEADLOCK FALSE
