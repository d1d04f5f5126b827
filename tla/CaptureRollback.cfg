SPECIFICATION Spec
CONSTANTS
  None = None
  s1 = s1
  s2 = s2
  Active <- Two
  MaxStarts = 1
  MaxScans = 0
  MaxLate = 1
  MaxCrashes = 0
  MaxBacklog = 0
  LineLimit = 1
INVARIANT FailedStartStopsAll
CHECK_DEADLOCK FALSE
