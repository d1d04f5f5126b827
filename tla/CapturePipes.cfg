SPECIFICATION StationSpec
CONSTANTS
  None = None
  s1 = s1
  s2 = s2
  Active <- One
  MaxStarts = 2
  MaxScans = 2
  MaxLate = 1
  MaxCrashes = 1
  MaxBacklog = 1
  LineLimit = 1
  Steps = 3
  Mounted = {"AIRY", "GEMINI", "CAMERA"}
  OnStart = {"GEMINI"}
  Profiled = {"GEMINI"}
  Sets <- CameraOrPair
  MaxDials = 1
  MaxAccepts = 2
  MaxTakes = 2
  MaxHits = 1
  ShippedTurns <- FewTurns
  Nodes = {"a", "b"}
  Addresses = {"x", "y"}
  Nets <- OneNetOrTwo
  MaxBoots = 3
  MaxNames = 1
  MaxMeets = 1
  MaxPeers = 1
  MaxRounds = 2
  MaxEffort = 5
  Hub = "c"
  Members = {"p1", "p2"}
  Crews <- OneAtATime
  Size = 2
  Room = 2
  MaxSubmaps = 2
  Beaters = {"c"}
  MaxBeats = 1
INVARIANTS StationTypeOK PingMeansInStep CapturingMeansRecording PointsArriveOnce ShortPullIsWhole IdentityKept
PROPERTIES NothingShownIsLost StopTakesEffect AcceptedIsUsed 
CHECK_DEADLOCK FALSE
