SPECIFICATION StreamSpec
CONSTANTS
  Hub = "c"
  Members = {"p1"}
  Crews = {{"c", "p1"}}
  Size = 2
  Room = 2
  MaxSubmaps = 3
  Beaters = {}
  MaxBeats = 0
PROPERTY LiveMergedCloud
CHECK_DEADLOCK FALSE
