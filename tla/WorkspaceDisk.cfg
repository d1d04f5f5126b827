SPECIFICATION DirectorySpec
CONSTANTS
  None = None
  Sensors = {"AIRY", "GEMINI"}
  Rigs <- AlonePlusBoth
  FirstRig = {"AIRY"}
  MaxProjects = 2
  MaxSessions = 2
  MaxSaves = 2
  MaxRegs = 1
  MaxEdits = 1
  MaxCalls = 6
  MaxCrashes = 1
  Units = {"cam1", "cam2", "board"}
  Facts <- SomeFacts
  Sockets = {"usb1", "usb2"}
  Catalog <- OneModel
  Titles <- OneTitle
  MaxParts = 2
  MaxMoves = 3
  MaxOrders = 2
  MaxFalls = 1
  ShippedFiles <- FewFiles
CHECK_DEADLOCK FALSE
INVARIANTS DirectoryTypeOK SavedIsWhole NothingOrphaned RightCamera
PROPERTIES EvidenceKept OpensOwn ProfiledAtOnce ConfigsKept
