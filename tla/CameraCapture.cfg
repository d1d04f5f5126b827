SPECIFICATION BenchSpec
CONSTANTS
  None = None
  p1 = p1
  p2 = p2
  Place = {p1, p2}
  NumScaleFrames = 2
  Kinds = {"LINGBOT", "ABOT", "VITURE", "STEREO"}
  View <- Twice
  MaxFrames = 3
  MaxMishaps = 1
  MaxLateFrames = 1
  MaxStarts = 2
  MaxStreams = 3
  MaxCallbacks = 2
  Absent = Absent
  Unreadable = Unreadable
  Models <- Catalogue
  Within <- Parts
  Units <- SomeUnits
  Profiles <- FewProfiles
  Types <- SomeTypes
  Queries <- SomeQueries
INVARIANTS BenchTypeOK InOrder Quiet PointsArriveOnce PullIsWhole UvcQuiet CatalogueSound
PROPERTIES  ThreadsEnd
CHECK_DEADLOCK FALSE
