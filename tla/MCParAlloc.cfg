SPECIFICATION FairSpec
CONSTANTS
  Worker = {w1, w2, w3}
  Fields = 3
  Inner <- Balanced
  RegionOnSpawn = FALSE
  None = None
INVARIANTS
  TypeOK
  AvailableIsDone
  JoinedIsComplete
  OneWriterPerRegion
  PointersReadBack
  SomeoneWorks
PROPERTIES
  ImplementsTreeBuild
  WrittenOnce
  Termination
CHECK_DEADLOCK FALSE
