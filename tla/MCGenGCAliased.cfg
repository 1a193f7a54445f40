CONSTANTS
  Con = {"Leaf", "Node"}
  ScalarBytes <- TreeScalars
  Fields <- TreeFields
  heap_start = 50000
  heap_end = 50244
  OldBase = 1000
  CHUNK_SIZE = 1024
  GIB_MAX_CHUNK_SIZE = 65500
  Var = {x1, x2, x3}
  RegionSizes = {80, 256}
  gib_nursery_region_max_size = 160
  ReservedBytes = 9
  MaxWrites = 4
  MaxGrowths = 0
  MaxCollections = 2
  EmptyWriters = FALSE
  Sharing = "aliased"
  Fuel = 20
SPECIFICATION Spec
SYMMETRY VarSymmetry
INVARIANTS
  NoFault
  YoungPointersRemembered
  IndirectionsTagged
  OldPointersCounted
  NothingLiveReleased
PROPERTY ImplementsValues
CHECK_DEADLOCK FALSE
