CONSTANTS
  Con = {"Leaf", "Node"}
  ScalarBytes <- NoScalars
  Fields <- TreeFields
  heap_start = 50000
  heap_end = 50030
  OldBase = 1000
  CHUNK_SIZE = 1024
  GIB_MAX_CHUNK_SIZE = 65500
  Var = {x1, x2}
  RegionSizes = {57}
  gib_nursery_region_max_size = 40
  ReservedBytes = 9
  MaxWrites = 10
  MaxGrowths = 2
  MaxCollections = 0
  EmptyWriters = FALSE
  Sharing = "free"
  Fuel = 20
SPECIFICATION Spec
SYMMETRY VarSymmetry
PROPERTY FootersIntact
CHECK_DEADLOCK FALSE
