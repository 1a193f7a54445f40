CONSTANTS
  Con = {"Leaf", "Nil", "Node"}
  ScalarBytes <- TreeScalars
  Fields <- TreeFields
  heap_start = 50000
  heap_end = 50170
  OldBase = 1000
  CHUNK_SIZE = 1024
  GIB_MAX_CHUNK_SIZE = 65500
  Var = {x1, x2, x3}
  RegionSizes = {80}
  gib_nursery_region_max_size = 160
  ReservedBytes = 9
  MaxWrites = 5
  MaxGrowths = 0
  MaxCollections = 1
  EmptyWriters = FALSE
  Sharing = "aliased"
  Fuel = 20
SPECIFICATION Spec
SYMMETRY VarSymmetry
INVARIANT ValuesPreserved
CHECK_DEADLOCK FALSE
