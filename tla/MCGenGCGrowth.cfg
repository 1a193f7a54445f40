CONSTANTS
  Con = {"Leaf", "Node"}
  ScalarBytes <- TreeScalars
  Fields <- TernaryFields
  heap_start = 50000
  heap_end = 50175
  OldBase = 1000
  CHUNK_SIZE = 1024
  GIB_MAX_CHUNK_SIZE = 65500
  Var = {x1, x2}
  RegionSizes = {57, 80}
  gib_nursery_region_max_size = 160
  ReservedBytes = 9
  MaxWrites = 6
  MaxGrowths = 2
  MaxCollections = 1
  EmptyWriters = TRUE
  Sharing = "linear"
  Fuel = 20
SPECIFICATION Spec
SYMMETRY VarSymmetry
INVARIANTS
  TypeOK
  StopsBehindUndone
  CursorsPromoted
  NurseryLeft
  EndsAreFooters
  MetadataLinked
PROPERTIES
  ImplementsValues
  CollectionEnds
  CollectorKeepsFooters
  FootersIntact
CHECK_DEADLOCK FALSE
