CONSTANTS
  Chunk = {c1, c2, c3, c4}
  NULL = NULL
  RefcountMod = 4
  MaxIndirections = 6
SPECIFICATION Spec
SYMMETRY ChunkSymmetry
INVARIANTS
  TypeOK
  RefcountExact
  NoDangling
  FreedOnce
  NullZctUnused
CHECK_DEADLOCK FALSE
