SPECIFICATION Spec
CONSTANTS
  Worker = {w1, w2}
  Fields = 2
  Inner <- Balanced
  RegionOnSpawn = FALSE
  None = None
INVARIANT IndirectionsReadBack
CHECK_DEADLOCK FALSE
