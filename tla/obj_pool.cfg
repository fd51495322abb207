SPECIFICATION Spec
CONSTANTS
  Threads = {t1, t2}
  MAX_NBR_ZONES = 2
  BASE_SIZE = 2
  GROW_RATE_NUM = 3
  GROW_RATE_DEN = 2
  SizeMod = 16
  MayThrow = TRUE
  NULL = NULL
  Thrown = Thrown
  Objs = {o1, o2, o3}
  CtorSize = 1
SYMMETRY Interchangeable
INVARIANTS TypeOK OneHolder Recorded CleanupAssert
PROPERTY UsesPoolRightly
