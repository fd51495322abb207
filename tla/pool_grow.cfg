SPECIFICATION Spec
CONSTANTS
  Threads = {t1, t2, t3}
  MAX_NBR_ZONES = 2
  BASE_SIZE = 2
  GROW_RATE_NUM = 3
  GROW_RATE_DEN = 2
  SizeMod = 16
  ExpandSizes = {2}
  MayThrow = TRUE
  NULL = NULL
  Thrown = Thrown
SYMMETRY Interchangeable
INVARIANTS TypeOK Conserved AvailExact ZonesDense ClearAssert
