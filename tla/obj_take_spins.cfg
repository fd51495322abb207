SPECIFICATION FairSpec
CONSTANTS
  Threads = {t1, t2}
  MAX_NBR_ZONES = 2
  BASE_SIZE = 1
  GROW_RATE_NUM = 2
  GROW_RATE_DEN = 1
  SizeMod = 16
  MayThrow = FALSE
  NULL = NULL
  Thrown = Thrown
  Objs = {o1, o2, o3}
  CtorSize = 1
PROPERTY LoneTakeReturns
