SPECIFICATION FairSpec
CONSTANTS
  Threads = {t1, t2}
  MAX_NBR_ZONES = 2
  BASE_SIZE = 2
  GROW_RATE_NUM = 3
  GROW_RATE_DEN = 2
  SizeMod = 16
  ExpandSizes = {2}
  MayThrow = FALSE
  NULL = NULL
  Thrown = Thrown
PROPERTIES OthersReturn SpinsOnlyWhenStale
