SPECIFICATION FairSpec
CONSTANTS
  Callers = {c1, c2}
  Workers = {w1, w2}
  TaskCells = {k1, k2}
  Buffers = {b1, b2}
  DstW = 3
  DstH = 3
  TileW = 2
  TileH = 2
  BufferFlag = TRUE
  Builds <- MCBuilds
  MaxCalls = 2
  NULL = NULL
INVARIANTS TypeOK TrgAlive WrittenOnce AllReturned
PROPERTY PlaneEnds
