SPECIFICATION FairSpec
CONSTANTS
  N = 3
  MaxBlocks = 4
  MaxJobs = 2
  NULL = NULL
INVARIANTS TypeOK FuncAlive RunOnce BlocksOnce QuietEvents
PROPERTY MasterReturns
