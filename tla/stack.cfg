SPECIFICATION FairSpec
CONSTANTS
  Threads = {t1, t2}
  Cells = {c1, c2, c3}
  Stacks = {s1, s2}
  NULL = NULL
  WeakCas = FALSE
  MaxVal = 5
INVARIANTS TypeOK HeadsList OnePlace CasSound
PROPERTIES LinkKept Linearizable CallReturns
CHECK_DEADLOCK FALSE
