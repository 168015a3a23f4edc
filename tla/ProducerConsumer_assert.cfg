CONSTANTS
  Main = main
  g0 = g0
  g1 = g1
  Threads = {main, g0, g1}
  mutex = mutex
  Mutexes = {mutex}
  full = full
  empty = empty
  Conds = {full, empty}
  NULL = NULL
  Productions = 4
SPECIFICATION Spec
INVARIANT AssertionHolds
CHECK_DEADLOCK FALSE
