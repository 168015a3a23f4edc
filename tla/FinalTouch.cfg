CONSTANTS
  Main = main
  g0 = g0
  g1 = g1
  Threads = {main, g0, g1}
  mutex = mutex
  Mutexes = {mutex}
  cond = cond
  Conds = {cond}
  NULL = NULL
  Loop = 3
SPECIFICATION Spec
INVARIANT OneInside
CHECK_DEADLOCK FALSE
