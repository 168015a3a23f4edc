CONSTANTS
  Main = main
  Threads = {main, g0, g1}
  Mutexes = {mutex}
  Conds = {cond}
  WaitWith = {mutex}
  NULL = NULL
SPECIFICATION Spec
SYMMETRY Symmetry
INVARIANT OneHome
CHECK_DEADLOCK FALSE
