CONSTANTS
  Main = main
  g0 = g0
  g1 = g1
  Threads = {main, g0, g1}
  Mutexes = {}
  cond = cond
  Conds = {cond}
  NULL = NULL
  Loop = 2
SPECIFICATION Spec
PROPERTY Finishes
CHECK_DEADLOCK FALSE
