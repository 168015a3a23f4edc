CONSTANTS
  Main = main
  Threads = {main, g0, g1}
  Mutexes = {mutex}
  Conds = {cond}
  WaitWith = {NULL}
  NULL = NULL
SPECIFICATION FairSpec
INVARIANTS
  TypeOK
  OneHome
  WaitsWhereItShould
  MutualExclusion
  TakenHasOneOwner
  FreedHaveEnded
  NeverDies
PROPERTIES
  LockIsGranted
  ReadyRuns
  ImplementsLock
CHECK_DEADLOCK FALSE
