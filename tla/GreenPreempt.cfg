CONSTANTS
  Main = main
  Threads = {main, g0, g1}
  Mutexes = {m0, m1}
  NULL = NULL
  Windows = {"user", "walk", "test", "free"}
SPECIFICATION Spec
INVARIANTS
  ListsSound
  RunningRuns
  JoinerIsReady
  NeverStuck
PROPERTY ImplementsGreen
CHECK_DEADLOCK FALSE
