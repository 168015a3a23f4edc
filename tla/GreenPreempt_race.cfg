CONSTANTS
  Main = main
  Threads = {main, g0, g1}
  Mutexes = {mutex}
  NULL = NULL
  Windows = {"user", "new", "walk", "wake", "link", "zombie", "pop", "take", "cut", "run", "switch", "swapped", "test", "note", "free"}
SPECIFICATION Spec
INVARIANT NeverStuck
CHECK_DEADLOCK FALSE
