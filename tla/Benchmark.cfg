CONSTANTS
  HEAD = 24
  ALIGN = 8
  MINIMUM = 8
  ARENA = 240
  WORD = 240
  INT = 1024
  NULL = NULL
  JUNK = JUNK
  Version = "final"
  Requests = {8, 24}
  requested = 4
SPECIFICATION BenchSpec
INVARIANT SizesInArena
