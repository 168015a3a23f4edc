CONSTANTS
  HEAD = 24
  ALIGN = 8
  MINIMUM = 8
  ARENA = 192
  WORD = 192
  INT = 192
  NULL = NULL
  JUNK = JUNK
  Version = "merge"
  Requests = {3, 20, 40}
  Blocks = 3
  BenchRequests = {3, 20}
  MaxRequest = 800
SPECIFICATION LazySpec
INVARIANTS
  BoundaryTags
  ListHoldsFree
  TakenBlocksAreOwned
  BenchSanityQuiet
  AdjustIsLeast
  AdjustIsAligned
PROPERTIES
  FailsOnlyWhenFull
  SearchEnds
  ImplementsBlockStore
CHECK_DEADLOCK FALSE
