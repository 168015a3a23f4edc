CONSTANTS
  HEAD = 24
  ALIGN = 8
  MINIMUM = 8
  ARENA = 192
  WORD = 192
  INT = 1024
  NULL = NULL
  JUNK = JUNK
  Version = "merge"
  Requests = {3, 20, 40}
SPECIFICATION FairSpec
INVARIANTS
  TypeOK
  BoundaryTags
  NoAdjacentFree
  FreeListLinked
  TakenBlocksAreOwned
  CursorOnList
  WholeAgain
  FirstFit
  SanityQuiet
  TraverseQuiet
PROPERTIES
  RefusesOnlyWhenFull
  CallsReturn
  ImplementsBlockStore
