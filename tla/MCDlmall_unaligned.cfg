CONSTANTS
  HEAD = 24
  ALIGN = 8
  MINIMUM = 8
  ARENA = 176
  WORD = 176
  INT = 1024
  NULL = NULL
  JUNK = JUNK
  Version = "final"
  Requests = {3, 20, 40}
SPECIFICATION Spec
INVARIANTS
  SanityQuiet
