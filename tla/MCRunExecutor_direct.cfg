SPECIFICATION MCSpec
CONSTANTS
  Locked = TRUE
  MaxRestarts = 1
  MaxDirect = 1
INVARIANTS
  AbortReadsNoImage
CHECK_DEADLOCK FALSE
