SPECIFICATION MCSpec
CONSTANTS
  Locked = TRUE
  MaxRestarts = 2
  MaxDirect = 1
INVARIANTS
  RunIsSound
  CommandsSentOnce
  OwnImageIsRead
PROPERTIES
  HaltedRunIsLeftAlone
  AloneStoppedRunSettles
CHECK_DEADLOCK FALSE
