SPECIFICATION MCSpec
CONSTANTS
  Slots = {"r1"}
  Clients = {"desktop"}
  Method = "deepSky"
  Results <- AllResults
  MaxAttempts = 2
  MaxCorrections = 2
  MaxRecoveries = 1
  Frames = {1}
  DenyOuter = FALSE
  MaxKeys = 4
  MaxClock = 0
  Page = "desktop"
  MaxLease = 1
  MaxTurns = 1
  MaxLost = 1
PROPERTIES
  StoppedRunRests
CHECK_DEADLOCK FALSE
