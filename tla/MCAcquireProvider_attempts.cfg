SPECIFICATION MCSpec
CONSTANTS
  Calls = {"a", "b"}
  Plan <- Centring
  Settings <- AllSettings
  Requests = {"r", "s"}
  Selected <- AllSelected
  Limit = 1
  Devices <- RigDevices
  MaxStarts = 3
  MaxSelects = 1
  MaxRestarts = 1
  MaxCuts = 1
  MaxChanges = 3
  MaxFailed = 2
INVARIANTS
  LedgerIsSound
  ImageIsTheAttempts
  ProvidersTellTruth
PROPERTIES
  AloneRetainedIsSolved
CHECK_DEADLOCK FALSE
