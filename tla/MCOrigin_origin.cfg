SPECIFICATION MCSpec
CONSTANTS
  Kids = {"k1", "k2"}
  Requests = {"a", "b"}
  KidOf <- Headers
  Context = "desktop"
  None = None
  Ttl = 2
  FetchLimit = 1
  Interval = 1
  MaxUnknown = 1
  MaxRotations = 1
  MaxEdits = 1
  MaxFailures = 0
  Edits = {"e", "f"}
  MaxSaves = 2
  MaxPreviews = 2
  MaxMoves = 2
  MaxTurns = 1
  MaxLost = 1
INVARIANTS
  AdmissionIsSound
  LanesAreRight
PROPERTIES
  AdmissionSettles
  PlanIsAsShown
CHECK_DEADLOCK FALSE
