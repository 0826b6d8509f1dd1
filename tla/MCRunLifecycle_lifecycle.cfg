SPECIFICATION MCSpec
CONSTANTS
  Clients = {"desktop", "laptop", "guest"}
  Person <- Persons
  Owners = {"owner"}
  ReadOnly = {}
  NoClient = "nobody"
  NoRun = NoRun
  Keys = {1, 2}
  Drafts <- ClearOrNot
  Executors = {"fake", "real", "unavailable"}
  SequenceCount = 2
  Kinds = {"save", "accept", "start", "pause", "resume", "stop", "skip", "retry", "park", "preview", "apply", "approve"}
  MaxLease = 2
  MaxPlan = 2
  MaxRun = 6
  MaxPreviews = 2
INVARIANTS
  RunIsSound
  KeysTakeEffectOnce
  OfferedIsAccepted
PROPERTIES
  RunMovesAsCommanded
CHECK_DEADLOCK FALSE
