SPECIFICATION MCSpec
CONSTANTS
  c1 = c1
  r1 = r1
  r2 = r2
  None = None
  NoTarget = NoTarget
  Projects = {1, 2}
  Clients = {c1}
  Requests = {r1, r2}
  Assets = {1, 2, 3, 4}
  Roles = {"Lights", "Unassigned"}
  SuggestedRole <- Mixed
  Target <- Targets
  Drafts <- OneChoice
  HistoryLimit = 2
  AdapterOutcomes = {"sha256", "unverified", "unresolved"}
  TornWrites = TRUE
  MaxAttempts = 5
  MaxWork = 5
  MaxDraftRevision = 1
  MaxCrashes = 2
INVARIANTS
  WorkIsSound
  LineageIsSound
  AppliesWhatWasPreviewed
  OfferedIsAccepted
PROPERTIES
  AttemptsAreImmutable
  SharedAttemptsSettle
CHECK_DEADLOCK FALSE
