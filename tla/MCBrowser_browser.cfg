SPECIFICATION MCSpec
CONSTANTS
  Projects = {"a", "b"}
  MaxRevision = 3
  MaxRoutes = 2
  MaxOperations = 2
  MaxFailing = 1
  MaxRestarts = 1
  LateBootstrap = TRUE
  MaxChanges = 2
  MaxErrors = 1
  MaxCommands = 1
  Capacity = 2
  Kinds = {"Control", "Plan", "Preview", "Observe", "Preflight"}
  Faults = {"Purge", "Refuse", "Stall", "Fail"}
  Assets = {"a", "b"}
  MaxReviews = 2
  MaxElsewhere = 1
  Keys = {"k"}
  Forms = {"library", "source"}
  MaxIntents = 2
  MaxAdditions = 1
  Refusals = FALSE
INVARIANTS
  PagesAreRouted
  CreatedOnce
PROPERTIES
  NothingOvertakes
  PagesSettle
CHECK_DEADLOCK FALSE
