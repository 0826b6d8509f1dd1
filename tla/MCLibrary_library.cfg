SPECIFICATION MCSpec
CONSTANTS
  Assets = {"m", "n", "u"}
  Works <- GoodWorks
  FileSum <- Files
  Unknown = {"u"}
  Workers = {"p", "q"}
  MaxFaults = 2
  MaxReviews = 1
  Images = {"x", "y"}
  Facts = {"early", "late"}
  MaxIntakeFaults = 6
INVARIANTS
  OutboxIsSound
  IntakeIsSound
PROPERTIES
  KeptForGood
  WorkGetsDone
CHECK_DEADLOCK FALSE
