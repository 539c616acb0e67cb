CONSTANTS
  Names = {"a", "b"}
  Urls = {"wb", "u"}
  Accounts = {"wb"}
  Tokens = {"t1", "t2"}
  EnvSet = TRUE
  Initials <- MCInitials
  Inputs <- MCInputs
  NewEntries <- MCNewEntries
  MaxEdits = 2
SPECIFICATION Spec
INVARIANTS
  InSyncUnlessPending
PROPERTIES
  OneConfiguration
  ModelsOfTheEndpoint
  RenewsWhatItAsked
