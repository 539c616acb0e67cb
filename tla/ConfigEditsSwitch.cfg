CONSTANTS
  Names = {"a", "b"}
  Urls = {"wb", "u"}
  Accounts = {"wb"}
  Tokens = {"t1", "t2"}
  EnvSet = TRUE
  Initials <- MCSwitchedOff
  Inputs <- MCOther
  NewEntries <- MCNewEntries
  MaxEdits = 2
SPECIFICATION Spec
PROPERTIES
  SwitchedOffStaysOff
