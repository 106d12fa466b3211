SPECIFICATION SpecSaves
CONSTANTS
  Apps = {"a", "b"}
  MaxBackups = 2
  MaxSaves = 3
  MaxEvents = 4
INVARIANTS
  Waits
  SessionSurvives
PROPERTY
  SuccessIsWhole
CHECK_DEADLOCK FALSE
