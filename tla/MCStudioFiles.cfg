SPECIFICATION MCSpec
CONSTANTS
  Names = {"a", "b"}
  NoName = "none"
  MaxRecent = 3
  MaxQueue = 3
  MaxOps = 6
INVARIANT
  SavedIsKept
PROPERTY
  StrangersUntouched
CHECK_DEADLOCK FALSE
