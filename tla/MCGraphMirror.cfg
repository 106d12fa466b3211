SPECIFICATION MCSpec
CONSTANTS
  MaxClients = 3
  MaxPorts = 4
  MaxOps = 3
  MaxViews = 1
  CallFails = TRUE
  StaleIds = FALSE
INVARIANTS
  VisibleInside
  CanvasInSync
  CanvasFollows
CHECK_DEADLOCK FALSE
