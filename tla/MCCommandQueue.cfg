CONSTANTS
  start = start
  load = load
  renew = renew
  reload = reload
  Requests <- MCRequests
  Parts <- MCParts
SPECIFICATION Spec
INVARIANTS
  QueueConsistent
  PartsInSequence
  
PROPERTY ImplementsSerialRequests
CHECK_DEADLOCK FALSE
