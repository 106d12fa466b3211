SPECIFICATION MCSpec
CONSTANTS
  Clients <- MCClients
  NameOf <- MCNameOf
  SecondName <- MCSecondName
  AppOf <- MCAppOf
  PortsOf <- MCPortsOf
  System = "system"
  NoApp = "none"
  MaxEvents = 5
  CallFails = TRUE
  Disturbances = {}
INVARIANTS
  AssertionsHold
  GraphsShowJack
  CountExact
  ConnectionsRestored
CHECK_DEADLOCK FALSE
