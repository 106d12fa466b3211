SPECIFICATION Spec
CONSTANTS
  Names = {"a", "b"}
  Ports = {"capture", "playback"}
  MaxRooms = 3
  MaxQueue = 2
  MaxOps = 5
  Failures = {"link", "load", "save"}
INVARIANTS
  RoomsDiffer
  LinksBelong
  SignalsFindRooms
PROPERTIES
  WaitsEnd
CHECK_DEADLOCK FALSE
