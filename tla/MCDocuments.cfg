\* An app and an external client in the studio, an app in the room.
SPECIFICATION Spec
CONSTANTS
  StudioApps = {"s"}
  RoomApps = {"r"}
  Externals = {"x"}
  Names <- MCNames
  Commands = {0}
  RoomNames = {1}
  Texts <- MCTexts
  Wires <- MCWires
  Marked = {"s", "room"}
  MaxOps = 4
INVARIANT SavedLoads
PROPERTY LoadsBack
CHECK_DEADLOCK FALSE
