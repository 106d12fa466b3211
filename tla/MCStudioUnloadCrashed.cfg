CONSTANTS
  room = room
  Rooms = {room}
  Faults = {}
  MaxRequests = 2
  MaxJackEvents = 1
  MaxChildren = 1
SPECIFICATION Spec
INVARIANT UnloadFindsRoomsStopped
