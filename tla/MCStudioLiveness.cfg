CONSTANTS
  room = room
  Rooms = {room}
  Faults = {"start", "stop", "studio file", "room", "app"}
  MaxRequests = 2
  MaxJackEvents = 2
  MaxChildren = 1
SPECIFICATION FairSpec
PROPERTIES
  JackIsFollowed
  QueueDrains
