CONSTANTS
  room = room
  Rooms = {room}
  Faults = {"settings", "proxy", "virtualizer", "publish", "start", "stop",
            "studio file", "room", "app", "queue"}
  MaxRequests = 3
  MaxJackEvents = 2
  MaxChildren = 1
SPECIFICATION Spec
INVARIANTS
  ProxyFollowsServer
  NobodyElseConsumes
  StudioReplaced
PROPERTIES
  ServerStoppedLast
  ExitUnloads
