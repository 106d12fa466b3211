CONSTANTS
  MaxApps = 2
  MaxProcs = 2
  MaxRequests = 3
  MaxJackEvents = 2
SPECIFICATION FairSpec
INVARIANT TypeOK
INVARIANT ChildrenHaveApps
INVARIANT ZombiesAreDying
INVARIANT RemoveFindsStopped
PROPERTY ServerOutlivesApps
PROPERTY CommandsEnd
PROPERTY ZombiesLeave
