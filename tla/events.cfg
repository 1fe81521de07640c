SPECIFICATION FairSpec
CONSTANTS
  NULL = NULL
  Server = Server
  Clients = {c1, c2}
  AppClosed = {c2}
  Capacity = 3
  MaxEvents = 3
INVARIANTS TypeOK PacketOwnedOnce NoDispatchAfterClear
PROPERTIES RemovalIsExact DeliversEvents EveryPacketLeaves
CHECK_DEADLOCK FALSE
