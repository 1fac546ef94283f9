CONSTANTS
  MaxBody = 2
  MaxPackets = 3
  Network = {}
SPECIFICATION FairSpec
INVARIANTS TypeOK NoOverrun RoomLeft QuitStays
PROPERTIES Relays Arrives
CHECK_DEADLOCK FALSE
