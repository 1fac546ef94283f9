CONSTANTS
  MaxBody = 2
  MaxPackets = 2
  Network = {"split"}
SPECIFICATION Spec
INVARIANTS InOrder
CHECK_DEADLOCK FALSE
