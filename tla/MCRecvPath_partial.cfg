SPECIFICATION Spec
CONSTANTS
  Capacity = 5
  HeaderSize = 2
  PacketSizes = {2, 3}
  MaxPackets = 2
INVARIANTS
  PartialPacketWaits
CHECK_DEADLOCK FALSE
