SPECIFICATION FairSpec
CONSTANTS
  Capacity = 6
  HeaderSize = 2
  PacketSizes = {1, 2, 3, 6}
  MaxPackets = 4
INVARIANTS
  FramingIntact
  RecvSound
PROPERTIES
  PacketsHandled
CHECK_DEADLOCK FALSE
