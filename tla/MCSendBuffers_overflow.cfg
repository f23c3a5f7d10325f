SPECIFICATION ChunkSpec
CONSTANTS
  a = a
  b = b
  Makers = {a}
  NoChunk = NoChunk
  Chunks = {c1, c2, c3}
  Byte = 5
  AllocSize = 23
  FirstId = 3
  ChunkSize = 30
  Packets <- RoomPackets
  MaxMake <- EnterMakes
INVARIANT ChunkClosedAtOpen
CHECK_DEADLOCK FALSE
