SPECIFICATION ChunkSpec
CONSTANTS
  a = a
  b = b
  Makers = {a, b}
  NoChunk = NoChunk
  Chunks = {c1, c2, c3}
  Byte = 5
  AllocSize = 23
  FirstId = 3
  ChunkSize = 30
  Packets <- PacketsOf
  MaxMake <- MakesOf
SYMMETRY Sym
INVARIANTS
  ChunksSound
  BufferHoldsPacket
  CutPacketRefused
CHECK_DEADLOCK FALSE
