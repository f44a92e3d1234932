CONSTANTS
  Messages <- MCMessages
  MaxMessages = 3
  MaxPayload = 2
  ChunkMax = 3
  MisreadLength = 1
SPECIFICATION Spec
INVARIANTS
  ServedInOrder NothingMissed BufferHasRoom
PROPERTIES
  Drains
