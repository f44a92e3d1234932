CONSTANTS
  RingSize <- MCRingSize
  QueueSize = 12
  ChunkMax <- MCChunkMax
  MaxLen <- MCMaxLen
  MaxBytes <- MCMaxBytes
  MaxErrors = 1
SPECIFICATION Spec
PROPERTIES
  ZeroMeansEmpty
