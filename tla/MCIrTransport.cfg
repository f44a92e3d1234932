CONSTANTS
  RingSize <- MCRingSize
  QueueSize = 3
  ChunkMax <- MCChunkMax
  MaxLen <- MCMaxLen
  MaxBytes <- MCMaxBytes
  MaxErrors = 2
SPECIFICATION Spec
INVARIANTS
  AnnouncedPresent LossIsReported
