CONSTANTS
  MaxSymbols = 2
  MemSymbols = 4
  CountModulus = 8
  RawFrames <- MCRawFrames
  Patterns <- MCPatterns
  Payloads <- MCPayloads
SPECIFICATION Spec
INVARIANTS
  CaptureReplays AcceptedIsCanonical PatternFaithful
\* A job is done once it is judged or refused.
CHECK_DEADLOCK FALSE
