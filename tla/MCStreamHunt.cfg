CONSTANTS
  Trials <- StreamTrials
  NonceSpan = 2
  CounterSpan = 8
  ChunkLen = 2
  StreamChunk = 3
  VerifyBlocks = 2
SPECIFICATION Spec
INVARIANTS ShTypeOK StreamKeyKept HeadIsPrefix CounterFresh TagDecides
