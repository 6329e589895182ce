CONSTANTS
  Trials <- BlockTrials
  Xor <- MCXor
  VerifyBlocks = 2
  IvMax = 2
  MinUtf16 = 4
  VarintBytes = 3
  VarintBits = 15
SPECIFICATION Spec
INVARIANTS TextIsFound
