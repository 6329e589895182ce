CONSTANTS
  Scripts <- SessionScripts
  Capacity = 1
  Cores = 4
  MaxLines = 3
SPECIFICATION Spec
INVARIANTS TypeOK OneReplyEach CleanEndIsComplete FailureKeepsReplies FirstCallSizesPool
PROPERTIES SentIsAnswered
