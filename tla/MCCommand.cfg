CONSTANTS
  Invocations <- CommandInvocations
  Requests <- CommandRequests
  KeyLen <- MCKeyLen
  BlockLen <- MCBlockLen
SPECIFICATION CmdSpec
INVARIANTS CmdTypeOK ExitTellsOutcome JsonZeroIsComplete ParseIsOrderFree
PROPERTIES Exits
