CONSTANTS
  Invocations <- ListInvocations
  Requests <- ListRequests
  KeyLen <- MCKeyLen
  BlockLen <- MCBlockLen
SPECIFICATION CmdSpec
INVARIANTS DocumentedListsWork
