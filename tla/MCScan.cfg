CONSTANTS
  Requests <- ScanRequests
  KeyLen <- MCKeyLen
  BlockLen <- MCBlockLen
SPECIFICATION FairSpec
INVARIANTS TypeOK JobsTile JobsExact TriedExact HitsExact HuntsPrepared
PROPERTIES ImplementsContract Returns
