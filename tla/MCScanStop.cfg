CONSTANTS
  Requests <- ScheduleRequests
  KeyLen <- MCKeyLen
  BlockLen <- MCBlockLen
SPECIFICATION FairSpec
PROPERTIES StopsAtLimit
