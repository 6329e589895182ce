-------------------------------- MODULE MCScan --------------------------------
(***************************************************************************)
(* The accepted requests of MCScanSchedule and all those of MCScanConfig.  *)
(***************************************************************************)
EXTENDS MCScanSchedule, MCScanConfig

ScanRequests == ScheduleRequests \cup ConfigRequests
=============================================================================
