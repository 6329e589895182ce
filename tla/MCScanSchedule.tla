--------------------------- MODULE MCScanSchedule ---------------------------
(***************************************************************************)
(* Requests that are accepted, for the interleavings of a pass.            *)
(***************************************************************************)
EXTENDS MCScanEngine

\* Schedules: a pass of four windows, and two and three passes.
ScheduleRequests ==
  UNION {{Request(l[1], m, l[2], s) :
            m \in 0 .. 2, s \in SUBSET AllWindows(l[1], l[2])} :
         l \in {<< <<"des">>, 4 >>,
                << <<"aes128", "des">>, 3 >>,
                << <<"des", "sm4">>, 2 >>,
                << <<"aes256", "des", "sm4">>, 2 >>}}
=============================================================================
