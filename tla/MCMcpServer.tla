----------------------------- MODULE MCMcpServer -----------------------------
(***************************************************************************)
(* Instances of McpServer for TLC: every script of up to three lines.      *)
(***************************************************************************)
EXTENDS McpServer

Line(kind) == [kind |-> kind, threads |-> None, outcome |-> "ran"]

Call(threads, outcome) ==
  [kind |-> "tool", threads |-> threads, outcome |-> outcome]

PlainLines ==
  {Line(k) : k \in {"undecodable", "blank", "garbage", "notification",
                    "plain", "unknown"}}

ToolLines ==
  {Call(t, o) : t \in {None, 1, 2}, o \in {"args", "refused", "late", "idle", "ran"}}

\* Sessions of any lines, with one kind of call.
MixedScripts ==
  UNION {[1 .. n -> PlainLines \cup {Call(None, "ran"), Call(1, "late")}] :
           n \in 1 .. 3}

\* Sessions of calls.
CallScripts == UNION {[1 .. n -> ToolLines] : n \in 1 .. 2}
               \cup {<<Call(0, "ran"), Line("plain"), Call(1, "ran")>>}

SessionScripts == MixedScripts \cup CallScripts
=============================================================================
