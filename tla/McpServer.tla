------------------------------ MODULE McpServer ------------------------------
(***************************************************************************)
(* `memhunt serve` (crates/memhunt-cli/src/mcp.rs: serve_stdio, dispatch   *)
(* and the tools): the loop that reads JSON-RPC lines from stdin and       *)
(* writes replies to stdout, the client at the other end of the two pipes, *)
(* and the process-wide rayon pool that the calls of one session share.    *)
(*                                                                         *)
(* A line is a record with `kind`:                                         *)
(*   "undecodable"   bytes that are not UTF-8                              *)
(*   "blank"         only white space                                      *)
(*   "garbage"       not JSON                                              *)
(*   "notification"  JSON without an "id" member (a batch is an array and  *)
(*                   has none either)                                      *)
(*   "plain"         initialize, ping, tools/list                          *)
(*   "unknown"       a method or a tool that does not exist                *)
(*   "tool"          tools/call of a tool that exists, with                *)
(*       threads     the "threads" argument of memhunt_scan, None without; *)
(*                   0 asks for all cores                                  *)
(*       outcome     "args" (an error before the threads are set),         *)
(*                   "refused" (`scan` fails before a pass), "late" (it    *)
(*                   fails after one), "idle" (a result without a pass:    *)
(*                   the dump is shorter than every key), "ran" (a result  *)
(*                   with one)                                             *)
(* The id of a request is its index in the script of the client.           *)
(***************************************************************************)
EXTENDS Integers, Sequences, FiniteSets

CONSTANTS Scripts,   \* the sequences of lines a client may send
          Capacity,  \* how many lines each of the two pipes holds
          MaxLines,  \* the length of the longest script
          Cores      \* the size of a pool that was not asked for

None == -1

Kinds ==
  {"undecodable", "blank", "garbage", "notification", "plain", "unknown", "tool"}

Outcomes == {"args", "refused", "late", "idle", "ran"}

Lines == [kind : Kinds, threads : Nat \cup {None}, outcome : Outcomes]

\* A pipe holds a line and a machine has a core.
ASSUME McpAssumption ==
  /\ Capacity \in Nat \ {0} /\ Cores \in Nat \ {0}
  /\ \A s \in Scripts : s \in Seq(Lines) /\ Len(s) <= MaxLines

VARIABLES script,    \* the lines the client will send, in order
          sent,      \* how many it has written to stdin
          stdin,     \* "open", or "closed" when it will write no more
          stdout,    \* "open", or "closed" when it will read no more
          received,  \* the replies it has read
          pc,        \* the server: "read", "write", "ok", "err"
          read,      \* how many lines the server has read
          reply,     \* the reply it is about to write
          pipe,      \* the replies in the stdout pipe
          pool       \* the size of the global pool, None before it is built

client == <<script, sent, stdin, stdout, received>>
server == <<pc, read, reply, pipe, pool>>
vars == <<client, server>>

-----------------------------------------------------------------------------
(* What the server makes of a line. *)

\* Wrong variant: a notification gets a reply.
HasReplyAll(l) ==
  l.kind \in {"notification", "garbage", "plain", "unknown", "tool"}

\* A line that gets a reply.
HasReply(l) == l.kind \in {"garbage", "plain", "unknown", "tool"}

\* The outcomes of a call that returns a result, and those of a call in which
\* a parallel pass ran.
Results == {"idle", "ran"}
Passed  == {"late", "ran"}

\* The id null of a reply to a line that is not JSON.
NullId == 0

ReplyTo(l, i) ==
  [id |-> IF l.kind = "garbage" THEN NullId ELSE i,
   body |-> CASE l.kind = "garbage" -> "parse error"
              [] l.kind = "unknown" -> "error"
              [] l.kind = "tool" /\ l.outcome \notin Results -> "isError"
              [] OTHER -> "result"]

NoReply == [id |-> None, body |-> "none"]

Size(n) == IF n = 0 THEN Cores ELSE n

\* A call that wants a pool: it asks for threads, or a parallel pass runs.
BuildsPool(l) ==
  /\ l.kind = "tool" /\ l.outcome # "args"
  /\ l.threads # None \/ l.outcome \in Passed

\* The pool it would get.
PoolOf(l) == IF l.threads = None THEN Cores ELSE Size(l.threads)

\* Wrong variant: a later call that asks for threads gets them.
PoolAfterResized(l, p) ==
  IF BuildsPool(l) /\ (p = None \/ l.threads # None) THEN PoolOf(l) ELSE p

\* The pool after a line.  build_global fails once there is a pool, and its
\* error is dropped (`let _ =`); without threads the first parallel pass builds
\* the default pool.
PoolAfter(l, p) == IF p = None /\ BuildsPool(l) THEN PoolOf(l) ELSE p

-----------------------------------------------------------------------------
Init ==
  /\ script \in Scripts
  /\ sent = 0 /\ stdin = "open" /\ stdout = "open" /\ received = <<>>
  /\ pc = "read" /\ read = 0 /\ reply = NoReply /\ pipe = <<>>
  /\ pool = None

(* The server. *)

\* Wrong variant: a line that is not JSON ends the server too.
ReadStrict ==
  /\ pc = "read" /\ read < sent
  /\ read' = read + 1
  /\ LET l == script[read + 1]
     IN  /\ pc' = CASE l.kind \in {"undecodable", "garbage"} -> "err"
                    [] HasReply(l)                          -> "write"
                    [] OTHER                                -> "read"
         /\ reply' = IF pc' = "write" THEN ReplyTo(l, read + 1) ELSE NoReply
         /\ pool' = PoolAfter(l, pool)
  /\ UNCHANGED <<client, pipe>>

\* reader.read_line(..)?, the checks of the line, and the call it asks for.
\* read_line fails on bytes that are not UTF-8.
Read ==
  /\ pc = "read" /\ read < sent
  /\ read' = read + 1
  /\ LET l == script[read + 1]
     IN  /\ pc' = CASE l.kind = "undecodable" -> "err"
                    [] HasReply(l)            -> "write"
                    [] OTHER                  -> "read"
         /\ reply' = IF HasReply(l) THEN ReplyTo(l, read + 1) ELSE NoReply
         /\ pool' = PoolAfter(l, pool)
  /\ UNCHANGED <<client, pipe>>

\* Wrong variant: leaves lines in the pipe when the client closes it.
ReadEofEarly ==
  /\ pc = "read" /\ stdin = "closed"
  /\ pc' = "ok"
  /\ UNCHANGED <<client, read, reply, pipe, pool>>

\* read_line returns 0.
ReadEof ==
  /\ pc = "read" /\ read = sent /\ stdin = "closed"
  /\ pc' = "ok"
  /\ UNCHANGED <<client, read, reply, pipe, pool>>

\* Wrong variant: writes the reply again after the flush.
WriteTwice ==
  /\ pc = "write" /\ stdout = "open" /\ Len(pipe) < Capacity
  /\ pipe' = pipe \o <<reply, reply>>
  /\ reply' = NoReply
  /\ pc' = "read"
  /\ UNCHANGED <<client, read, pool>>

\* Wrong variant: drops the reply when the pipe is full.
WriteOrDrop ==
  /\ pc = "write" /\ stdout = "open"
  /\ pipe' = IF Len(pipe) < Capacity THEN Append(pipe, reply) ELSE pipe
  /\ reply' = NoReply
  /\ pc' = "read"
  /\ UNCHANGED <<client, read, pool>>

\* writeln and flush: wait for room in the pipe.
Write ==
  /\ pc = "write" /\ stdout = "open" /\ Len(pipe) < Capacity
  /\ pipe' = Append(pipe, reply)
  /\ reply' = NoReply
  /\ pc' = "read"
  /\ UNCHANGED <<client, read, pool>>

\* The write fails: nobody reads stdout any more.
WriteFails ==
  /\ pc = "write" /\ stdout = "closed"
  /\ pc' = "err"
  /\ UNCHANGED <<client, read, reply, pipe, pool>>

(* The client, an environment that follows its script. *)

Running == pc \in {"read", "write"}

Send ==
  /\ Running /\ stdin = "open" /\ sent < Len(script) /\ sent - read < Capacity
  /\ sent' = sent + 1
  /\ UNCHANGED <<script, stdin, stdout, received, server>>

Receive ==
  /\ stdout = "open" /\ pipe # <<>>
  /\ received' = Append(received, Head(pipe))
  /\ pipe' = Tail(pipe)
  /\ UNCHANGED <<script, sent, stdin, stdout, pc, read, reply, pool>>

\* It has no more to send, or is killed (CloseStdout as well).
CloseStdin ==
  /\ stdin = "open"
  /\ stdin' = "closed"
  /\ UNCHANGED <<script, sent, stdout, received, server>>

CloseStdout ==
  /\ stdout = "open"
  /\ stdout' = "closed"
  /\ UNCHANGED <<script, sent, stdin, received, server>>

Ended == ~Running /\ UNCHANGED vars

ServerStep == Read \/ ReadEof \/ Write \/ WriteFails

Next ==
  \/ ServerStep
  \/ Send \/ Receive \/ CloseStdin \/ CloseStdout
  \/ Ended

\* The server is one loop that runs whenever it is not blocked on a pipe; a
\* client that has not gone away reads its replies while it sends.
Spec == Init /\ [][Next]_vars /\ WF_vars(ServerStep) /\ WF_vars(Receive)

-----------------------------------------------------------------------------
(* Properties. *)

Bodies == {"parse error", "error", "isError", "result", "none"}

\* Every variable has its type and the pipes keep to their capacity.
TypeOK ==
  /\ sent \in 0 .. Len(script) /\ read \in 0 .. sent
  /\ stdin \in {"open", "closed"} /\ stdout \in {"open", "closed"}
  /\ pc \in {"read", "write", "ok", "err"}
  /\ reply \in [id : {None} \cup 0 .. Len(script), body : Bodies]
  /\ Len(pipe) <= Capacity /\ sent - read <= Capacity
  /\ pool \in Nat \cup {None}

\* The lines JSON-RPC owes a reply: requests, and what cannot be parsed.
Owed(l) == l.kind \notin {"undecodable", "blank", "notification"}

OwedLines(n) == {i \in 1 .. n : Owed(script[i])}

\* The k-th of them.
NthOwed(n, k) ==
  CHOOSE i \in OwedLines(n) : Cardinality(OwedLines(i)) = k

\* The replies owed for the first n lines.
Replies(n) ==
  [k \in 1 .. Cardinality(OwedLines(n)) |->
     ReplyTo(script[NthOwed(n, k)], NthOwed(n, k))]

\* The replies that exist anywhere: read, in the pipe, about to be written.
AllReplies ==
  received \o pipe \o (IF reply = NoReply THEN <<>> ELSE <<reply>>)

\* What the client sees is exactly the replies to the lines the server has
\* read, in the order of the requests, none twice, none for a notification,
\* whatever the two pipes hold and whenever an end is closed.
OneReplyEach == AllReplies = Replies(read)

\* A client that closes stdin after its last request loses nothing: the server
\* ends well only when every line is read and every reply written.
CleanEndIsComplete ==
  pc = "ok" => read = sent /\ received \o pipe = Replies(sent)

\* The server fails for two reasons only, a reader of stdout that left and a
\* line that is not UTF-8, and the second costs no reply to an earlier line.
FailureKeepsReplies ==
  pc = "err" =>
    \/ stdout = "closed"
    \/ /\ script[read].kind = "undecodable"
       /\ received \o pipe = Replies(read - 1)

\* Of the calls that want a pool only the first counts, for the whole
\* session, whatever the later ones ask for and even if that call failed.
FirstCallSizesPool ==
  LET builders == {i \in 1 .. read : BuildsPool(script[i])}
  IN  IF builders = {}
      THEN pool = None
      ELSE \E i \in builders :
             /\ \A k \in builders : i <= k
             /\ pool = PoolOf(script[i])

\* Line i has been sent and asks for a reply.
Asked(i) == i \in 1 .. sent /\ Owed(script[i])

\* The client has read the replies to the first i lines.
Answered(i) ==
  i \in DOMAIN script /\ Len(received) >= Len(Replies(i))

\* A request that was sent is answered, unless the server fails or the client
\* stops reading: no two full pipes block each other, and a clean end comes
\* after the last reply.
SentIsAnswered ==
  \A i \in 1 .. MaxLines :
    Asked(i) ~> Answered(i) \/ stdout = "closed" \/ pc = "err"

=============================================================================
