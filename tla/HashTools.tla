------------------------------ MODULE HashTools ------------------------------
(***************************************************************************)
(* The two callers of the hash searches: the command `hash` (crates/       *)
(* memhunt-cli/src/main.rs: run_hash) and the MCP tool memhunt_hash_scan   *)
(* (mcp.rs: tool_hash_scan).  They check different things before the call. *)
(*                                                                         *)
(* A use is a record with                                                  *)
(*   by       "cli" or "mcp"                                               *)
(*   algos    the list given, Absent without one; the CLI always has one   *)
(*   readable whether the mode is known, the digest is hex, the dump can   *)
(*            be read, and for "hmac" there is a message                   *)
(* and the fields of a call but algos.  A name of the list that is no      *)
(* algorithm is "other"; so is the list without a name that the MCP tool   *)
(* is given ("" or ","), which HashAlgoSpec::parse refuses alike, while    *)
(* without a list the preimage search has its default.  How clap hands the *)
(* list of the CLI over is left open: the uses have lists of every length. *)
(***************************************************************************)
EXTENDS HashScan

CONSTANT Uses

ASSUME UsesAssumption ==
  Uses \subseteq
    [by : {"cli", "mcp"}, kind : {"preimage", "hmac"}, algos : Seq(Algos \cup {"other"}),
     readable : BOOLEAN, digest : Nat, min : Nat, max : Nat, maxHits : Nat,
     dump : Nat, match : SUBSET (Algos \X Nat \X Nat)]

VARIABLES use,
          end  \* "none", or what the caller ends with

toolVars == <<use, end>>

-----------------------------------------------------------------------------
Absent == <<>>

DefaultAlgos == <<"md5", "sha1", "sha256", "sm3">>

\* The list that the caller works with: only the MCP preimage search has a
\* default.
AlgosOf(u) ==
  IF u.by = "mcp" /\ u.kind = "preimage" /\ u.algos = Absent
  THEN DefaultAlgos
  ELSE u.algos

\* Wrong variant: leaves the least length to the search.
RangePassesUnchecked(u) == u.by = "mcp" => u.max >= u.min

\* Only the MCP tool looks at the range.
RangePasses(u) == u.by = "mcp" => u.min >= 1 /\ u.max >= u.min

\* HashAlgoSpec::parse accepts the list, and the MCP key search wants one.
ListPasses(u) ==
  /\ AlgosOf(u) # <<>>
  /\ ToSet(AlgosOf(u)) \subseteq Algos
  /\ u.by = "mcp" /\ u.kind = "hmac" => Len(AlgosOf(u)) = 1

Passes(u) == u.readable /\ RangePasses(u) /\ ListPasses(u)

\* The command takes the first algorithm of a list for the key search, and has
\* no limit on hits.
CallOf(u) ==
  [kind |-> u.kind,
   algos |-> IF u.kind = "hmac" THEN <<AlgosOf(u)[1]>> ELSE AlgosOf(u),
   digest |-> u.digest, min |-> u.min, max |-> u.max,
   maxHits |-> IF u.by = "cli" THEN 0 ELSE u.maxHits,
   dump |-> u.dump, match |-> u.match]

ToolInit ==
  /\ use \in Uses /\ end = "none"
  /\ call = use /\ pc = "idle" /\ ai = 1 /\ work = <<>> /\ tried = 0
  /\ hits = <<>>

\* An error of the caller.
Refuse ==
  /\ pc = "idle" /\ ~Passes(use)
  /\ pc' = "err"
  /\ UNCHANGED <<toolVars, call, ai, work, tried, hits>>

CallSearch ==
  /\ pc = "idle" /\ Passes(use)
  /\ call' = CallOf(use)
  /\ pc' = "start"
  /\ UNCHANGED <<toolVars, ai, work, tried, hits>>

SearchStep == HashStep /\ UNCHANGED toolVars

\* The exit codes of the command, where the JSON lines of the hits may not
\* reach stdout; the kind of reply of the tool.  A panic ends the process with
\* 101, the server too.
Ends(u) ==
  CASE pc = "panic"               -> {"101"}
    [] pc = "err" /\ u.by = "cli" -> {"2"}
    [] pc = "ok"  /\ u.by = "cli" -> IF hits = <<>> THEN {"1"} ELSE {"0", "2"}
    [] pc = "err" /\ u.by = "mcp" -> {"isError"}
    [] pc = "ok"  /\ u.by = "mcp" -> {"result"}

Finish ==
  /\ pc \in {"ok", "err", "panic"} /\ end = "none"
  /\ end' \in Ends(use)
  /\ UNCHANGED <<use, hashVars>>

Finished == end # "none" /\ UNCHANGED <<toolVars, hashVars>>

ToolNext == Refuse \/ CallSearch \/ SearchStep \/ Finish \/ Finished

\* The caller and the workers of the pass keep running.
ToolSpec == ToolInit /\ [][ToolNext]_<<toolVars, hashVars>>
                     /\ WF_<<toolVars, hashVars>>(ToolNext)

-----------------------------------------------------------------------------
(* Properties. *)

\* Every variable has its type, those of the search included.
ToolTypeOK ==
  /\ end \in {"none", "0", "1", "2", "101", "isError", "result"}
  /\ call = use => pc \in {"idle", "err"}
  /\ call # use => HashTypeOK

\* Whatever threads run the lengths of a pass and in whatever order they end,
\* the answer is the one the call determines: the error of a digest that does
\* not fit an algorithm the loop gets to, or the matches by algorithm, length
\* and offset, cut at the limit.
ToolAnswerExact == Passes(use) /\ pc # "idle" => HashAnswerExact

\* Each window of each length is tried once for each algorithm the loop gets
\* to, also when a fixed key length lies in the range.
ToolTriedExact == HashTriedExact

\* The checks of the MCP tool keep every call of the server from a panic in a
\* worker thread, which would end the session.
ToolNeverPanics == use.by = "mcp" => pc # "panic"

\* Every use ends.
ToolEnds == <>(end # "none")

-----------------------------------------------------------------------------
(* What the documents say. *)

\* README: "Exit codes: 0 hit found, 1 no hit, 2 error", for every range of
\* lengths.
ExitCodesDocumented == use.by = "cli" => end \in {"none", "0", "1", "2"}

\* The schema of memhunt_hash_scan: algos is "Default md5,sha1,sha256,sm3
\* (preimage)": a digest of one of them can be searched without a list.
DefaultAlgosWork ==
  /\ use.by = "mcp" /\ use.kind = "preimage" /\ use.algos = Absent
  /\ use.readable /\ use.min >= 1 /\ use.max >= use.min
  /\ \E a \in Algos : use.digest = OutputLen(a)
  => end # "isError"
=============================================================================
