----------------------------- MODULE ScanCommand -----------------------------
(***************************************************************************)
(* `memhunt scan` from its arguments to its exit code (crates/memhunt-cli/ *)
(* src/main.rs: run_scan), over ScanEngine: the argument stages, the call  *)
(* of `scan`, the printing of the hits to a standard output whose reader   *)
(* may go away at any time, and the exit code.                             *)
(*                                                                         *)
(* An invocation is a record with                                          *)
(*   tokens   the --cipher list (CipherList)                               *)
(*   target, oracle, hex, dump                                             *)
(*            whether decode_ciphertext, parse_spec, the hex arguments and *)
(*            the reading of the dump succeed                              *)
(*   json     the output format                                            *)
(*   opts     the other fields of the request (ScanInput)                  *)
(***************************************************************************)
EXTENDS ScanEngine, CipherList

CONSTANT Invocations

VARIABLES inv,        \* the invocation
          stage,      \* "args", "scan", "print" or "exit"
          stdout,     \* "open", or "closed" when its reader is gone
          cursor,     \* the hit to print next
          delivered,  \* how many hits were written to an open stdout
          exit        \* the exit code, None before the exit

cmdVars == <<inv, stage, stdout, cursor, delivered, exit>>

-----------------------------------------------------------------------------
\* Every `?` before the call of scan passes.  A decoded ciphertext that is
\* empty is an error of decode_ciphertext.
ArgsPass(v) ==
  /\ v.target /\ v.opts.ctLen > 0
  /\ v.oracle
  /\ ParseList(v.tokens).ok
  /\ v.hex
  /\ v.dump

\* The ScanConfig and the slices passed to scan.
RequestOf(v) ==
  LET selection == ParseList(v.tokens)
  IN  [ciphers |-> selection.ciphers, mode |-> selection.mode,
       fixedIv |-> v.opts.fixedIv, nonce |-> v.opts.nonce,
       tag |-> v.opts.tag, aad |-> v.opts.aad, oracles |-> 1,
       maxHits |-> v.opts.maxHits, dumpLen |-> v.opts.dumpLen,
       ctLen |-> v.opts.ctLen, match |-> v.opts.match]

\* The closure returns Ok(hits.len()).
ExitOf(n) == IF n = 0 THEN 1 ELSE 0

\* Every invocation is a record of the shape above, and the requests it leads to
\* are among those that ScanEngine considers.
ASSUME InvocationsAssumption ==
  \A v \in Invocations :
    /\ v.tokens \in Seq(Tokens)
    /\ {v.target, v.oracle, v.hex, v.dump, v.json} \subseteq BOOLEAN
    /\ v.opts.ctLen \in Nat
    /\ ArgsPass(v) => RequestOf(v) \in Requests

CmdInit ==
  /\ inv \in Invocations
  /\ stage = "args"
  /\ stdout = "open"
  /\ cursor = 1 /\ delivered = 0
  /\ exit = None
  /\ req = inv /\ pc = "idle" /\ ci = 1 /\ jobs = {} /\ tried = 0
  /\ stop = FALSE /\ hits = <<>>

Exit(code) == stage' = "exit" /\ exit' = code

BadArgs ==
  /\ stage = "args"
  /\ ~ArgsPass(inv)
  /\ Exit(2)
  /\ UNCHANGED <<inv, stdout, cursor, delivered, vars>>

CallScan ==
  /\ stage = "args"
  /\ ArgsPass(inv)
  /\ stage' = "scan"
  /\ req' = RequestOf(inv)
  /\ pc' = "validate"
  /\ UNCHANGED <<inv, stdout, cursor, delivered, exit,
                 ci, jobs, tried, stop, hits>>

\* A step inside `scan`.
ScanStep ==
  /\ stage = "scan"
  /\ pc \notin {"ok", "err"}
  /\ Next
  /\ UNCHANGED cmdVars

\* Wrong variant: treats a failed scan as one without a hit.
ScanFailedAsNoHit ==
  /\ stage = "scan" /\ pc = "err"
  /\ Exit(1)
  /\ UNCHANGED <<inv, stdout, cursor, delivered, vars>>

ScanFailed ==
  /\ stage = "scan" /\ pc = "err"
  /\ Exit(2)
  /\ UNCHANGED <<inv, stdout, cursor, delivered, vars>>

ScanReturned ==
  /\ stage = "scan" /\ pc = "ok"
  /\ stage' = "print"
  /\ UNCHANGED <<inv, stdout, cursor, delivered, exit, vars>>

\* The hit is written: an error stops the JSON output (`?`) and is dropped by
\* the human one (`let _ =`).
Written ==
  /\ cursor' = cursor + 1
  /\ delivered' = IF stdout = "open" THEN delivered + 1 ELSE delivered
  /\ UNCHANGED <<stage, exit>>

\* Wrong variant: prints one hit more than there are.
PrintHitUnchecked ==
  /\ stage = "print" /\ cursor <= Len(hits) + 1
  /\ IF inv.json /\ stdout = "closed"
     THEN Exit(2) /\ UNCHANGED <<cursor, delivered>>
     ELSE Written
  /\ UNCHANGED <<inv, stdout, vars>>

\* Wrong variant: tries again when the write fails.
PrintHitRetries ==
  /\ stage = "print" /\ cursor <= Len(hits)
  /\ IF stdout = "closed" THEN UNCHANGED <<stage, exit, cursor, delivered>>
                          ELSE Written
  /\ UNCHANGED <<inv, stdout, vars>>

\* Wrong variant: drops the write errors of the JSON output too.
PrintHitIgnoringErrors ==
  /\ stage = "print" /\ cursor <= Len(hits)
  /\ Written
  /\ UNCHANGED <<inv, stdout, vars>>

PrintHit ==
  /\ stage = "print" /\ cursor <= Len(hits)
  /\ IF inv.json /\ stdout = "closed"
     THEN Exit(2) /\ UNCHANGED <<cursor, delivered>>
     ELSE Written
  /\ UNCHANGED <<inv, stdout, vars>>

PrintEnd ==
  /\ stage = "print" /\ cursor > Len(hits)
  /\ Exit(ExitOf(Len(hits)))
  /\ UNCHANGED <<inv, stdout, cursor, delivered, vars>>

\* The reader of stdout goes away (environment).
CloseStdout ==
  /\ stage # "exit" /\ stdout = "open"
  /\ stdout' = "closed"
  /\ UNCHANGED <<inv, stage, cursor, delivered, exit, vars>>

Exited == stage = "exit" /\ UNCHANGED <<cmdVars, vars>>

ProgramStep ==
  \/ BadArgs \/ CallScan \/ ScanStep \/ ScanFailed \/ ScanReturned
  \/ PrintHit \/ PrintEnd

CmdNext == ProgramStep \/ CloseStdout \/ Exited

\* The process runs; nothing obliges the reader to stay or to go.
CmdSpec == CmdInit /\ [][CmdNext]_<<cmdVars, vars>>
                   /\ WF_<<cmdVars, vars>>(ProgramStep)

-----------------------------------------------------------------------------
(* Properties. *)

\* Every variable of the command has its type.
CmdTypeOK ==
  /\ stage \in {"args", "scan", "print", "exit"}
  /\ stdout \in {"open", "closed"}
  /\ cursor \in 1 .. Len(hits) + 1
  /\ delivered \in 0 .. cursor - 1
  /\ exit \in {None, 0, 1, 2} /\ (exit = None <=> stage # "exit")

\* The exit code tells what the arguments and the request determine, through
\* all stages: 2 for an error anywhere, 1 for a scan with no key, 0 for a scan
\* with one (README: "Exit codes").  Only a lost reader of JSON lines turns a
\* found key into an error.
ExitTellsOutcome ==
  stage = "exit" =>
    IF ~ArgsPass(inv) \/ Contract!Fails(req)
    THEN exit = 2
    ELSE IF Contract!AllHits(req, Contract!Reached(req)) = {}
         THEN exit = 1
         ELSE \/ exit = 0
              \/ exit = 2 /\ inv.json /\ stdout = "closed" /\ delivered < Len(hits)

\* A JSON consumer that sees exit code 0 has received every hit.
JsonZeroIsComplete ==
  exit = 0 /\ inv.json => delivered = Len(hits) /\ delivered > 0

\* The loop over the tokens, with its mutable mode, accepts exactly the lists
\* that are acceptable as sets, whatever the order of the tokens.
ParseIsOrderFree ==
  LET selection == ParseList(inv.tokens)
  IN  /\ selection.ok <=> Acceptable(inv.tokens)
      /\ selection.ok =>
           /\ selection.mode = inv.tokens[1].suffix
           /\ {selection.ciphers[i] : i \in DOMAIN selection.ciphers}
                = Selected(inv.tokens)

\* The command ends, even if the reader goes away at any moment.
Exits == <>(stage = "exit")

-----------------------------------------------------------------------------
(* What the documents say. *)

\* The other arguments are fine: nothing but the list can be at fault.
OnlyListMatters(v) ==
  /\ v.target /\ v.oracle /\ v.hex /\ v.dump
  /\ v.opts.ctLen > 0

\* The README and the MCP schema offer `all` and `chacha20-poly1305` as lists on
\* their own: a scan with such a list, on a ciphertext of whole blocks and with
\* no IV, does not end in an error; for `all` with no tag or aad, with or
\* without a nonce, for `chacha20-poly1305` with its nonce and tag.
DocumentedListsWork ==
  LET Is(name) == inv.tokens = <<[name |-> name, suffix |-> "block"]>>
  IN  /\ OnlyListMatters(inv) /\ stdout = "open" /\ inv.opts.fixedIv = None
      /\ \/ Is("all") /\ inv.opts.tag = None /\ inv.opts.aad = None
         \/ Is("chacha20poly1305") /\ inv.opts.nonce = 12 /\ inv.opts.tag = 16
      => exit # 2
=============================================================================
