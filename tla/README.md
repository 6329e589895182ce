# Verification of memhunt

memhunt searches a memory dump for the key behind a captured ciphertext. This
directory holds TLA+ models of it, TLC runs that check them on small instances,
and proofs that TLAPS checks for every value of the constants. `PROJECT.json`
is the index: which module models which part, which lines each definition
stands for, what each run checks, which change of the code each property would
notice.

## The system

| part | state | operations | interacts with |
|---|---|---|---|
| `scan` (engine.rs) | the hits, the counter `tried`, the flag `stop`, the place in the cipher list | validate; per cipher skip, fail or run a parallel pass; cut at `max_hits`; return | hunts, rayon |
| hunts (`hunt`, `hunt_stream`, `hunt_stream_cipher`) | none of their own; share `tried` and `stop` | for each window: load `stop`, count, decrypt, ask the oracles or check the tag | adapters, oracles, rayon |
| `validate_config`, `parse_list` | a mutable mode and a list while parsing | accept or refuse | CLI, MCP |
| oracles | none | verify a head of plaintext, `best_match` | hunts, `find_iv` |
| key schedules (keysched.rs) | a shared counter | one pass per AES size, then SM4 | rayon |
| hash search (hash_scan.rs) | hits, a shared counter | one pass over window lengths per algorithm; cut at `max_hits` (preimages only) | rayon |
| CLI (main.rs) | the exit code | `scan`, `hash`, `key-schedules`, `serve` | stdout and its reader |
| MCP server (mcp.rs) | the line being read; the process-wide rayon pool | read a line, dispatch, write a reply | two pipes and a client |

What is hard here:

* **Concurrency.** A pass is a `par_windows().filter().filter_map().collect()`
  chain. Rayon splits the windows in halves as threads become idle, runs them
  in any order and joins the results. The counter and the flag are shared with
  `Relaxed` ordering. The promise is that none of it shows: same hits, same
  order, same count for every schedule.
* **Failure between steps.** The loop of `scan` validates once at its head and
  again per cipher, so a call can fail after passes that found keys. A reader of
  stdout can leave between two JSON lines. A tool call can fail after it has
  fixed the size of the thread pool.
* **Ordering.** The limit on hits cuts a list that threads produced together;
  the mode of a cipher list is a variable that tokens overwrite; a skipped
  cipher skips the checks that come after it.
* **Blocking.** The MCP server writes each reply before it reads the next line,
  over two pipes of finite capacity.

* **Decisions on little evidence.** A hit rests on two blocks: ECB is tried
  before CBC, IVs are ranked and cut, padding is read off its own bytes, counters
  wrap. Each step is right or wrong for a few messages, nonces or lengths only.

Correctness, part by part: `scan` gives the answer its request determines
(soundness, completeness, order, count, errors) and always returns; validation
lets nothing through that a hunt would panic on; the parser's verdict does not
depend on the order of the tokens; the exit code tells the outcome; each request
line has exactly one reply, in order, and a clean end loses none; a window that
is the key becomes a hit with the right mode and plaintext whenever its head
satisfies an oracle or its tag fits; the best IV candidates are kept for every
schedule; the key schedule search reports the schedules of the dump and nothing
else.

## Modules

| module | models |
|---|---|
| `CipherConfig` | ciphers, modes, `validate_config` branch by branch |
| `ScanInput` | one request and what it means per cipher: windows, matches, skip, early errors; declares the constants and their assumptions |
| `ScanContract` | **abstract specification** of one call: a request, then its answer in one step |
| `ScanEngine` | `scan` step by step: the loop and the jobs of its parallel passes; the safety and liveness properties; `Contract == INSTANCE ScanContract` |
| `ScanEngineProofs` | theorems about `ScanEngine`; `ScanEngine` implements `ScanContract` |
| `CipherList` | `parse_list`: a loop over tokens, and its reference definition without a loop |
| `ScanCommand` | the command `scan` over `ScanEngine`: arguments, call, output, exit code |
| `HashScan` | the two searches of hash_scan.rs: checks, passes over window lengths, counter, limit |
| `HashTools` | the command `hash` and the tool `memhunt_hash_scan` over `HashScan`: arguments, call, end |
| `Oracles` | the six oracles on bytes, their ranks, `best_match` |
| `BlockHunt` | what `hunt` does with one window: ECB, CBC, `find_iv`, padding (extends `Oracles`) |
| `StreamHunt` | what `hunt_stream` and `hunt_stream_cipher` do with one window: tag, counters, head, whole |
| `KeySchedule` | the key schedule search, its command and its MCP tool |
| `McpServer` | `serve_stdio`, its client, the two pipes, the thread pool |
| `ScanCommandProofs`, `HashToolsProofs`, `BlockHuntProofs`, `StreamHuntProofs`, `KeyScheduleProofs`, `McpServerProofs` | theorems about the module of that name (and, for the first two, about `CipherList` and `HashScan`) |
| `CommonLemmas` | induction over the naturals as a closed set, existence of recursive functions, division, the list of a finite set by rank |
| `MCScanEngine`, `MCScanSchedule`, `MCScanConfig`, `MCScan`, `MCScanCommand`, `MCHashTools`, `MCMcpServer`, `MCKeySchedule`, `MCBlockHunt`, `MCStreamHunt` | instances for TLC |

### ScanEngine and the code

| variable | code |
|---|---|
| `req` | the arguments of `scan`, with the decisions of the hunts (below) |
| `pc`, `ci` | the place in `scan`, the position in `config.ciphers` |
| `jobs` | rayon's jobs: intervals of windows with a cursor, a status and the hits found |
| `tried`, `stop` | the two atomics |
| `hits` | `all_hits` |

`Validate`, `Skip`, `Reject`, `Begin`, `Collect`, `Return` are the statements of
`scan`. `LoadStop`, `Count`, `Verify` are the three steps of a window, each
atomic by itself and interleaved with all others. `Split`, `Start`, `Join` are
rayon, modelled from how the code uses it. Any set of started jobs may be
running, so every pool size is included, and so is the work a thread steals
while it waits for the nested pass of `find_iv`.

What a hunt decides about one window depends only on the bytes of the window
and on the request: the closures capture nothing mutable but `tried` and `stop`.
So the request carries `match`, the set of `<<cipher, offset>>` pairs that become
hits, and the runs take every such set. How a hunt comes to its decision is the
subject of `BlockHunt` and `StreamHunt`.

Sequential consistency: both atomics are used with `Relaxed`. `fetch_add` is
atomic whatever the ordering, and nobody stores to `stop`, so no run of the
program differs from an interleaving.

### ScanCommand and McpServer

`ScanCommand` extends `ScanEngine`: `ScanStep` is a step of the call, the other
actions are the stages of `run_scan`. The reader of stdout is the environment;
`CloseStdout` may come at any time before the exit. A write to a closed stdout
fails (Rust ignores SIGPIPE): an error in the JSON format, dropped in the human
one.

In `McpServer` a line is a kind and, for a tool call, its `threads` argument and
one of five outcomes: an error before the threads are set, a refusal before any
pass, an error after one, a result with no pass (the dump is shorter than
every key), a result. Its thread of control handles one line at a time, so a
call is one step: nothing else of the process runs meanwhile and the client sees
only the reply. `ScanEngine` is the inside of such a step.

### HashScan and HashTools

Both searches are one machine: `scan_preimages` is a loop over the algorithms
with a pass each, `scan_hmac_keys` the same loop over one. A pass is
`flat_map_iter` over the window lengths, so the unit a thread takes is a length:
`work` holds, for each length, the offset its thread is at and the offsets
found, and any number of lengths may be under way. `Begin`, `Mismatch`,
`BeginPass`, `Collect`, `Return` are the statements of the caller,
`StartLength`, `StartZero`, `TryWindow` those of the closure. Rayon lets the
other threads of a pass finish before it passes a panic on; nothing they do is
seen afterwards, so `StartZero` ends the call at once.

What the answer should be is defined without passes, on the call alone:
`HitSet`, `HitBefore`, `Limit`, `Refused`, `PassSize`.

In `HashTools` the command and the tool differ in what they check before the
call, in their default list and in `max_hits`. The attribute `value_delimiter`
on an `algos` that is a single string belongs to clap; how it hands the list
over is left open, and the runs start from lists of length 1 and 2 and no list.

### BlockHunt and Oracles

One behaviour is one window. A trial holds the ciphertext `ct` and `dec`, its
blocks decrypted one by one with the window as key; that is all the code asks of
a block cipher. For the properties it also holds where the ciphertext comes
from (`mode`, `message`, `padding`, `iv`), and the assumption `Encrypts` ties the
two together when the window is the key. `EcbHit`, `EcbMiss`, `CbcMiss`,
`CbcFixed`, `CbcNoIv`, `CbcScan` are the branches of `hunt`; `TryIv` is one
window of the nested pass of `find_iv`, in any order; `RankIvs` is the sort, the
cut and the choice of block 0; `Strip` is the padding part of `finalize_hit`.
`Oracles` works on bytes, because what matters about an oracle is where it
draws its line: trailing zeros, nine tenths, three quarters, a length that fits.

### StreamHunt

A keystream byte is a pair of a counter block and a place in it, and a byte of
plaintext is named by the keystream byte it was xored with, so it is right when
it is the one the sender used (`SentByte`, from SP 800-38A, SP 800-38D and RFC
8439). A counter block is a number below `NonceSpan * CounterSpan` (2^96 and
2^32 in the code) of which GCM increments the remainder by `CounterSpan`. `StartHead`, `DecryptChunk`, `EndHead` and `StartFull`,
`DecryptChunk`, `EndFull` are the two calls of `stream_decrypt`; the ChaCha
adapter makes its whole keystream in one step. With a tag, `CheckGcmTag` and
`CheckPolyTag` give the verdict of the library.

### KeySchedule

`Skip`, `BeginPass`, `Collect`, `Return` are the statements of the loop (the SM4
pass is its last round), `TryWindow` is the closure, in any order. `left` and
`found` are the windows no thread has tried and those that are hits. What a
schedule is, is defined by itself (`Schedule`, from the key alone, as in
FIPS-197), while the code looks only at neighbouring words in the dump
(`ScheduleHeadValid`).

## Runs

| run | question | bounds |
|---|---|---|
| `scan` | is the answer of `scan` the contract's for every interleaving, are errors, skips and checks those of the contract, and is every hunt prepared? `TypeOK`, `JobsTile`, `JobsExact`, `TriedExact`, `HitsExact`, `HuntsPrepared`, `ImplementsContract`, `Returns` | lists of 1 to 3 ciphers, up to 4 windows a pass, limits 0 to 2, every match set; 10 lists, every mode, every combination of absent, right and wrong lengths; dumps of 0 to 4 and ciphertexts of 0 to 3 units |
| `command` | `ExitTellsOutcome`, `JsonZeroIsComplete`, `ParseIsOrderFree`, `Exits`, `CmdTypeOK` | every token list of length 0 to 2 and some of 3, every failing stage, up to two passes and three hits |
| `mcp` | `OneReplyEach`, `CleanEndIsComplete`, `FailureKeepsReplies`, `FirstCallSizesPool`, `SentIsAnswered`, `TypeOK` | scripts of up to 3 lines of any kind, pipes of one line |
| `hash` | `ToolAnswerExact`, `ToolTriedExact`, `ToolNeverPanics`, `ToolEnds`, `ToolTypeOK` | digests that fit and do not, ranges that hold none, some or all fixed lengths or are empty, dumps of 0 to 3 bytes, limits 0 to 3, up to 4 matches |
| `keysched` | `ReportExact`, `KsTriedExact`, `LiveScheduleOnce`, `FillIsNoKey`, `EndTellsDump`, `KsTypeOK` | words of two bytes of two bits, sizes 2, 3, 4, two new words, three round constants; schedules of up to three rounds and the words behind them, cut, damaged, adjacent; fills of 0 to 12 bytes |
| `block` | `RightKeyKept`, `PlaintextRight`, `BestIvsKept`, `IvExplainsBlock0`, `BhTypeOK` | blocks of 4 bytes, messages of 1 to 4 blocks of every kind, 7 lists of oracles, two IV candidates kept of up to nine windows, a wrong IV that completes a padding |
| `stream` | `StreamKeyKept`, `HeadIsPrefix`, `CounterFresh`, `TagDecides`, `ShTypeOK` | 2 nonces of 8 counters each; every nonce; 1 to 17 blocks of 2 bytes |
| `stop`, `command_lists`, `hash_exit`, `hash_default`, `text_cut` | sentences of the documentation that the code does not keep | as above |

Why the bounds are enough. Lengths are in units of 8 bytes (a DES block), so
keys are 1 to 4 units and blocks 1 or 2; every comparison the code makes
between a length and another has both outcomes, and for `%` both remainders.
Four windows allow two levels of splitting, the least where a join of joins, a
left half slower than a right one and an overshoot of the limit inside and
across jobs all happen. Two limits and three ciphers make the cut fall inside a
pass, at its end and in a later pass. Pipes of one line are the hardest for
blocking: with larger ones, both full takes only a longer script.

In `hash` the digest lengths are the real ones and window lengths are small,
with 1 and 3 as the fixed key lengths: one below, inside, at the end of and
above a range. A dump of 3 bytes has several windows in two lengths at once,
and one length without a window.

In `keysched` half of the AES sizes keep the relations between them: one size
has a second substitution per round, windows of different sizes end in
different places, and the dumps hold, for two sizes, the windows at the second
and the third round of a schedule. `LiveScheduleOnce` is about every later round
behind which the schedule goes on for a word (for AES-128, nine of the ten); the
last round key is followed by whatever the memory holds. In `block` four bytes a
block let a character straddle each border, and the dumps hold more plausible
IVs than are kept. `MinUtf16`, `VarintBytes` and `VarintBits` shrink with the
block. In `stream` every nonce is tried and the ciphertexts are longer than the
counter of GCM and that of CTR, so every wrap happens at every place.

No state constraint is used anywhere: all instances are finite.

Fairness. `FairSpec` is weak fairness of the whole next-state relation: the
calling thread and rayon's workers keep running, and no step of a call waits for
anything but steps of the same call. `CmdSpec` is weakly fair to the process and
says nothing of the reader. `McpServer!Spec` is weakly fair to the server, and
to a client that reads its replies while it sends; a client that writes a batch
and reads afterwards can block with the server once both pipes are full, and no
fairness of the server can help it.

`ToolSpec` is as `FairSpec`. `BlockHunt`, `StreamHunt` and `KeySchedule` state
no fairness: their steps only go forward, and deadlock is checked.

Deadlock is checked in every run: a call, a command, a tool and a server that
have ended stutter explicitly (`Done`, `Exited`, `Finished`, `Ended`, `Over`), so any other state without
a successor is an error.

## What the runs found

* `stop` is never set, so `max_hits` shortens the list and never the search
  (`StopsAtLimit`). The wrong variant `VerifyStops` shows what a careless repair
  would break: with the flag raised by the first thread that has enough hits,
  earlier hits of slower threads are lost (`HitsExact`).
* The list `all` is always refused, and so is every list with a `-poly1305`
  token: the checks after the parser disagree with it (`DocumentedListsWork`; the
  run stops at the first of the two).
* A valid UTF-8 text is not recognised when the end of the second block cuts one
  of its characters (`TextIsFound`): the longer its characters,
  the likelier.
* `hash --min-len 0` panics (`ExitCodesDocumented`); the MCP tool refuses it.
* The default list of algorithms of the preimage search has three digest
  lengths, and the first that does not fit fails the call (`DefaultAlgosWork`).

Seen while modelling, without a run of their own:

* A line that is not UTF-8 ends the MCP server, although the comment at
  mcp.rs:254 says "errors only on stdout write failures"; `FailureKeepsReplies`
  states what does hold. `threads` counts only in the first call of a session
  that wants a pool (`FirstCallSizesPool`).
* The oracles see the padding: PKCS#7 bytes in the first two blocks count as
  control characters, so `utf8` refuses a text with more than a tenth of them
  there, and `json` any. `RightKeyKept` is about the head as it is.
* ECB is tried first, and a window whose ECB reading an oracle accepts is never
  read as CBC, whatever its CBC reading: `RightKeyKept` allows such a hit.
* With a fixed IV and two blocks or more, block 0 is known and still not
  verified, so oracles that look for a beginning do not see it.
* ChaCha20-Poly1305 uses block 0 of the keystream for the tag. Without the tag
  the adapter decrypts from block 0, so the right key gives noise
  (`SameStart` in `StreamHunt`).
* No padding is ever reported as none for a block hit: `strip_zero` always says
  yes, and takes a last zero byte of UTF-16 text with it.
* `known:` with no fragment is accepted and never matches. A comma in a
  fragment splits it.
* The README says "Only the first two ciphertext blocks"; CBC looks at blocks 1
  and 2, the second and the third.
* `words_validated` of an AES hit is 4 plus the words of the key, not the words
  "past the key" (keysched.rs:62).
* Of a varint's tenth byte all bits but one are shifted out (`VarintValue`).
* The head of hash_scan.rs promises "the common fixed lengths" for the preimage
  search, and only the key search adds any (`Lengths`).

## Proofs

TLAPS checks the theorems below. They hold for all values of the constants that
satisfy the assumptions of the modules, so for the real sizes as for the small
ones of the runs, and for every request, script, dump or trial.

| module | theorem | statement |
|---|---|---|
| `ScanEngineProofs` | `TypeCorrect`, `JobsTileAlways`, `JobsExactAlways`, `HitsExactAlways`, `TriedExactAlways`, `HuntsPreparedAlways` | `Spec => []P` for `TypeOK`, `JobsTile`, `JobsExact`, `HitsExact`, `TriedExact`, `HuntsPrepared` |
| | `EngineImplementsContract` | `Spec => ImplementsContract`: the loop with its threads is a refinement of the one step of `ScanContract` |
| | `AnswerRightAlways` | `Spec => []AnswerRight`: the answer is right whenever `scan` is about to return one |
| `ScanCommandProofs` | `CmdTypeCorrect`, `ExitTellsOutcomeAlways`, `JsonZeroIsCompleteAlways`, `ParseIsOrderFreeAlways` | `CmdSpec => []P` for the four safety properties of the run `command` |
| `HashToolsProofs` | `ToolTypeCorrect`, `ToolAnswerExactAlways`, `ToolTriedExactAlways`, `ToolNeverPanicsAlways` | `ToolSpec => []P` for the four safety properties of the run `hash` |
| `BlockHuntProofs` | `BhTypeCorrect`, `RightKeyKeptAlways`, `PlaintextRightAlways`, `BestIvsKeptAlways`, `IvExplainsBlock0Always` | `Spec => []P` for the five properties of the run `block` |
| `StreamHuntProofs` | `ShTypeCorrect`, `StreamKeyKeptAlways`, `HeadIsPrefixAlways`, `CounterFreshAlways`, `TagDecidesAlways` | the same for the run `stream` |
| `KeyScheduleProofs` | `KsTypeCorrect`, `ReportExactAlways`, `KsTriedExactAlways`, `LiveScheduleOnceAlways`, `FillIsNoKeyAlways`, `EndTellsDumpAlways` | the same for the run `keysched` |
| `McpServerProofs` | `McpTypeCorrect`, `OneReplyEachAlways`, `CleanEndIsCompleteAlways`, `FailureKeepsRepliesAlways`, `FirstCallSizesPoolAlways` | the same for the safety properties of the run `mcp` |

Every safety property that a run checks on a small instance is so proved for all.
Each module rests on one inductive invariant, and derives the theorems from it;
`CmdInvariant` and `ToolInvariant` state two of them as theorems.

**scan.** `PassInv` is the inductive invariant of a pass: every job is
`JobExact` (its found list is the ordered, sound and complete list of the
matches in `lo .. next - 1`), jobs are disjoint intervals, and they cover all
windows. `JobExact` alone is not inductive: that a join appends in order needs
the two jobs to be neighbours, and that the last job is the whole pass needs the
tiling. Splitting is arithmetic about a middle (`HalfInside`), joining is
`ListsConcat`. `HitsInv` adds what the list of hits is between passes; its step
at `Collect` uses that the last job lists the whole pass (`LastJob`).
`TriedInv` equates the counter with the cardinality of the set of windows
counted so far; each `Count` adds one new element (`CountIsNew`), each split,
join and collect leaves the set alone. `HuntsPrepared` needs no history beyond
"the request was accepted before the first cipher" (`PreparedInv`).

**scan implements the contract.** The refinement mapping hides `jobs`, `tried`,
`stop` and `ci`. Every step but the last is a stutter; the step that ends the
call gives an answer that `ScanContract` defines without passes, from the
request alone. So the invariant must connect the two: `LoopInv` says where the
loop may be (an earlier cipher was neither refused nor the last one), that the
list of hits ranges over the windows reached, cut at the limit, and that the
counter is their number. `HitsAtEnd` and `TriedAtEnd` turn this into the
contract's own words at the end of the loop.

**The command scan.** `CmdInv` has a part for each stage: before the call the
variables of `scan` are those of a call that has not begun, so that the call
satisfies `Init` of `ScanEngine`; from then on `LoopInv` holds of the request
that the arguments make, and each of its steps keeps it because it is a step of
`ScanEngine`. The proof of the engine is so used as it is. What the exit code
tells is then read off the contract (`HitsTellKey`, `ErrorTellsFailure`). That
JSON output with exit code 0 is complete needs that `delivered` follows `cursor`
as long as the reader is there. For the parser, `Parsed` says what the loop
holds after n tokens; what is hard in it is the mode, which a poly1305 name turns
to GCM for good, so that the check after the loop refuses the list.

**Hash search.** `ToolInv` says that a use is waiting, refused by its caller, or a
search. In a search each thread has found exactly the matches among the
windows behind it (`LengthDone`), the hits are those of the algorithms behind, in
order (`ListsHits`), each of these algorithms fits the digest and left the hits
below the limit (`Gets`), and the counter is `PassSize` for each pass behind plus
the windows tried in this one. The order of the hits is that of the lengths as
they are pushed, so the list of lengths is found by ranks first
(`LengthsFacts`), and joining the finds of the threads is `FlattenFacts`. Both the
pushes and the flattening are recursive functions; `Iterates` gives their
existence. That the tool never panics is that it refuses a range from 0, and
that a pass over a list without the length 0 has no `StartZero`.

**One window, block hunt.** `BhInv` says which readings have been refused where,
that the pass for the IV has found exactly the candidates among the windows
tried (`Hits`), and that the plaintext is block 0 followed by `CbcTail`, or what
stripping leaves of that. The rest is about operators: xor undoes itself, so
with the key block 0 under the true IV and the other blocks under any are those
of the padded message (`CbcFirstBlock`, `CbcOtherBlocks`); a padding is found
where it was put and stripping gives the message back (`StrippedMessage`); and
the sort of the candidates is a list without repetitions that misses none,
because `Better` is a strict total order on them (`BestIvsFacts`, from
`RankList`). The oracles are never opened: the theorems hold for any six
predicates. What the oracles say of particular bytes is left to the run.

**Stream hunts.** `ShInv` gives the counter in closed form after k chunks:
nonce and start plus k, modulo the span, in the two ways that CTR and GCM wrap.
A step of `increment_counter` keeps the form (`ModSum`); the byte xored is then
the one the sender used. That no block is used twice within a length is
injectivity of the form (`DivModUnique`).

**Key schedules.** `KsInv` says that a pass has found the hits among the windows
tried, that the hits of the passes behind are listed in the order of the dump,
and that the counter is the number of windows of the passes behind plus those
tried (`CountPass`). That a head found in the dump *is* the head of a schedule,
though the code never computes one, is an induction over the words
(`HoldsIffFollows`); that a schedule is not found again at any later round, and
never in a fill, rests on the round constants (`RoundsDiffer`, `FillFails`): the
word behind round `r` was made with constant `r + 1`, and a hit there would need
the first.

**MCP server.** `McpInv` is `OneReplyEach` (what the client has, what is in the
pipe and what is being written are together the replies owed to the lines read)
with what each place of the loop adds to it, and that the pool is the one of the
first builder among the lines read.

The assumptions on constants are few: sizes are positive; a request, an invocation,
a trial, a use, a script is of the shape the caller guarantees; the requests
include those that the invocations lead to; xor on bytes undoes itself;
and, for `KeySchedule`, `RoundConstants`: xor is cancellative, round constants
differ from each other and are not zero, there are enough of them for
a window, a word has more than one byte. TLC evaluates them all on the instances.

What the proofs found:

* The property `PlaintextRight` was false. With a fixed or wrongly chosen IV the
  block 0 shown may end in the very bytes that the rest of the message consists
  of, and `strip_pkcs7`, which believes a length beyond one block (engine.rs:236),
  strips across the border: the message loses more than its padding. No run
  had such a trial; `PadTrial` is one now, and the property says which message
  it is about (`Pkcs7Len(Shown) = 0` when nothing was padded with PKCS#7).
* `Ends` in `KeySchedule` had two overlapping `CASE` arms. TLC takes the first,
  the language either; the arms are disjoint now.
* `KeySchedule` needed round constants that differ: with repeated ones a live
  schedule is reported at each of its rounds.

* `HashScan` and `CipherList` had the lists of the code as `SelectSeq` and folds,
  about which nothing can be proved for lists of every length. The lengths are
  now pushed one by one as in the code (hash_scan.rs:243), the tokens taken one by
  one, and the sorted selection is a list by rank. The runs find the same states.

Model-checked only: the liveness properties `Returns`, `Exits`, `ToolEnds` and
`SentIsAnswered`, which no installed prover reaches. Induction is needed in many
places; `SetInduction` states it for a set instead of a predicate, and so needs no
operator parameter.

## Not modelled

Ciphers, tags and digests are crates of their own: a block cipher is a table of
one trial, a keystream a set of names, a tag fits or does not, and the S-boxes
and round constants are parameters. Of UTF-8, overlong forms and surrogates.
Time: the rates in the statistics. Resources: allocation failure, the operating
system refusing threads (`--threads` of the CLI), ChaCha's keystream running out
after 256 GiB. The report types, the display of a hit. How oracle names are
spelled (`parse_spec` is an argument that is right or wrong).

## Plan

1. Done: `CipherConfig`, `ScanInput`, `ScanContract`, `ScanEngine` with proofs,
   `CipherList`, `ScanCommand`, `McpServer`.
2. Done: `HashScan`, `HashTools`, `KeySchedule`, `Oracles`, `BlockHunt`,
   `StreamHunt`.
3. Done: the theorems above, for every safety property of every run.
4. Left for a model and its proof: the answer of the hash search and of the key
   schedule search as abstract specifications in the manner of `ScanContract`.

## Reproducing

`tlc -config MCScan.cfg MCScan` (and so on, module and cfg in
`PROJECT.json`); `tlapm ScanEngineProofs.tla` and so on for the other modules
of theorems. Every run ends within two minutes, the proofs of a module within a
few.
