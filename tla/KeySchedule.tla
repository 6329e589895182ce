----------------------------- MODULE KeySchedule -----------------------------
(***************************************************************************)
(* The search for expanded keys (crates/memhunt-core/src/keysched.rs:      *)
(* scan_key_schedules, scan_sm4_schedules) and its two callers, the        *)
(* command key-schedules and the MCP tool memhunt_key_schedules: one       *)
(* parallel pass over all windows for each AES key size, then one for SM4. *)
(*                                                                         *)
(* Words, key sizes and bytes are parameters, so that small ones show what *)
(* happens; AES has WordLen = 4, Sizes = <<4, 6, 8>>, DeepSize = 8 and     *)
(* NewWords = 4.  What the expansion does with a byte (xor, S-box) and the *)
(* first round key of SM4 are parameters too.                              *)
(*                                                                         *)
(* A use is a record with                                                  *)
(*   by       "cli" or "mcp"                                               *)
(*   json     whether the command prints JSON lines                        *)
(*   readable whether the dump can be read                                 *)
(*   dump     the bytes of the dump                                        *)
(***************************************************************************)
EXTENDS Integers, FiniteSets, Sequences

CONSTANTS Uses,
          Byte, Xor(_, _), SBox,
          Rcon,        \* the round constants, from the first round on
          WordLen,     \* bytes per word
          Sizes,       \* the AES key sizes in words, in the order of the loop
          DeepSize,    \* the size with a second substitution per round
          NewWords,    \* how many words after the key are checked
          Sm4Rk0(_)    \* the first round key of an SM4 key

ASSUME KeyScheduleAssumption ==
  /\ \A a, b \in Byte : Xor(a, b) \in Byte
  /\ SBox \in [Byte -> Byte]
  /\ Rcon \in Seq(Byte) /\ Rcon # <<>>
  /\ WordLen \in Nat \ {0} /\ NewWords \in Nat \ {0}
  /\ Sizes \in Seq(Nat \ {0, 1}) /\ DeepSize \in Nat
  /\ \A u \in Uses : /\ u.by \in {"cli", "mcp"} /\ u.readable \in BOOLEAN
                     /\ u.dump \in Seq(Byte)

\* What the arithmetic of AES gives: xor can be undone, the round constants
\* differ from one another and from zero, and there are enough of them for
\* the words that a window checks.
ASSUME RoundConstants ==
  /\ \A a, b, c \in Byte : Xor(a, b) = Xor(a, c) => b = c
  /\ \A m, n \in DOMAIN Rcon : m # n => Rcon[m] # Rcon[n]
  /\ \A a \in Byte, n \in DOMAIN Rcon : Xor(a, Rcon[n]) # a
  /\ \A p \in DOMAIN Sizes :
       (Sizes[p] + NewWords - 1) \div Sizes[p] <= Len(Rcon)
  /\ WordLen > 1

VARIABLES use,
          pc,     \* "read", "loop" (head of the loop), "pass", "end", "over"
          pass,   \* index of the pass under way, the last one is SM4's
          left,   \* the windows of the pass that no thread has tried
          found,  \* those that a thread has turned into a hit
          tried,  \* the shared counter
          hits,   \* <<index of the pass, offset>> of each hit reported
          end     \* "none", or what the caller ends with

vars == <<use, pc, pass, left, found, tried, hits, end>>

-----------------------------------------------------------------------------
(* One window. *)

\* The n-th word, from 0, of the window at offset o.
Word(d, o, n) == SubSeq(d, o + n * WordLen + 1, o + (n + 1) * WordLen)

XorWord(v, w) == [b \in 1 .. WordLen |-> Xor(v[b], w[b])]

SubWord(w) == [b \in 1 .. WordLen |-> SBox[w[b]]]

RotWord(w) == [b \in 1 .. WordLen |-> w[(b % WordLen) + 1]]

RconAt(round) == Rcon[IF round < Len(Rcon) THEN round ELSE Len(Rcon)]

AddRcon(w, round) == [w EXCEPT ![1] = Xor(@, RconAt(round))]

\* Word i of a schedule from the word before it and the word nk before it.
ExpandWord(back, prev, i, nk) ==
  XorWord(back,
          CASE i % nk = 0 -> AddRcon(SubWord(RotWord(prev)), i \div nk)
            [] nk = DeepSize /\ i % nk = nk \div 2 -> SubWord(prev)
            [] OTHER -> prev)

\* Wrong variant: starts one word late.
ScheduleHeadValidLate(d, o, nk) ==
  \A i \in nk + 1 .. nk + NewWords - 1 :
    Word(d, o, i) = ExpandWord(Word(d, o, i - nk), Word(d, o, i - 1), i, nk)

\* The NewWords words after the first nk follow from those before them, as
\* they are in the dump.
ScheduleHeadValid(d, o, nk) ==
  \A i \in nk .. nk + NewWords - 1 :
    Word(d, o, i) = ExpandWord(Word(d, o, i - nk), Word(d, o, i - 1), i, nk)

\* An SM4 key of four words and its first round key, big-endian.
Sm4HeadValid(d, o) ==
  Word(d, o, 4) = Sm4Rk0([n \in 1 .. 4 |-> Word(d, o, n - 1)])

-----------------------------------------------------------------------------
(* The passes. *)

Passes == 1 .. Len(Sizes) + 1

IsSm4(p) == p = Len(Sizes) + 1

WindowLen(p) ==
  WordLen * (IF IsSm4(p) THEN 5 ELSE Sizes[p] + NewWords)

\* The offsets of the windows of a pass.
Windows(d, p) == {o \in 0 .. Len(d) - 1 : o + WindowLen(p) <= Len(d)}

HeadValid(d, p, o) ==
  IF IsSm4(p) THEN Sm4HeadValid(d, o) ELSE ScheduleHeadValid(d, o, Sizes[p])

\* A set of offsets in the order of the dump.
InOrder(S) ==
  [n \in 1 .. Cardinality(S) |->
    CHOOSE o \in S : Cardinality({q \in S : q < o}) = n - 1]

Init ==
  /\ use \in Uses
  /\ pc = "read" /\ pass = 1 /\ left = {} /\ found = {}
  /\ tried = 0 /\ hits = <<>> /\ end = "none"

Read ==
  /\ pc = "read"
  /\ pc' = IF use.readable THEN "loop" ELSE "end"
  /\ UNCHANGED <<use, pass, left, found, tried, hits, end>>

\* Wrong variant: leaves the loop when a size has no window.
SkipBreaks ==
  /\ pc = "loop" /\ pass \in Passes /\ Windows(use.dump, pass) = {}
  /\ pc' = "end"
  /\ UNCHANGED <<use, pass, left, found, tried, hits, end>>

\* The dump is shorter than a window of this size.
Skip ==
  /\ pc = "loop" /\ pass \in Passes /\ Windows(use.dump, pass) = {}
  /\ pass' = pass + 1
  /\ UNCHANGED <<use, pc, left, found, tried, hits, end>>

\* Wrong variant: keeps the hits of the pass before.
BeginPassKeeps ==
  /\ pc = "loop" /\ pass \in Passes /\ Windows(use.dump, pass) # {}
  /\ left' = Windows(use.dump, pass)
  /\ pc' = "pass"
  /\ UNCHANGED <<use, pass, found, tried, hits, end>>

BeginPass ==
  /\ pc = "loop" /\ pass \in Passes /\ Windows(use.dump, pass) # {}
  /\ left' = Windows(use.dump, pass)
  /\ found' = {}
  /\ pc' = "pass"
  /\ UNCHANGED <<use, pass, tried, hits, end>>

\* Wrong variant: counts the windows that were hits.
TryWindowCountsHits(o) ==
  /\ pc = "pass" /\ o \in left
  /\ left' = left \ {o}
  /\ IF HeadValid(use.dump, pass, o)
     THEN found' = found \cup {o} /\ tried' = tried + 1
     ELSE UNCHANGED <<found, tried>>
  /\ UNCHANGED <<use, pc, pass, hits, end>>

\* Wrong variant: a thread stops the pass at its first hit.
TryWindowStops(o) ==
  /\ pc = "pass" /\ o \in left
  /\ tried' = tried + 1
  /\ IF HeadValid(use.dump, pass, o)
     THEN left' = {} /\ found' = found \cup {o}
     ELSE left' = left \ {o} /\ UNCHANGED found
  /\ UNCHANGED <<use, pc, pass, hits, end>>

\* Some thread tries the window at o: any of those left.
TryWindow(o) ==
  /\ pc = "pass" /\ o \in left
  /\ left' = left \ {o}
  /\ tried' = tried + 1
  /\ found' = IF HeadValid(use.dump, pass, o) THEN found \cup {o} ELSE found
  /\ UNCHANGED <<use, pc, pass, hits, end>>

\* collect puts the hits of a pass in the order of the dump, extend behind
\* those of the earlier passes.
Collect ==
  /\ pc = "pass" /\ left = {}
  /\ hits' = hits \o [n \in 1 .. Cardinality(found) |->
                       <<pass, InOrder(found)[n]>>]
  /\ pass' = pass + 1
  /\ pc' = "loop"
  /\ UNCHANGED <<use, left, found, tried, end>>

Return ==
  /\ pc = "loop" /\ pass \notin Passes
  /\ pc' = "end"
  /\ UNCHANGED <<use, pass, left, found, tried, hits, end>>

\* The exit codes of the command, where a JSON line may not reach stdout (an
\* error there of the human format is dropped), and the reply of the tool.
Ends ==
  CASE ~use.readable -> IF use.by = "cli" THEN {"2"} ELSE {"isError"}
    [] use.readable /\ use.by = "mcp" -> {"result"}
    [] use.readable /\ use.by = "cli" /\ hits = <<>> -> {"1"}
    [] OTHER -> IF use.json THEN {"0", "2"} ELSE {"0"}

Finish ==
  /\ pc = "end"
  /\ end' \in Ends
  /\ pc' = "over"
  /\ UNCHANGED <<use, pass, left, found, tried, hits>>

Over == pc = "over" /\ UNCHANGED vars

Next ==
  \/ Read \/ Skip \/ BeginPass \/ Collect \/ Return \/ Finish
  \/ \E o \in left : TryWindow(o)
  \/ Over

Spec == Init /\ [][Next]_vars

-----------------------------------------------------------------------------
(* The schedule that FIPS-197 makes of a key: a function on the number of a *)
(* word, computed from the key alone.                                      *)

Schedule(key, nk, n) ==
  LET w[i \in 0 .. n - 1] ==
        IF i < nk
        THEN key[i + 1]
        ELSE [b \in 1 .. WordLen |->
               Xor(w[i - nk][b],
                   IF i % nk = 0
                   THEN LET s == SBox[w[i - 1][(b % WordLen) + 1]]
                        IN  IF b = 1 THEN Xor(s, Rcon[i \div nk]) ELSE s
                   ELSE IF nk = DeepSize /\ i % nk = nk \div 2
                        THEN SBox[w[i - 1][b]]
                        ELSE w[i - 1][b])]
  IN  w

\* The first nk words of the window at o are a key, and n words in all are
\* its schedule.
HoldsSchedule(d, o, nk, n) ==
  /\ o + n * WordLen <= Len(d)
  /\ LET w == Schedule([i \in 1 .. nk |-> Word(d, o, i - 1)], nk, n)
     IN  \A i \in nk .. n - 1 : Word(d, o, i) = w[i]

-----------------------------------------------------------------------------
(* Properties. *)

\* Every variable has its type.
KsTypeOK ==
  /\ pc \in {"read", "loop", "pass", "end", "over"}
  /\ pass \in 1 .. Len(Sizes) + 2
  /\ pc = "pass" => pass \in Passes
  /\ left \cup found \subseteq 0 .. Len(use.dump) - 1
  /\ left \cap found = {}
  /\ tried \in Nat
  /\ hits \in Seq(Passes \X Nat)
  /\ end \in {"none", "0", "1", "2", "result", "isError"}

\* The offset o is one the p-th pass should report.
Expected(p, o) ==
  IF IsSm4(p)
  THEN o + WindowLen(p) <= Len(use.dump) /\ Sm4HeadValid(use.dump, o)
  ELSE HoldsSchedule(use.dump, o, Sizes[p], Sizes[p] + NewWords)

Before(h, g) == h[1] < g[1] \/ (h[1] = g[1] /\ h[2] < g[2])

\* Whatever threads try the windows and in whatever order, the report is the
\* heads of schedules in the dump, each once, by key size and then by offset:
\* no pass that is skipped or interrupted hides one of a later size.
ReportExact ==
  pc = "end" /\ use.readable =>
    /\ \A p \in Passes, o \in 0 .. Len(use.dump) :
         Expected(p, o) <=> \E n \in DOMAIN hits : hits[n] = <<p, o>>
    /\ \A m, n \in DOMAIN hits : m < n => Before(hits[m], hits[n])

\* The windows of some passes, as <<index of the pass, offset>>.
WindowsOf(P) == UNION {{p} \X Windows(use.dump, p) : p \in P}

\* Each window of each size is counted once.
KsTriedExact ==
  /\ pc = "pass" => tried + Cardinality(left) = Cardinality(WindowsOf(1 .. pass))
  /\ pc = "end" /\ use.readable => tried = Cardinality(WindowsOf(Passes))

\* A live schedule is one hit: no later round of it, of as many words as the
\* key, is taken for a key, although it expands forward just as well, because
\* the word behind it was made with another round constant. The dump holds the
\* schedule up to that word, and there is a constant for it: the last round
\* key, which nothing follows, is left out.
LiveScheduleOnce ==
  pc = "end" /\ use.readable =>
    \A p \in 1 .. Len(Sizes), o \in 0 .. Len(use.dump), r \in 1 .. Len(Rcon) - 1 :
      HoldsSchedule(use.dump, o, Sizes[p], (r + 1) * Sizes[p] + 1)
      => ~\E n \in DOMAIN hits :
            hits[n] = <<p, o + r * Sizes[p] * WordLen>>

\* Memory that was filled with one byte is not full of AES keys.
FillIsNoKey ==
  (\A m, n \in DOMAIN use.dump : use.dump[m] = use.dump[n]) =>
    \A n \in DOMAIN hits : IsSm4(hits[n][1])

\* Exit code 1 says that the dump holds no schedule of any size, 0 that it
\* holds one; a dump that was not read gets neither.
EndTellsDump ==
  /\ end = "1" => use.readable /\ \A p \in Passes, o \in 0 .. Len(use.dump) :
                                    ~Expected(p, o)
  /\ end = "0" => \E p \in Passes, o \in 0 .. Len(use.dump) : Expected(p, o)
=============================================================================
