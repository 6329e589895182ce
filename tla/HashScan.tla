------------------------------- MODULE HashScan -------------------------------
(***************************************************************************)
(* The two hash searches (crates/memhunt-core/src/hash_scan.rs):           *)
(* scan_preimages, a loop over the algorithms with one parallel pass each, *)
(* and scan_hmac_keys, one parallel pass.  The parallel unit of a pass is  *)
(* a window length: one thread tries all windows of a length in the order  *)
(* of the dump, and `collect` puts the lengths in the order of their list. *)
(*                                                                         *)
(* A call is a record with                                                 *)
(*   kind     "preimage" or "hmac"                                         *)
(*   algos    the sequence of algorithms, one for "hmac"                   *)
(*   digest   the length of the target digest or MAC                       *)
(*   min, max the range of window lengths                                  *)
(*   maxHits  HashScanConfig::max_hits, 0 for no limit                     *)
(*   dump     the length of the dump                                       *)
(*   match    the <<algorithm, length, offset>> triples whose window has   *)
(*            the target digest, or is a key of the target MAC             *)
(***************************************************************************)
EXTENDS Integers, FiniteSets, SequencesExt

CONSTANT FixedLens  \* the key lengths scan_hmac_keys always tries

\* Key lengths are different and never 0.
ASSUME FixedLensAssumption ==
  /\ FixedLens \in Seq(Nat \ {0})
  /\ \A m, n \in DOMAIN FixedLens : m # n => FixedLens[m] # FixedLens[n]

Algos == {"md5", "sha1", "sha256", "sm3"}

OutputLen(a) ==
  CASE a = "md5" -> 16 [] a = "sha1" -> 20 [] a \in {"sha256", "sm3"} -> 32

VARIABLES call,
          pc,     \* "start", "algo" (head of the loop), "pass", "ok", "err",
                  \* "panic"
          ai,     \* index of the algorithm under way
          work,   \* for each length of the pass: the offset its thread is at
                  \* (None before it starts) and the offsets found
          tried,  \* the shared counter
          hits    \* <<index of the algorithm, length, offset>> of each hit

hashVars == <<call, pc, ai, work, tried, hits>>

-----------------------------------------------------------------------------
None == -1

\* (min..=max), empty when max < min.
RangeLengths(c) == [k \in 1 .. c.max - c.min + 1 |-> c.min + k - 1]

\* Wrong variant: adds the fixed lengths even if the range has them.
AllLengths(c) ==
  IF c.kind = "preimage" THEN RangeLengths(c) ELSE RangeLengths(c) \o FixedLens

\* The lengths of a pass, in order: for keys each fixed length is pushed that
\* the list does not contain yet.
Lengths(c) ==
  LET pushed[n \in 0 .. Len(FixedLens)] ==
        IF n = 0 THEN RangeLengths(c)
        ELSE IF Contains(pushed[n - 1], FixedLens[n])
        THEN pushed[n - 1]
        ELSE Append(pushed[n - 1], FixedLens[n])
  IN  IF c.kind = "preimage" THEN RangeLengths(c) ELSE pushed[Len(FixedLens)]

WindowsOf(c, l) == IF c.dump >= l THEN c.dump - l + 1 ELSE 0

Idle == [next |-> None, found |-> <<>>]

\* scan_preimages refuses an empty digest once; scan_hmac_keys has no such
\* check, its length check covers it.
Begin ==
  /\ pc = "start"
  /\ pc' = IF call.kind = "preimage" /\ call.digest = 0 THEN "err" ELSE "algo"
  /\ UNCHANGED <<call, ai, work, tried, hits>>

AtAlgo == pc = "algo" /\ ai \in DOMAIN call.algos

Fits(c, i) == c.digest = OutputLen(c.algos[i])

\* Wrong variant: looks at the same algorithm again.
MismatchStays ==
  /\ AtAlgo
  /\ ~Fits(call, ai)
  /\ UNCHANGED hashVars

\* The digest is not one of this algorithm: an error, and the hits are lost.
Mismatch ==
  /\ AtAlgo
  /\ ~Fits(call, ai)
  /\ pc' = "err"
  /\ hits' = <<>>
  /\ UNCHANGED <<call, ai, work, tried>>

BeginPass ==
  /\ AtAlgo
  /\ Fits(call, ai)
  /\ pc' = "pass"
  /\ work' = [k \in DOMAIN Lengths(call) |-> Idle]
  /\ UNCHANGED <<call, ai, tried, hits>>

\* A thread takes a length.
StartLength(k) ==
  /\ pc = "pass"
  /\ work[k].next = None
  /\ Lengths(call)[k] > 0
  /\ work' = [work EXCEPT ![k].next = 0]
  /\ UNCHANGED <<call, pc, ai, tried, hits>>

\* dump.windows(0) panics, and rayon passes the panic on to the caller.
StartZero(k) ==
  /\ pc = "pass"
  /\ work[k].next = None
  /\ Lengths(call)[k] = 0
  /\ pc' = "panic"
  /\ UNCHANGED <<call, ai, work, tried, hits>>

\* Wrong variant: goes on behind a match, as str::find would.
TryWindowBehind(k) ==
  LET l == Lengths(call)[k]
      o == work[k].next
      hit == <<call.algos[ai], l, o>> \in call.match
  IN  /\ pc = "pass"
      /\ o \in 0 .. WindowsOf(call, l) - 1
      /\ tried' = tried + 1
      /\ work' = [work EXCEPT ![k] =
                    IF hit THEN [next |-> o + l, found |-> Append(@.found, o)]
                           ELSE [@ EXCEPT !.next = o + 1]]
      /\ UNCHANGED <<call, pc, ai, hits>>

\* One window: tried.fetch_add, the digest, the comparison.
TryWindow(k) ==
  LET l == Lengths(call)[k]
      o == work[k].next
      hit == <<call.algos[ai], l, o>> \in call.match
  IN  /\ pc = "pass"
      /\ o \in 0 .. WindowsOf(call, l) - 1
      /\ tried' = tried + 1
      /\ work' = [work EXCEPT ![k] =
                    [next |-> o + 1,
                     found |-> IF hit THEN Append(@.found, o) ELSE @.found]]
      /\ UNCHANGED <<call, pc, ai, hits>>

PassOver ==
  \A k \in DOMAIN work : work[k].next = WindowsOf(call, Lengths(call)[k])

\* What `collect` returns.
Collected ==
  FlattenSeq([k \in DOMAIN work |->
    [n \in DOMAIN work[k].found |->
       <<ai, Lengths(call)[k], work[k].found[n]>>]])

Limited(s) == call.maxHits > 0 /\ Len(s) >= call.maxHits

\* Wrong variant: cuts the hits of each pass and not their sum.
CollectPerPass ==
  /\ pc = "pass" /\ PassOver
  /\ LET s == Collected
     IN  /\ hits' = hits \o
              (IF Limited(s) THEN SubSeq(s, 1, call.maxHits) ELSE s)
         /\ pc' = IF Limited(s) THEN "ok" ELSE "algo"
  /\ ai' = ai + 1 /\ work' = <<>>
  /\ UNCHANGED <<call, tried>>

\* hits.extend(found), then truncate and break at the limit; the key search
\* has no limit.
Collect ==
  /\ pc = "pass" /\ PassOver
  /\ LET all == hits \o Collected
         cut == call.kind = "preimage" /\ Limited(all)
     IN  /\ hits' = IF cut THEN SubSeq(all, 1, call.maxHits) ELSE all
         /\ pc' = IF cut THEN "ok" ELSE "algo"
  /\ ai' = ai + 1 /\ work' = <<>>
  /\ UNCHANGED <<call, tried>>

Return ==
  /\ pc = "algo" /\ ai \notin DOMAIN call.algos
  /\ pc' = "ok"
  /\ UNCHANGED <<call, ai, work, tried, hits>>

HashStep ==
  \/ Begin \/ Mismatch \/ BeginPass
  \/ \E k \in DOMAIN work : StartLength(k) \/ StartZero(k) \/ TryWindow(k)
  \/ Collect \/ Return

-----------------------------------------------------------------------------
(* What a call should answer, without passes. *)

\* The lengths tried, as a set.
LengthSet(c) ==
  (c.min .. c.max) \cup
    (IF c.kind = "hmac" THEN ToSet(FixedLens) ELSE {})

\* The rank of a length: those of the range first, then the fixed ones.
Rank(c, l) ==
  IF l \in c.min .. c.max
  THEN l
  ELSE c.max + CHOOSE n \in DOMAIN FixedLens : FixedLens[n] = l

\* The hits of the first n algorithms, as <<index, length, offset>>.
HitSet(c, n) ==
  {h \in (1 .. n) \X LengthSet(c) \X (0 .. c.dump) :
     /\ h[3] < WindowsOf(c, h[2])
     /\ <<c.algos[h[1]], h[2], h[3]>> \in c.match}

HitBefore(c, g, h) ==
  \/ g[1] < h[1]
  \/ g[1] = h[1] /\ Rank(c, g[2]) < Rank(c, h[2])
  \/ g[1] = h[1] /\ g[2] = h[2] /\ g[3] < h[3]

\* s is the list of S in order, cut after n.
ListsFirst(c, s, S, n) ==
  /\ \A k, m \in DOMAIN s : k < m => HitBefore(c, s[k], s[m])
  /\ ToSet(s) \subseteq S
  /\ \A h \in S \ ToSet(s), k \in DOMAIN s : HitBefore(c, s[k], h)
  /\ Len(s) = IF n < Cardinality(S) THEN n ELSE Cardinality(S)

\* The limit on the hits of a call; the key search has none.
Limit(c) ==
  IF c.kind = "hmac" \/ c.maxHits = 0
  THEN Cardinality(HitSet(c, Len(c.algos)))
  ELSE c.maxHits

\* The loop gets to algorithm i.
Gets(c, i) ==
  \/ c.kind = "hmac" \/ c.maxHits = 0
  \/ Cardinality(HitSet(c, i - 1)) < c.maxHits

Refused(c) ==
  \/ c.kind = "preimage" /\ c.digest = 0
  \/ \E i \in DOMAIN c.algos : Gets(c, i) /\ ~Fits(c, i)

\* The number of windows of one pass.
PassSize(c) ==
  Cardinality({w \in LengthSet(c) \X (0 .. c.dump) : w[2] < WindowsOf(c, w[1])})

-----------------------------------------------------------------------------
(* Properties. *)

\* Every variable has its type and the cursors stay in the dump.
HashTypeOK ==
  /\ pc \in {"start", "algo", "pass", "ok", "err", "panic"}
  /\ ai \in 1 .. Len(call.algos) + 1
  /\ tried \in Nat
  /\ \A k \in DOMAIN work :
       /\ work[k].next \in None .. WindowsOf(call, Lengths(call)[k])
       /\ work[k].found \in Seq(0 .. call.dump)
  /\ hits \in Seq((Nat \ {0}) \X Nat \X Nat)

\* Whatever threads run the lengths of a pass and in whatever order they end,
\* the answer is the one the call determines: the error of a digest that does
\* not fit an algorithm the loop gets to, or the matches by algorithm, length
\* and offset, cut at the limit.
HashAnswerExact ==
  /\ pc = "panic" => 0 \in LengthSet(call)
  /\ pc = "err" => Refused(call)
  /\ pc = "ok"  =>
       /\ ~Refused(call) /\ 0 \notin LengthSet(call)
       /\ ListsFirst(call, hits, HitSet(call, Len(call.algos)), Limit(call))

\* Each window of each length is tried once for each algorithm the loop gets
\* to, also when a fixed key length lies in the range.
HashTriedExact ==
  pc = "ok" =>
    tried = PassSize(call) * Cardinality({i \in DOMAIN call.algos : Gets(call, i)})
=============================================================================
