------------------------------ MODULE ScanEngine ------------------------------
(***************************************************************************)
(* One call of `scan` (crates/memhunt-core/src/engine.rs): the loop over   *)
(* the cipher list and, for each cipher, one data-parallel pass over the   *)
(* windows of the dump (the par_windows..collect chain of hunt,            *)
(* hunt_stream and hunt_stream_cipher, all three the same).                *)
(*                                                                         *)
(* A pass starts as one job, the interval of all windows.  Rayon splits a  *)
(* job that no thread has started in two halves, or runs it window by      *)
(* window; finished neighbours are joined, left before right, until one    *)
(* job is left, whose list is what `collect` returns.  Any set of started  *)
(* jobs may be running and their steps interleave in every way, which      *)
(* includes every size of the thread pool and the work a thread steals     *)
(* while it waits inside a window (find_iv runs a nested pass).            *)
(***************************************************************************)
EXTENDS ScanInput, FiniteSets

VARIABLES req,    \* the request
          pc,     \* where the call is: "validate", "cipher" (head of the
                  \* loop body), "pass" (inside a hunt), "ok", "err"
          ci,     \* index of the cipher under way
          jobs,   \* the jobs of the current pass
          tried,  \* the counter of candidates, shared by the jobs
          stop,   \* the stop flag, shared by the jobs
          hits    \* all_hits

vars == <<req, pc, ci, jobs, tried, stop, hits>>

-----------------------------------------------------------------------------
(***************************************************************************)
(* A job is the windows lo .. hi - 1.  `next` is the window it is at and   *)
(* `found` the offsets of the hits it has collected.  Its status is        *)
(* "queued" until it is started, then for each window "filter" (about to   *)
(* load `stop`), "count" (about to add to `tried`) and "verify" (about to  *)
(* try the key), and at the end "done".                                    *)
(***************************************************************************)
Job(lo, hi) ==
  [lo |-> lo, hi |-> hi, next |-> lo, st |-> "queued", found |-> <<>>]

\* What a running job does when it is at window n.
StatusAt(j, n) == IF n < j.hi THEN "filter" ELSE "done"

\* The job after window j.next, with the hits s.
Advance(j, s) ==
  [lo |-> j.lo, hi |-> j.hi, next |-> j.next + 1,
   st |-> StatusAt(j, j.next + 1), found |-> s]

Replace(old, new) == jobs' = (jobs \ old) \cup new

Init ==
  /\ req \in Requests
  /\ pc = "validate"
  /\ ci = 1
  /\ jobs = {}
  /\ tried = 0
  /\ stop = FALSE
  /\ hits = <<>>

\* validate_config(config)? and the oracle check.
Validate ==
  /\ pc = "validate"
  /\ pc' = IF Accepts(req) THEN "cipher" ELSE "err"
  /\ UNCHANGED <<req, ci, jobs, tried, stop, hits>>

-----------------------------------------------------------------------------
(* The head of the loop body, for cipher number ci. *)

AtCipher == pc = "cipher" /\ ci \in DOMAIN req.ciphers

\* Wrong variant: looks at the skipped cipher again.
SkipStays ==
  /\ AtCipher
  /\ Skips(req, ci)
  /\ UNCHANGED vars

\* `continue`: the key of this block cipher is longer than the dump.
Skip ==
  /\ AtCipher
  /\ Skips(req, ci)
  /\ ci' = ci + 1
  /\ UNCHANGED <<req, pc, jobs, tried, stop, hits>>

\* Wrong variant: returns the hits of the earlier ciphers.
RejectKeepsHits ==
  /\ AtCipher
  /\ Rejects(req, ci)
  /\ pc' = "ok"
  /\ UNCHANGED <<req, ci, jobs, tried, stop, hits>>

\* An early `return Err`: the hits of the earlier ciphers are dropped.
Reject ==
  /\ AtCipher
  /\ Rejects(req, ci)
  /\ pc' = "err"
  /\ hits' = <<>>
  /\ UNCHANGED <<req, ci, jobs, tried, stop>>

\* Wrong variant: leaves the last window out.
BeginShort ==
  /\ AtCipher
  /\ ~Skips(req, ci)
  /\ ~Rejects(req, ci)
  /\ pc' = "pass"
  /\ jobs' = {Job(0, Windows(req, ci) - 1)}
  /\ UNCHANGED <<req, ci, tried, stop, hits>>

\* The call of the hunt function.
Begin ==
  /\ AtCipher
  /\ ~Skips(req, ci)
  /\ ~Rejects(req, ci)
  /\ pc' = "pass"
  /\ jobs' = {Job(0, Windows(req, ci))}
  /\ UNCHANGED <<req, ci, tried, stop, hits>>

-----------------------------------------------------------------------------
(* The pass. *)

Passing == pc = "pass" /\ UNCHANGED <<req, pc, ci, hits>>

\* Rayon halves a job that is not started and holds two windows or more.
Split(j) ==
  /\ Passing
  /\ j.st = "queued" /\ j.hi - j.lo >= 2
  /\ LET mid == j.lo + (j.hi - j.lo) \div 2
     IN  Replace({j}, {Job(j.lo, mid), Job(mid, j.hi)})
  /\ UNCHANGED <<tried, stop>>

Start(j) ==
  /\ Passing
  /\ j.st = "queued"
  /\ Replace({j}, {[j EXCEPT !.st = StatusAt(j, j.lo)]})
  /\ UNCHANGED <<tried, stop>>

\* .filter(|_| !stop.load(..))
LoadStop(j) ==
  /\ Passing
  /\ j.st = "filter"
  /\ Replace({j}, {IF stop THEN Advance(j, j.found)
                           ELSE [j EXCEPT !.st = "count"]})
  /\ UNCHANGED <<tried, stop>>

\* Wrong variant: counts a candidate only when it is a hit.
CountHitsOnly(j) ==
  /\ Passing
  /\ j.st = "count"
  /\ tried' = IF Matches(req, ci, j.next) THEN tried + 1 ELSE tried
  /\ Replace({j}, {[j EXCEPT !.st = "verify"]})
  /\ UNCHANGED stop

\* tried.fetch_add(1)
Count(j) ==
  /\ Passing
  /\ j.st = "count"
  /\ tried' = tried + 1
  /\ Replace({j}, {[j EXCEPT !.st = "verify"]})
  /\ UNCHANGED stop

\* Wrong variant: raises `stop` as soon as a job has found max_hits hits.
VerifyStops(j) ==
  /\ Passing
  /\ j.st = "verify"
  /\ LET s == IF Matches(req, ci, j.next) THEN Append(j.found, j.next)
                                          ELSE j.found
     IN  /\ Replace({j}, {Advance(j, s)})
         /\ stop' = (stop \/ (req.maxHits > 0 /\ Len(s) >= req.maxHits))
  /\ UNCHANGED tried

\* Wrong variant: goes on behind the key it has found.
VerifyBehind(j) ==
  LET n == j.next + KeyLen[req.ciphers[ci]]
      Behind == [j EXCEPT !.next = n, !.st = StatusAt(j, n),
                          !.found = Append(@, j.next)]
  IN  /\ Passing
      /\ j.st = "verify"
      /\ Replace({j}, {IF Matches(req, ci, j.next)
                       THEN Behind ELSE Advance(j, j.found)})
      /\ UNCHANGED <<tried, stop>>

\* The decryption and the oracles, or the tag: Some(hit) or None.
Verify(j) ==
  /\ Passing
  /\ j.st = "verify"
  /\ Replace({j}, {Advance(j, IF Matches(req, ci, j.next)
                              THEN Append(j.found, j.next)
                              ELSE j.found)})
  /\ UNCHANGED <<tried, stop>>

\* Rayon joins the results of two finished neighbours, the left one first.
Join(j, k) ==
  /\ Passing
  /\ j # k /\ j.st = "done" /\ k.st = "done" /\ j.hi = k.lo
  /\ Replace({j, k},
             {[j EXCEPT !.hi = k.hi, !.next = k.hi, !.found = @ \o k.found]})
  /\ UNCHANGED <<tried, stop>>

-----------------------------------------------------------------------------
(* The end of a pass. *)

\* The hits of a pass of cipher i, from their offsets.
HitsOf(i, found) ==
  [n \in 1 .. Len(found) |-> [cipher |-> i, offset |-> found[n]]]

\* Wrong variant: full only when there is one hit too many.
CappedLate(s) == req.maxHits > 0 /\ Len(s) > req.maxHits

Capped(s) == req.maxHits > 0 /\ Len(s) >= req.maxHits

\* Wrong variant: goes on to the next cipher after the limit.
CollectNoBreak(j) ==
  /\ pc = "pass"
  /\ jobs = {j} /\ j.st = "done"
  /\ LET all == hits \o HitsOf(ci, j.found)
     IN  hits' = IF Capped(all) THEN SubSeq(all, 1, req.maxHits) ELSE all
  /\ pc' = "cipher"
  /\ ci' = ci + 1
  /\ jobs' = {}
  /\ UNCHANGED <<req, tried, stop>>

\* all_hits.extend(hits), then truncate and break at the limit.
Collect(j) ==
  /\ pc = "pass"
  /\ jobs = {j} /\ j.st = "done"
  /\ LET all == hits \o HitsOf(ci, j.found)
     IN  /\ hits' = IF Capped(all) THEN SubSeq(all, 1, req.maxHits) ELSE all
         /\ pc' = IF Capped(all) THEN "ok" ELSE "cipher"
  /\ ci' = ci + 1
  /\ jobs' = {}
  /\ UNCHANGED <<req, tried, stop>>

\* The loop is over: Ok(ScanResult).
Return ==
  /\ pc = "cipher"
  /\ ci \notin DOMAIN req.ciphers
  /\ pc' = "ok"
  /\ UNCHANGED <<req, ci, jobs, tried, stop, hits>>

-----------------------------------------------------------------------------
PassStep ==
  \/ \E j \in jobs :
       \/ Split(j) \/ Start(j) \/ LoadStop(j) \/ Count(j) \/ Verify(j)
       \/ Collect(j)
  \/ \E j, k \in jobs : Join(j, k)

\* The call has returned.
Done ==
  /\ pc \in {"ok", "err"}
  /\ UNCHANGED vars

Next ==
  \/ Validate
  \/ Skip \/ Reject \/ Begin
  \/ PassStep
  \/ Return
  \/ Done

Spec == Init /\ [][Next]_vars

\* The thread that called scan and rayon's threads keep running: no step waits
\* for anything but the steps of other jobs of the same call.
FairSpec == Spec /\ WF_vars(Next)

-----------------------------------------------------------------------------
(* Type correctness. *)

JobType ==
  [lo : Nat, hi : Nat, next : Nat, found : Seq(Nat),
   st : {"queued", "filter", "count", "verify", "done"}]

HitType == [cipher : Nat \ {0}, offset : Nat]

\* Every variable has its type; in particular a cursor never leaves its job.
TypeOK ==
  /\ req \in Requests
  /\ pc \in {"validate", "cipher", "pass", "ok", "err"}
  /\ ci \in Nat \ {0}
  /\ jobs \in SUBSET JobType
  /\ \A j \in jobs : j.lo <= j.next /\ j.next <= j.hi
  /\ tried \in Nat
  /\ stop \in BOOLEAN
  /\ hits \in Seq(HitType)

-----------------------------------------------------------------------------
(* Safety. *)

\* However rayon splits and joins, the jobs of a pass are disjoint intervals
\* that cover all windows: no key is tried twice and none is lost.
JobsTile ==
  pc = "pass" =>
    /\ \A j, k \in jobs : j # k => j.hi <= k.lo \/ k.hi <= j.lo
    /\ \A o \in 0 .. Windows(req, ci) - 1 :
         \E j \in jobs : j.lo <= o /\ o < j.hi

\* s is the list of the hits of cipher i at the offsets from .. to - 1.
Lists(r, i, from, to, s) ==
  /\ \A m, n \in DOMAIN s : m < n => s[m] < s[n]
  /\ \A n \in DOMAIN s :
       from <= s[n] /\ s[n] < to /\ Matches(r, i, s[n])
  /\ \A o \in from .. to - 1 :
       Matches(r, i, o) => \E n \in DOMAIN s : s[n] = o

\* The job is inside its pass, its cursor agrees with its status, and it has
\* found the hits of the windows it is past.
JobExact(r, i, j) ==
  /\ j.hi <= Windows(r, i)
  /\ j.st = "queued" => j.next = j.lo
  /\ j.st = "done" => j.next = j.hi
  /\ j.st \in {"filter", "count", "verify"} => j.next < j.hi
  /\ Lists(r, i, j.lo, j.next, j.found)

\* Each job has found the hits of the windows it is past, in the order of the
\* dump, however it came about: split, run or joined from others.
JobsExact ==
  IF pc = "pass" THEN \A j \in jobs : JobExact(req, ci, j) ELSE jobs = {}

\* The windows a job has counted.
Counted(j) == j.lo .. (IF j.st = "verify" THEN j.next ELSE j.next - 1)

\* All windows of the ciphers before the n-th, as <<cipher index, offset>>.
PastWindows(r, n) ==
  UNION {{i} \X (0 .. Windows(r, i) - 1) : i \in 1 .. n - 1}

\* The keys tried so far: all windows of the passes that are over and the
\* windows the jobs of this pass have counted.
Tried == PastWindows(req, ci) \cup ({ci} \X UNION {Counted(j) : j \in jobs})

\* Whatever the interleaving, candidates_tried counts every key that has been
\* tried, each once.
TriedExact == pc \in {"cipher", "pass", "ok"} => tried = Cardinality(Tried)

\* The order of the hits: by cipher, then by offset.
Precedes(g, h) ==
  \/ g.cipher < h.cipher
  \/ g.cipher = h.cipher /\ g.offset < h.offset

HitsInOrder ==
  \A m, n \in DOMAIN hits : m < n => Precedes(hits[m], hits[n])

HitsSound ==
  \A n \in DOMAIN hits :
    /\ hits[n].cipher \in DOMAIN req.ciphers /\ hits[n].cipher < ci
    /\ Matches(req, hits[n].cipher, hits[n].offset)

\* h is a hit of one of the ciphers that are over.
IsPastHit(h) ==
  /\ h.cipher \in DOMAIN req.ciphers /\ h.cipher < ci
  /\ Matches(req, h.cipher, h.offset)

Listed(h) == \E n \in DOMAIN hits : hits[n] = h

NoHitMissed ==
  pc \in {"cipher", "pass", "ok"} =>
    /\ \A h \in [cipher : 1 .. ci - 1, offset : 0 .. req.dumpLen] :
         IsPastHit(h) /\ ~Listed(h) =>
           /\ pc = "ok" /\ Capped(hits)
           /\ \A n \in DOMAIN hits : Precedes(hits[n], h)
    /\ req.maxHits > 0 => Len(hits) <= req.maxHits

\* At every moment the list of hits is the hits of the ciphers that are over,
\* each once, by cipher and offset: the order in which the jobs finish never
\* shows.  Only an answer that is full leaves hits out, and only later ones.
HitsExact == HitsInOrder /\ HitsSound /\ NoHitMissed

\* What the hunt functions take for granted and would panic without: an adapter
\* for the cipher (adapter, stream_adapter), the lengths that from_slice and
\* copy_from_slice require, a first block, an IV that covers a block.
Prepared(r, i) ==
  /\ r.ctLen > 0
  /\ IF IsStream(r, i)
     THEN /\ r.nonce = StreamNonceLen(r.ciphers[i])
          /\ r.tag \in {None, TagLen}
     ELSE \/ /\ r.mode = "block"
             /\ r.ctLen >= BlockLen[r.ciphers[i]]
             /\ r.fixedIv = None \/ r.fixedIv >= BlockLen[r.ciphers[i]]
          \/ /\ r.mode = "ctr" /\ r.ciphers[i] \in AesCiphers
             /\ r.nonce = CtrNonceLen
          \/ /\ r.mode = "gcm" /\ r.ciphers[i] \in AesCiphers
             /\ r.nonce = GcmNonceLen /\ r.tag \in {None, TagLen}

\* Whatever list of ciphers the one validation at the head of the call lets
\* through, each later hunt finds what it takes for granted: no panic.
HuntsPrepared == pc = "pass" => Prepared(req, ci)

-----------------------------------------------------------------------------
(* The contract. *)

Answer ==
  CASE pc = "ok"  -> [st |-> "ok", hits |-> hits, tried |-> tried]
    [] pc = "err" -> [st |-> "err"]
    [] OTHER      -> [st |-> "pending"]

Contract == INSTANCE ScanContract WITH answer <- Answer

\* Every call gives the answer that the contract determines from the request
\* alone, in one step and for good, for every schedule.
ImplementsContract == Contract!Spec

\* Every call returns.
Returns == <>(pc \in {"ok", "err"})

-----------------------------------------------------------------------------
(* What the comment on ScanConfig::max_hits says. *)

\* The hits known so far, those of the running jobs included.
KnownHits ==
  Len(hits) + Cardinality(UNION {{j.lo} \X DOMAIN j.found : j \in jobs})

\* "Stop after this many hits": no window passes the filter once max_hits hits
\* are known.
StopsAtLimit ==
  [][\A j \in jobs' \ jobs :
       j.st = "count" => req.maxHits = 0 \/ KnownHits < req.maxHits]_vars
=============================================================================
