----------------------------- MODULE ScanContract -----------------------------
(***************************************************************************)
(* What one call of `scan` promises, with no jobs, no shared counter and   *)
(* no order of evaluation: a request is pending until one step delivers    *)
(* the answer that the request determines.                                 *)
(***************************************************************************)
EXTENDS ScanInput, FiniteSets

VARIABLES req, answer

Pending == [st |-> "pending"]
Error   == [st |-> "err"]
Ok(hits, tried) == [st |-> "ok", hits |-> hits, tried |-> tried]

-----------------------------------------------------------------------------
\* The hits and the windows of the ciphers in I, as <<cipher index, offset>>.
WindowsOf(r, I) == UNION {{i} \X (0 .. Windows(r, i) - 1) : i \in I}

AllHits(r, I) == {w \in WindowsOf(r, I) : Matches(r, w[1], w[2])}

\* The loop gets to cipher i unless the earlier ones reach the limit.
Reaches(r, i) ==
  r.maxHits = 0 \/ Cardinality(AllHits(r, 1 .. i - 1)) < r.maxHits

Reached(r) == {i \in DOMAIN r.ciphers : Reaches(r, i)}

\* The call fails when its configuration is not accepted or a cipher that the
\* loop gets to rejects the ciphertext or the IV.
Fails(r) == ~Accepts(r) \/ \E i \in Reached(r) : Rejects(r, i)

-----------------------------------------------------------------------------
(* What the list of hits is. *)

At(h) == <<h.cipher, h.offset>>

Before(v, w) == v[1] < w[1] \/ (v[1] = w[1] /\ v[2] < w[2])

InOrder(hits) ==
  \A m, n \in DOMAIN hits : m < n => Before(At(hits[m]), At(hits[n]))

Sound(r, hits) ==
  \A n \in DOMAIN hits : At(hits[n]) \in AllHits(r, DOMAIN r.ciphers)

\* A hit that comes before one in the list is in the list.
PrefixClosed(r, hits) ==
  \A w \in AllHits(r, DOMAIN r.ciphers), n \in DOMAIN hits :
     Before(w, At(hits[n])) => \E m \in DOMAIN hits : At(hits[m]) = w

\* The list is as long as the limit allows.
AsLong(r, hits) ==
  \/ r.maxHits > 0 /\ Len(hits) = r.maxHits
  \/ /\ r.maxHits = 0 \/ Len(hits) < r.maxHits
     /\ \A w \in AllHits(r, DOMAIN r.ciphers) :
           \E n \in DOMAIN hits : At(hits[n]) = w

Answers(r, a) ==
  \/ a = Error /\ Fails(r)
  \/ /\ ~Fails(r)
     /\ a.st = "ok"
     /\ InOrder(a.hits)
     /\ Sound(r, a.hits)
     /\ PrefixClosed(r, a.hits)
     /\ AsLong(r, a.hits)
     /\ a.tried = Cardinality(WindowsOf(r, Reached(r)))

-----------------------------------------------------------------------------
Init == req \in Requests /\ answer = Pending

Deliver ==
  /\ answer = Pending
  /\ answer' # Pending
  /\ Answers(req, answer')
  /\ UNCHANGED req

Spec == Init /\ [][Deliver]_<<req, answer>>
=============================================================================
