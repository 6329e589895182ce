-------------------------- MODULE ScanEngineProofs --------------------------
(***************************************************************************)
(* Proofs about ScanEngine, for every set of requests and all key and      *)
(* block lengths: the invariants of a call, and that the loop with its     *)
(* threads implements the one step of ScanContract.                        *)
(***************************************************************************)
EXTENDS ScanEngine, FiniteSetTheorems, FunctionTheorems, TLAPS

-----------------------------------------------------------------------------
(* Lemmas about the operators. *)

\* A request has the shape the assumptions give it.
LEMMA RequestShape ==
  ASSUME NEW r \in Requests
  PROVE  /\ r.ciphers \in Seq(Ciphers)
         /\ r.maxHits \in Nat
         /\ r.dumpLen \in Nat
         /\ r.ctLen \in Nat
         /\ r.fixedIv \in Nat \cup {None}
         /\ \A i \in DOMAIN r.ciphers : r.ciphers[i] \in Ciphers
  BY RequestsAssumption

\* The number of windows of a pass is a natural number.
LEMMA WindowsNat ==
  ASSUME NEW r \in Requests, NEW i \in DOMAIN r.ciphers
  PROVE  Windows(r, i) \in Nat
  <1>1. KeyLen[r.ciphers[i]] \in Nat \ {0}
    BY RequestShape, LengthsAssumption
  <1>2. r.dumpLen \in Nat
    BY RequestShape
  <1> QED BY <1>1, <1>2 DEF Windows

\* The half of an interval of two or more windows is inside it.
LEMMA HalfInside ==
  ASSUME NEW lo \in Nat, NEW hi \in Nat, hi - lo >= 2
  PROVE  /\ lo + (hi - lo) \div 2 \in Nat
         /\ lo < lo + (hi - lo) \div 2
         /\ lo + (hi - lo) \div 2 < hi
  OBVIOUS

\* A job that passes window b keeps the list of its hits.
LEMMA ListsAppend ==
  ASSUME NEW r, NEW i, NEW a \in Nat, NEW b \in Nat, a <= b,
         NEW s \in Seq(Nat), Lists(r, i, a, b, s)
  PROVE  Lists(r, i, a, b + 1,
               IF Matches(r, i, b) THEN Append(s, b) ELSE s)
  <1>1. CASE Matches(r, i, b)
    <2> DEFINE t == Append(s, b)
    <2>1. /\ t \in Seq(Nat)
          /\ DOMAIN t = 1 .. Len(s) + 1
          /\ DOMAIN s = 1 .. Len(s)
          /\ \A n \in 1 .. Len(s) : t[n] = s[n] /\ s[n] \in Nat
          /\ t[Len(s) + 1] = b
          /\ Len(s) \in Nat
      OBVIOUS
    <2> HIDE DEF t
    <2>2. \A m, n \in DOMAIN t : m < n => t[m] < t[n]
      <3> SUFFICES ASSUME NEW m \in DOMAIN t, NEW n \in DOMAIN t, m < n
                   PROVE  t[m] < t[n]
        OBVIOUS
      <3>1. CASE n = Len(s) + 1
        BY <2>1, <3>1 DEF Lists
      <3>2. CASE n # Len(s) + 1
        <4>1. m \in DOMAIN s /\ n \in DOMAIN s
          BY SMTT(30), <2>1, <3>2
        <4>2. s[m] < s[n]
          BY <4>1 DEF Lists
        <4> QED BY <2>1, <4>1, <4>2
      <3> QED BY <3>1, <3>2
    <2>3. \A n \in DOMAIN t :
            a <= t[n] /\ t[n] < b + 1 /\ Matches(r, i, t[n])
      <3> SUFFICES ASSUME NEW n \in DOMAIN t
                   PROVE  a <= t[n] /\ t[n] < b + 1 /\ Matches(r, i, t[n])
        OBVIOUS
      <3>1. CASE n = Len(s) + 1
        BY <1>1, <2>1, <3>1
      <3>2. CASE n # Len(s) + 1
        <4>1. n \in DOMAIN s /\ t[n] = s[n] /\ s[n] \in Nat
          BY <2>1, <3>2
        <4> QED BY <4>1 DEF Lists
      <3> QED BY <3>1, <3>2
    <2>4. \A o \in a .. b + 1 - 1 :
            Matches(r, i, o) => \E n \in DOMAIN t : t[n] = o
      <3> SUFFICES ASSUME NEW o \in a .. b, Matches(r, i, o)
                   PROVE  \E n \in DOMAIN t : t[n] = o
        OBVIOUS
      <3>1. CASE o = b
        BY <2>1, <3>1
      <3>2. CASE o # b
        <4>1. o \in a .. b - 1
          BY <3>2
        <4>2. PICK n \in DOMAIN s : s[n] = o
          BY <4>1 DEF Lists
        <4> QED BY <2>1, <4>2
      <3> QED BY <3>1, <3>2
    <2>5. Lists(r, i, a, b + 1, t)
      BY <2>2, <2>3, <2>4 DEF Lists
    <2> QED BY <1>1, <2>5 DEF t
  <1>2. CASE ~Matches(r, i, b)
    <2>1. \A n \in DOMAIN s : s[n] \in Nat
      OBVIOUS
    <2>2. \A o \in a .. b + 1 - 1 : Matches(r, i, o) => o \in a .. b - 1
      BY <1>2
    <2>3. Lists(r, i, a, b + 1, s)
      BY <2>1, <2>2 DEF Lists
    <2> QED BY <1>2, <2>3
  <1> QED BY <1>1, <1>2

\* What concatenation does.
LEMMA ConcatFacts ==
  ASSUME NEW S, NEW s \in Seq(S), NEW t \in Seq(S)
  PROVE  /\ s \o t \in Seq(S)
         /\ Len(s \o t) = Len(s) + Len(t)
         /\ DOMAIN (s \o t) = 1 .. Len(s) + Len(t)
         /\ \A n \in 1 .. Len(s) : (s \o t)[n] = s[n]
         /\ \A n \in 1 .. Len(t) : (s \o t)[Len(s) + n] = t[n]
  <1>1. s \o t \in Seq(S)
    OBVIOUS
  <1>2. Len(s \o t) = Len(s) + Len(t)
    OBVIOUS
  <1>3. DOMAIN (s \o t) = 1 .. Len(s) + Len(t)
    OBVIOUS
  <1>4. \A n \in 1 .. Len(s) : (s \o t)[n] = s[n]
    OBVIOUS
  <1>5. \A n \in 1 .. Len(t) : (s \o t)[Len(s) + n] = t[n]
    OBVIOUS
  <1> QED BY <1>1, <1>2, <1>3, <1>4, <1>5

\* The lists of two neighbours, the left one first, are the list of both.
LEMMA ListsConcat ==
  ASSUME NEW r, NEW i, NEW a \in Nat, NEW b \in Nat, NEW c \in Nat,
         a <= b, b <= c,
         NEW s \in Seq(Nat), Lists(r, i, a, b, s),
         NEW t \in Seq(Nat), Lists(r, i, b, c, t)
  PROVE  Lists(r, i, a, c, s \o t)
  <1> DEFINE u == s \o t
  <1>1. /\ u \in Seq(Nat)
        /\ DOMAIN u = 1 .. Len(s) + Len(t)
        /\ DOMAIN s = 1 .. Len(s) /\ DOMAIN t = 1 .. Len(t)
        /\ Len(s) \in Nat /\ Len(t) \in Nat
        /\ \A n \in DOMAIN s : u[n] = s[n] /\ s[n] \in Nat
        /\ \A n \in DOMAIN t : u[Len(s) + n] = t[n] /\ t[n] \in Nat
    OBVIOUS
  <1> HIDE DEF u
  <1>2. \A n \in DOMAIN u :
          \/ n \in DOMAIN s /\ u[n] = s[n]
          \/ n - Len(s) \in DOMAIN t /\ u[n] = t[n - Len(s)]
    <2> SUFFICES ASSUME NEW n \in DOMAIN u, n \notin DOMAIN s
                 PROVE  n - Len(s) \in DOMAIN t /\ u[n] = t[n - Len(s)]
      BY <1>1
    <2>1. n - Len(s) \in DOMAIN t /\ n = Len(s) + (n - Len(s))
      BY <1>1
    <2> QED BY <1>1, <2>1
  <1>3. \A m, n \in DOMAIN u : m < n => u[m] < u[n]
    <2> SUFFICES ASSUME NEW m \in DOMAIN u, NEW n \in DOMAIN u, m < n
                 PROVE  u[m] < u[n]
      OBVIOUS
    <2>1. CASE n \in DOMAIN s
      <3>1. m \in DOMAIN s
        BY <1>1, <2>1
      <3> QED BY <1>1, <2>1, <3>1 DEF Lists
    <2>2. CASE n \notin DOMAIN s /\ m \in DOMAIN s
      <3>1. n - Len(s) \in DOMAIN t /\ u[n] = t[n - Len(s)]
        BY <1>2, <2>2
      <3>2. u[m] = s[m] /\ s[m] \in Nat /\ s[m] < b
        BY <1>1, <2>2 DEF Lists
      <3>3. u[n] \in Nat /\ b <= u[n]
        BY <1>1, <3>1 DEF Lists
      <3> QED BY <3>2, <3>3
    <2>3. CASE n \notin DOMAIN s /\ m \notin DOMAIN s
      <3>1. n - Len(s) \in DOMAIN t /\ u[n] = t[n - Len(s)]
        BY <1>2, <2>3
      <3>2. m - Len(s) \in DOMAIN t /\ u[m] = t[m - Len(s)]
        BY <1>2, <2>3
      <3>3. m - Len(s) < n - Len(s)
        BY <1>1
      <3> QED BY <3>1, <3>2, <3>3 DEF Lists
    <2> QED BY <2>1, <2>2, <2>3
  <1>4. \A n \in DOMAIN u : a <= u[n] /\ u[n] < c /\ Matches(r, i, u[n])
    <2> SUFFICES ASSUME NEW n \in DOMAIN u
                 PROVE  a <= u[n] /\ u[n] < c /\ Matches(r, i, u[n])
      OBVIOUS
    <2>1. CASE n \in DOMAIN s /\ u[n] = s[n]
      <3>1. s[n] \in Nat /\ a <= s[n] /\ s[n] < b /\ Matches(r, i, s[n])
        BY <1>1, <2>1 DEF Lists
      <3> QED BY <2>1, <3>1
    <2>2. CASE n - Len(s) \in DOMAIN t /\ u[n] = t[n - Len(s)]
      <3> DEFINE k == n - Len(s)
      <3>1. t[k] \in Nat /\ b <= t[k] /\ t[k] < c /\ Matches(r, i, t[k])
        BY <1>1, <2>2 DEF Lists
      <3> QED BY <2>2, <3>1
    <2> QED BY <1>2, <2>1, <2>2
  <1>5. \A o \in a .. c - 1 :
          Matches(r, i, o) => \E n \in DOMAIN u : u[n] = o
    <2> SUFFICES ASSUME NEW o \in a .. c - 1, Matches(r, i, o)
                 PROVE  \E n \in DOMAIN u : u[n] = o
      OBVIOUS
    <2>1. CASE o < b
      <3>1. PICK n \in DOMAIN s : s[n] = o
        BY <2>1 DEF Lists
      <3> QED BY <1>1, <3>1
    <2>2. CASE b <= o
      <3>1. PICK n \in DOMAIN t : t[n] = o
        BY <2>2 DEF Lists
      <3>2. u[Len(s) + n] = o
        BY <1>1, <3>1
      <3>3. n \in 1 .. Len(t)
        BY <1>1, <3>1
      <3>4. Len(s) + n \in 1 .. Len(s) + Len(t)
        BY <3>3, Len(s) \in Nat, Len(t) \in Nat
      <3>5. Len(s) + n \in DOMAIN u
        BY <1>1, <3>4
      <3> QED BY <3>2, <3>5
    <2> QED BY <2>1, <2>2
  <1> QED BY <1>3, <1>4, <1>5 DEF Lists, u

-----------------------------------------------------------------------------
(* The invariant of the passes. *)

\* Only the pass of a cipher has jobs, and no job is empty unless the pass is.
JobsNonempty ==
  pc = "pass" =>
    /\ ci \in DOMAIN req.ciphers
    /\ \A j \in jobs : j.lo < j.hi \/ jobs = {j}

\* The inductive invariant of the passes.  JobsExact is not inductive by itself:
\* a raised `stop` would let a window pass untried, and joining two jobs is
\* right only when no third one lies between them (JobsTile, JobsNonempty).
PassInv ==
  /\ TypeOK
  /\ stop = FALSE
  /\ JobsNonempty
  /\ JobsTile
  /\ JobsExact

\* A step that replaces one job by a good job over the same windows keeps the
\* invariant of the passes.
LEMMA ReplaceOne ==
  ASSUME PassInv, pc = "pass", NEW j \in jobs, NEW k \in JobType,
         k.lo = j.lo, k.hi = j.hi, k.lo <= k.next, k.next <= k.hi,
         JobExact(req, ci, k),
         jobs' = (jobs \ {j}) \cup {k},
         tried' \in Nat, UNCHANGED <<req, pc, ci, stop, hits>>
  PROVE  PassInv'
  <1> USE DEF PassInv
  <1>1. TypeOK'
    BY DEF TypeOK
  <1>2. JobsNonempty'
    BY DEF JobsNonempty
  <1>3. JobsTile'
    <2> SUFFICES /\ \A l, m \in jobs' : l # m => l.hi <= m.lo \/ m.hi <= l.lo
                 /\ \A o \in 0 .. Windows(req, ci) - 1 :
                      \E l \in jobs' : l.lo <= o /\ o < l.hi
      BY DEF JobsTile
    <2>1. /\ \A l, m \in jobs : l # m => l.hi <= m.lo \/ m.hi <= l.lo
          /\ \A o \in 0 .. Windows(req, ci) - 1 :
               \E l \in jobs : l.lo <= o /\ o < l.hi
      BY DEF JobsTile
    <2> QED BY <2>1
  <1>4. JobsExact'
    BY DEF JobsExact
  <1> QED BY <1>1, <1>2, <1>3, <1>4

\* Halving a queued job keeps the invariant of the passes.
LEMMA SplitKeepsPassInv ==
  ASSUME PassInv, NEW j \in jobs, Split(j)
  PROVE  PassInv'
  <1> USE DEF PassInv
  <1> DEFINE mid == j.lo + (j.hi - j.lo) \div 2
             left == Job(j.lo, mid)
             right == Job(mid, j.hi)
  <1>1. /\ pc = "pass" /\ j.st = "queued" /\ j.hi - j.lo >= 2
        /\ jobs' = (jobs \ {j}) \cup {left, right}
        /\ UNCHANGED <<req, pc, ci, hits, tried, stop>>
    BY DEF Split, Passing, Replace
  <1>2. j \in JobType
    BY DEF TypeOK
  <1>3. mid \in Nat /\ j.lo < mid /\ mid < j.hi
    BY <1>1, <1>2, HalfInside DEF JobType
  <1>4. j.next = j.lo /\ j.hi <= Windows(req, ci) /\ JobExact(req, ci, j)
    BY <1>1 DEF JobsExact, JobExact
  <1> HIDE DEF mid
  <1>5. /\ left \in JobType /\ left.lo = j.lo /\ left.hi = mid
        /\ left.next = left.lo /\ left.st = "queued" /\ left.found = <<>>
        /\ right \in JobType /\ right.lo = mid /\ right.hi = j.hi
        /\ right.next = right.lo /\ right.st = "queued" /\ right.found = <<>>
    BY <1>2, <1>3 DEF Job, JobType
  <1> HIDE DEF left, right
  <1>6. TypeOK'
    BY <1>1, <1>2, <1>3, <1>5 DEF TypeOK, JobType
  <1>7. JobsNonempty'
    BY <1>1, <1>3, <1>5 DEF JobsNonempty
  <1>8. JobsTile'
    <2>1. /\ \A l, m \in jobs : l # m => l.hi <= m.lo \/ m.hi <= l.lo
          /\ \A o \in 0 .. Windows(req, ci) - 1 :
               \E l \in jobs : l.lo <= o /\ o < l.hi
      BY <1>1 DEF JobsTile
    <2>2. \A l \in jobs : l \in JobType
      BY DEF TypeOK
    <2>3. \A l, m \in jobs' : l # m => l.hi <= m.lo \/ m.hi <= l.lo
      <3> SUFFICES ASSUME NEW l \in jobs', NEW m \in jobs', l # m
                   PROVE  l.hi <= m.lo \/ m.hi <= l.lo
        OBVIOUS
      <3>1. CASE l \in jobs /\ m \in jobs
        BY <2>1, <3>1
      <3>2. CASE l \in {left, right} /\ m \in {left, right}
        BY <1>3, <1>5, <3>2
      <3>3. CASE l \in {left, right} /\ m \in jobs \ {j}
        <4>1. j.hi <= m.lo \/ m.hi <= j.lo
          BY <2>1, <3>3
        <4> QED BY <1>2, <1>3, <1>5, <2>2, <3>3, <4>1 DEF JobType
      <3>4. CASE m \in {left, right} /\ l \in jobs \ {j}
        <4>1. j.hi <= l.lo \/ l.hi <= j.lo
          BY <2>1, <3>4
        <4> QED BY <1>2, <1>3, <1>5, <2>2, <3>4, <4>1 DEF JobType
      <3> QED BY <1>1, <3>1, <3>2, <3>3, <3>4
    <2>4. ASSUME NEW o \in 0 .. Windows(req, ci) - 1
          PROVE  \E l \in jobs' : l.lo <= o /\ o < l.hi
      <3>1. o \in Int
        OBVIOUS
      <3>2. PICK l \in jobs : l.lo <= o /\ o < l.hi
        BY <2>1
      <3>3. CASE l = j
        BY <1>1, <1>3, <1>5, <3>1, <3>2, <3>3
      <3>4. CASE l # j
        BY <1>1, <3>2, <3>4
      <3> QED BY <3>3, <3>4
    <2> QED BY <1>1, <2>3, <2>4 DEF JobsTile, Windows
  <1>9. JobsExact'
    <2>1. JobExact(req, ci, left)
      <3>1. mid <= Windows(req, ci)
        BY <1>1, <1>2, <1>3, <1>4, WindowsNat DEF TypeOK, JobsNonempty, JobType
      <3>2. Lists(req, ci, j.lo, j.lo, <<>>)
        BY <1>2 DEF Lists, JobType
      <3> QED BY <1>5, <3>1, <3>2 DEF JobExact
    <2>2. JobExact(req, ci, right)
      <3>1. Lists(req, ci, mid, mid, <<>>)
        BY <1>3 DEF Lists
      <3> QED BY <1>4, <1>5, <3>1 DEF JobExact
    <2> QED BY <1>1, <2>1, <2>2 DEF JobsExact
  <1> QED BY <1>1, <1>6, <1>7, <1>8, <1>9

\* Joining two finished neighbours keeps the invariant of the passes.
LEMMA JoinKeepsPassInv ==
  ASSUME PassInv, NEW j \in jobs, NEW k \in jobs, Join(j, k)
  PROVE  PassInv'
  <1> USE DEF PassInv
  <1> DEFINE u == [j EXCEPT !.hi = k.hi, !.next = k.hi, !.found = @ \o k.found]
  <1>1. /\ pc = "pass" /\ j # k
        /\ j.st = "done" /\ k.st = "done" /\ j.hi = k.lo
        /\ jobs' = (jobs \ {j, k}) \cup {u}
        /\ UNCHANGED <<req, pc, ci, hits, tried, stop>>
    BY DEF Join, Passing, Replace
  <1>2. j \in JobType /\ k \in JobType /\ j.lo <= j.hi /\ k.lo <= k.hi
    BY DEF TypeOK, JobType
  <1>3. /\ JobExact(req, ci, j) /\ JobExact(req, ci, k)
        /\ j.next = j.hi /\ k.next = k.hi
    BY <1>1 DEF JobsExact, JobExact
  <1>4. /\ u \in JobType /\ u.lo = j.lo /\ u.hi = k.hi /\ u.next = k.hi
        /\ u.st = "done" /\ u.found = j.found \o k.found
    <2>1. j.found \o k.found \in Seq(Nat)
      BY <1>2 DEF JobType
    <2> QED BY <1>1, <1>2, <2>1 DEF JobType
  <1> HIDE DEF u
  <1>5. TypeOK'
    BY <1>1, <1>2, <1>4 DEF TypeOK, JobType
  <1>6. \A l \in jobs : l \in JobType /\ l.lo < l.hi
    BY <1>1 DEF JobsNonempty, TypeOK
  <1>7. JobsNonempty'
    BY <1>1, <1>2, <1>4, <1>6 DEF JobsNonempty, JobType
  <1>8. JobsTile'
    <2>1. /\ \A l, m \in jobs : l # m => l.hi <= m.lo \/ m.hi <= l.lo
          /\ \A o \in 0 .. Windows(req, ci) - 1 :
               \E l \in jobs : l.lo <= o /\ o < l.hi
      BY <1>1 DEF JobsTile
    <2>2. ASSUME NEW l \in jobs \ {j, k}
          PROVE  l.hi <= u.lo \/ u.hi <= l.lo
      <3>1. l.hi <= j.lo \/ j.hi <= l.lo
        BY <2>1
      <3>2. l.hi <= k.lo \/ k.hi <= l.lo
        BY <2>1
      <3> QED BY <1>1, <1>2, <1>4, <1>6, <3>1, <3>2 DEF JobType
    <2>3. \A l, m \in jobs' : l # m => l.hi <= m.lo \/ m.hi <= l.lo
      BY <1>1, <2>1, <2>2
    <2>4. ASSUME NEW o \in 0 .. Windows(req, ci) - 1
          PROVE  \E l \in jobs' : l.lo <= o /\ o < l.hi
      <3>1. o \in Int
        OBVIOUS
      <3>2. PICK l \in jobs : l.lo <= o /\ o < l.hi
        BY <2>1
      <3>3. CASE l \in {j, k}
        <4>1. u.lo <= o /\ o < u.hi
          BY <1>1, <1>2, <1>4, <1>6, <3>1, <3>2, <3>3 DEF JobType
        <4> QED BY <1>1, <4>1
      <3>4. CASE l \notin {j, k}
        BY <1>1, <3>2, <3>4
      <3> QED BY <3>3, <3>4
    <2> QED BY <1>1, <2>3, <2>4 DEF JobsTile, Windows
  <1>9. JobsExact'
    <2>1. Lists(req, ci, j.lo, k.hi, j.found \o k.found)
      BY <1>1, <1>2, <1>3, ListsConcat DEF JobExact, JobType
    <2>2. JobExact(req, ci, u)
      BY <1>3, <1>4, <2>1 DEF JobExact
    <2> QED BY <1>1, <2>2 DEF JobsExact
  <1> QED BY <1>1, <1>5, <1>7, <1>8, <1>9

\* What `collect` returns: the last job left covers the whole pass.
LEMMA LastJob ==
  ASSUME PassInv, pc = "pass", NEW j \in jobs, jobs = {j}, j.st = "done"
  PROVE  /\ j.lo = 0
         /\ j.hi = Windows(req, ci)
         /\ j.found \in Seq(Nat)
         /\ Lists(req, ci, 0, Windows(req, ci), j.found)
  <1>1. /\ j \in JobType /\ j.lo <= j.hi
        /\ req \in Requests /\ ci \in DOMAIN req.ciphers
    BY DEF PassInv, TypeOK, JobsNonempty, JobType
  <1>2. Windows(req, ci) \in Nat
    BY <1>1, WindowsNat
  <1>3. JobExact(req, ci, j)
    BY DEF PassInv, JobsExact
  <1>4. \A o \in 0 .. Windows(req, ci) - 1 : j.lo <= o /\ o < j.hi
    BY DEF PassInv, JobsTile
  <1>5. j.lo \in Nat /\ j.hi \in Nat /\ j.hi <= Windows(req, ci)
    BY <1>1, <1>3 DEF JobExact, JobType
  <1>6. CASE Windows(req, ci) = 0
    BY <1>1, <1>3, <1>5, <1>6 DEF JobExact, JobType
  <1>7. CASE Windows(req, ci) > 0
    <2>1. j.lo <= 0 /\ Windows(req, ci) - 1 < j.hi
      BY <1>2, <1>4, <1>7
    <2>2. j.lo = 0 /\ j.hi = Windows(req, ci)
      BY <1>2, <1>5, <2>1
    <2> QED BY <1>1, <1>3, <2>2 DEF JobExact, JobType
  <1> QED BY <1>2, <1>6, <1>7

\* The hits of a pass, and the list cut at the limit, are lists of hits.
LEMMA HitsTyped ==
  ASSUME NEW i \in Nat \ {0}, NEW found \in Seq(Nat), NEW s \in Seq(HitType),
         NEW n \in Nat
  PROVE  /\ HitsOf(i, found) \in Seq(HitType)
         /\ s \o HitsOf(i, found) \in Seq(HitType)
         /\ n <= Len(s) => SubSeq(s, 1, n) \in Seq(HitType)
  <1>1. HitsOf(i, found) \in Seq(HitType)
    BY DEF HitsOf, HitType
  <1>2. s \o HitsOf(i, found) \in Seq(HitType)
    BY <1>1
  <1>3. n <= Len(s) => SubSeq(s, 1, n) \in Seq(HitType)
    OBVIOUS
  <1> QED BY <1>1, <1>2, <1>3

\* The end of a pass keeps the invariant.
LEMMA CollectKeepsPassInv ==
  ASSUME PassInv, NEW j \in jobs, Collect(j)
  PROVE  PassInv'
  <1> DEFINE all == hits \o HitsOf(ci, j.found)
  <1>1. /\ pc = "pass" /\ pc' \in {"ok", "cipher"} /\ ci' = ci + 1
        /\ jobs' = {} /\ UNCHANGED <<req, tried, stop>>
        /\ hits' = IF Capped(all) THEN SubSeq(all, 1, req.maxHits) ELSE all
    BY DEF Collect
  <1>2. /\ req \in Requests /\ ci \in Nat \ {0} /\ j.found \in Seq(Nat)
        /\ hits \in Seq(HitType) /\ tried \in Nat /\ stop \in BOOLEAN
    BY DEF PassInv, TypeOK, JobType
  <1>3. all \in Seq(HitType)
    BY <1>2, HitsTyped
  <1> HIDE DEF all
  <1>4. hits' \in Seq(HitType)
    <2>1. CASE Capped(all)
      <3>1. req.maxHits \in Nat /\ req.maxHits <= Len(all)
        BY <1>2, <2>1, RequestShape DEF Capped
      <3> QED BY <1>1, <1>2, <1>3, <2>1, <3>1, HitsTyped
    <2> QED BY <1>1, <1>3, <2>1
  <1>5. TypeOK'
    BY <1>1, <1>2, <1>4 DEF TypeOK
  <1> QED BY <1>1, <1>5 DEF PassInv, JobsNonempty, JobsTile, JobsExact

\* The first state satisfies the invariant of the passes.
LEMMA InitPassInv == Init => PassInv
  <1> SUFFICES ASSUME Init PROVE PassInv
    OBVIOUS
  <1>1. hits \in Seq(HitType)
    BY DEF Init
  <1>2. /\ req \in Requests /\ pc = "validate" /\ ci = 1
        /\ jobs = {} /\ tried = 0 /\ stop = FALSE
    BY DEF Init
  <1>3. TypeOK
    <2>1. ci \in Nat \ {0} /\ tried \in Nat
      BY <1>2
    <2>2. stop \in BOOLEAN
      BY <1>2
    <2>3. jobs \in SUBSET JobType
      BY <1>2
    <2>4. pc \in {"validate", "cipher", "pass", "ok", "err"}
      BY <1>2
    <2>5. \A j \in jobs : j.lo <= j.next /\ j.next <= j.hi
      BY <1>2
    <2> QED BY <1>1, <1>2, <2>1, <2>2, <2>3, <2>4, <2>5 DEF TypeOK
  <1> QED BY <1>3 DEF Init, PassInv, JobsNonempty, JobsTile, JobsExact

\* Every step keeps the invariant of the passes.
LEMMA NextPassInv == PassInv /\ [Next]_vars => PassInv'
  <1> SUFFICES ASSUME PassInv, [Next]_vars
               PROVE  PassInv'
    OBVIOUS
  <1>1. CASE Validate
    BY <1>1 DEF Validate, PassInv, TypeOK, JobsNonempty, JobsTile, JobsExact
  <1>2. CASE Skip
    BY <1>2 DEF Skip, AtCipher, PassInv, TypeOK, JobsNonempty, JobsTile, JobsExact
  <1>3. CASE Reject
    BY <1>3 DEF Reject, AtCipher, PassInv, TypeOK, JobsNonempty, JobsTile, JobsExact
  <1>4. CASE Begin
    <2> DEFINE j == Job(0, Windows(req, ci))
    <2>1. /\ pc' = "pass" /\ jobs' = {j} /\ ci \in DOMAIN req.ciphers
          /\ UNCHANGED <<req, ci, tried, stop, hits>>
      BY <1>4 DEF Begin, AtCipher
    <2>2. req \in Requests
      BY DEF PassInv, TypeOK
    <2>3. Windows(req, ci) \in Nat /\ Windows(req, ci)' = Windows(req, ci)
      BY <2>1, <2>2, WindowsNat DEF Windows
    <2>4. /\ j \in JobType /\ j.lo = 0 /\ j.next = 0 /\ j.hi = Windows(req, ci)
          /\ j.st = "queued" /\ j.found = <<>>
      BY <2>3 DEF Job, JobType
    <2> HIDE DEF j
    <2>5. TypeOK'
      BY <2>1, <2>3, <2>4 DEF PassInv, TypeOK
    <2>6. JobsNonempty' /\ JobsTile'
      BY <2>1, <2>3, <2>4 DEF JobsNonempty, JobsTile
    <2>7. JobExact(req, ci, j)
      BY <2>3, <2>4 DEF JobExact, Lists
    <2>8. JobsExact'
      BY <2>1, <2>7 DEF JobsExact
    <2> QED BY <2>1, <2>5, <2>6, <2>8 DEF PassInv
  <1>5. ASSUME NEW j \in jobs, Start(j)
        PROVE  PassInv'
    <2> DEFINE k == [j EXCEPT !.st = StatusAt(j, j.lo)]
    <2>1. /\ pc = "pass" /\ j.st = "queued" /\ jobs' = (jobs \ {j}) \cup {k}
          /\ UNCHANGED <<req, pc, ci, hits, stop, tried>>
      BY <1>5 DEF Start, Passing, Replace
    <2>2. j \in JobType /\ j.lo <= j.hi /\ JobExact(req, ci, j) /\ tried \in Nat
      BY <2>1 DEF PassInv, TypeOK, JobsExact, JobType
    <2>3. /\ k \in JobType /\ k.lo = j.lo /\ k.hi = j.hi /\ k.next = j.next
          /\ k.found = j.found /\ k.st = StatusAt(j, j.lo)
      BY <2>2 DEF JobType, StatusAt
    <2> HIDE DEF k
    <2>4. JobExact(req, ci, k) /\ k.lo <= k.next /\ k.next <= k.hi
      BY <2>1, <2>2, <2>3 DEF JobExact, StatusAt, JobType
    <2> QED BY <2>1, <2>2, <2>3, <2>4, ReplaceOne
  <1>6. ASSUME NEW j \in jobs, LoadStop(j)
        PROVE  PassInv'
    <2> DEFINE k == [j EXCEPT !.st = "count"]
    <2>1. /\ pc = "pass" /\ j.st = "filter" /\ jobs' = (jobs \ {j}) \cup {k}
          /\ UNCHANGED <<req, pc, ci, hits, stop, tried>>
      BY <1>6 DEF LoadStop, Passing, Replace, PassInv
    <2>2. /\ j \in JobType /\ j.lo <= j.next /\ j.next <= j.hi
          /\ JobExact(req, ci, j) /\ tried \in Nat
      BY <2>1 DEF PassInv, TypeOK, JobsExact
    <2>3. /\ k \in JobType /\ k.lo = j.lo /\ k.hi = j.hi /\ k.next = j.next
          /\ k.found = j.found /\ k.st = "count"
      BY <2>2 DEF JobType
    <2> HIDE DEF k
    <2>4. JobExact(req, ci, k)
      BY <2>1, <2>2, <2>3 DEF JobExact
    <2> QED BY <2>1, <2>2, <2>3, <2>4, ReplaceOne
  <1>7. ASSUME NEW j \in jobs, Count(j)
        PROVE  PassInv'
    <2> DEFINE k == [j EXCEPT !.st = "verify"]
    <2>1. /\ pc = "pass" /\ j.st = "count" /\ jobs' = (jobs \ {j}) \cup {k}
          /\ tried' = tried + 1
          /\ UNCHANGED <<req, pc, ci, hits, stop>>
      BY <1>7 DEF Count, Passing, Replace
    <2>2. /\ j \in JobType /\ j.lo <= j.next /\ j.next <= j.hi
          /\ JobExact(req, ci, j) /\ tried' \in Nat
      BY <2>1 DEF PassInv, TypeOK, JobsExact
    <2>3. /\ k \in JobType /\ k.lo = j.lo /\ k.hi = j.hi /\ k.next = j.next
          /\ k.found = j.found /\ k.st = "verify"
      BY <2>2 DEF JobType
    <2> HIDE DEF k
    <2>4. JobExact(req, ci, k)
      BY <2>1, <2>2, <2>3 DEF JobExact
    <2> QED BY <2>1, <2>2, <2>3, <2>4, ReplaceOne
  <1>8. ASSUME NEW j \in jobs, Verify(j)
        PROVE  PassInv'
    <2> DEFINE s == IF Matches(req, ci, j.next) THEN Append(j.found, j.next)
                                                ELSE j.found
               k == Advance(j, s)
    <2>1. /\ pc = "pass" /\ j.st = "verify" /\ jobs' = (jobs \ {j}) \cup {k}
          /\ UNCHANGED <<req, pc, ci, hits, stop, tried>>
      BY <1>8 DEF Verify, Passing, Replace
    <2>2. /\ j \in JobType /\ j.lo <= j.next /\ j.next <= j.hi
          /\ JobExact(req, ci, j) /\ tried \in Nat
      BY <2>1 DEF PassInv, TypeOK, JobsExact
    <2>3. /\ j.lo \in Nat /\ j.next \in Nat /\ j.hi \in Nat /\ j.next < j.hi
          /\ j.found \in Seq(Nat) /\ s \in Seq(Nat)
      BY <2>1, <2>2 DEF JobExact, JobType
    <2>4. Lists(req, ci, j.lo, j.next + 1, s)
      BY <2>2, <2>3, ListsAppend DEF JobExact
    <2> HIDE DEF s
    <2>5. /\ k \in JobType /\ k.lo = j.lo /\ k.hi = j.hi
          /\ k.next = j.next + 1 /\ k.found = s
          /\ k.st = StatusAt(j, j.next + 1)
      <3>1. StatusAt(j, j.next + 1) \in {"filter", "done"}
        BY DEF StatusAt
      <3> QED BY <2>3, <3>1 DEF Advance, JobType
    <2> HIDE DEF k
    <2>6. JobExact(req, ci, k) /\ k.lo <= k.next /\ k.next <= k.hi
      BY <2>2, <2>3, <2>4, <2>5 DEF JobExact, StatusAt
    <2> QED BY <2>1, <2>2, <2>5, <2>6, ReplaceOne
  <1>9. CASE PassStep
    BY <1>5, <1>6, <1>7, <1>8, <1>9, SplitKeepsPassInv, JoinKeepsPassInv,
       CollectKeepsPassInv DEF PassStep
  <1>10. CASE Return
    BY <1>10 DEF Return, PassInv, TypeOK, JobsNonempty, JobsTile, JobsExact
  <1>11. CASE Done
    BY <1>11 DEF Done, vars, PassInv, TypeOK, JobsNonempty, JobsTile, JobsExact,
                 Windows
  <1>12. CASE UNCHANGED vars
    BY <1>12 DEF vars, PassInv, TypeOK, JobsNonempty, JobsTile, JobsExact,
                 Windows
  <1> QED BY <1>1, <1>2, <1>3, <1>4, <1>9, <1>10, <1>11, <1>12 DEF Next

\* In every execution of `scan`, for every request, the jobs of a pass always
\* tile the windows, each holds exactly its hits in order, and `stop` is never
\* raised.
THEOREM PassInvariant == Spec => []PassInv
  BY InitPassInv, NextPassInv, PTL DEF Spec

\* Every variable keeps its type, for every request.
THEOREM TypeCorrect == Spec => []TypeOK
  <1>1. PassInv => TypeOK
    BY DEF PassInv
  <1> QED BY <1>1, PassInvariant, PTL

\* However a pass is split, no key is lost and none is tried twice.
THEOREM JobsTileAlways == Spec => []JobsTile
  <1>1. PassInv => JobsTile
    BY DEF PassInv
  <1> QED BY <1>1, PassInvariant, PTL

\* However a pass is split and joined, each job lists exactly its hits.
THEOREM JobsExactAlways == Spec => []JobsExact
  <1>1. PassInv => JobsExact
    BY DEF PassInv
  <1> QED BY <1>1, PassInvariant, PTL

-----------------------------------------------------------------------------
(* The list of hits. *)

\* The inductive invariant of the list of hits: it grows by what `collect`
\* returns (PassInv), from an empty list.
HitsInv ==
  /\ PassInv
  /\ pc = "validate" => ci = 1 /\ hits = <<>>
  /\ HitsExact

\* The hits of a pass, as records.
LEMMA HitsOfPass ==
  ASSUME NEW i, NEW found \in Seq(Nat)
  PROVE  /\ DOMAIN HitsOf(i, found) = 1 .. Len(found)
         /\ Len(HitsOf(i, found)) = Len(found)
         /\ \A n \in 1 .. Len(found) :
              HitsOf(i, found)[n] = [cipher |-> i, offset |-> found[n]]
  BY DEF HitsOf

\* The end of a pass keeps the list of hits exact.
LEMMA CollectKeepsHits ==
  ASSUME HitsInv, NEW j \in jobs, Collect(j)
  PROVE  HitsExact'
  <1> DEFINE new == HitsOf(ci, j.found)
             all == hits \o new
             p == Len(hits)
             q == Len(j.found)
  <1>1. /\ pc = "pass" /\ ci' = ci + 1 /\ jobs = {j} /\ j.st = "done"
        /\ req' = req
        /\ pc' = IF Capped(all) THEN "ok" ELSE "cipher"
        /\ hits' = IF Capped(all) THEN SubSeq(all, 1, req.maxHits) ELSE all
    BY DEF Collect
  <1>2. /\ req \in Requests /\ ci \in DOMAIN req.ciphers /\ ci \in Nat \ {0}
        /\ hits \in Seq(HitType)
    BY <1>1 DEF HitsInv, PassInv, TypeOK, JobsNonempty
  <1>3. /\ j.found \in Seq(Nat)
        /\ Lists(req, ci, 0, Windows(req, ci), j.found)
    BY <1>1, LastJob DEF HitsInv
  <1>4. /\ new \in Seq(HitType) /\ DOMAIN new = 1 .. q /\ Len(new) = q
        /\ \A n \in 1 .. q : new[n] = [cipher |-> ci, offset |-> j.found[n]]
    BY <1>2, <1>3, HitsTyped, HitsOfPass
  <1> HIDE DEF new
  <1>5. p \in Nat /\ q \in Nat
    BY <1>2, <1>3
  <1>6. /\ all \in Seq(HitType) /\ Len(all) = p + q /\ DOMAIN all = 1 .. p + q
        /\ \A n \in 1 .. p : all[n] = hits[n]
        /\ \A n \in 1 .. q : all[p + n] = new[n]
    <2>1. hits \in Seq(HitType) /\ new \in Seq(HitType)
      BY <1>2, <1>4
    <2>2. /\ all \in Seq(HitType)
          /\ Len(all) = Len(hits) + Len(new)
          /\ DOMAIN all = 1 .. Len(hits) + Len(new)
          /\ \A n \in 1 .. Len(hits) : all[n] = hits[n]
          /\ \A n \in 1 .. Len(new) : all[Len(hits) + n] = new[n]
      BY <2>1, ConcatFacts
    <2> QED BY <1>4, <2>2
  <1>7. /\ DOMAIN hits = 1 .. p /\ DOMAIN j.found = 1 .. q
        /\ \A n \in 1 .. p : hits[n] \in HitType
        /\ \A n \in 1 .. q : j.found[n] \in Nat
    BY <1>2, <1>3
  <1>8. ASSUME NEW n \in 1 .. p + q
        PROVE  \/ n \in 1 .. p /\ all[n] = hits[n]
               \/ /\ n - p \in 1 .. q
                  /\ all[n] = [cipher |-> ci, offset |-> j.found[n - p]]
    <2>1. CASE n \in 1 .. p
      BY <1>6, <2>1
    <2>2. CASE n \notin 1 .. p
      <3>1. n - p \in 1 .. q /\ p + (n - p) = n
        BY <1>5, <2>2
      <3>2. all[p + (n - p)] = new[n - p]
        BY <1>6, <3>1
      <3> QED BY <1>4, <3>1, <3>2
    <2> QED BY <2>1, <2>2
  <1> HIDE DEF all, p, q
  <1>9. \A m, n \in 1 .. p + q : m < n => Precedes(all[m], all[n])
    <2> SUFFICES ASSUME NEW m \in 1 .. p + q, NEW n \in 1 .. p + q, m < n
                 PROVE  Precedes(all[m], all[n])
      OBVIOUS
    <2>1. CASE n \in 1 .. p
      <3>1. m \in 1 .. p
        BY <1>5, <2>1
      <3>2. Precedes(hits[m], hits[n])
        BY <1>7, <2>1, <3>1 DEF HitsInv, HitsExact, HitsInOrder
      <3> QED BY <1>6, <2>1, <3>1, <3>2
    <2>2. CASE n \notin 1 .. p /\ m \in 1 .. p
      <3>1. all[n].cipher = ci
        <4>1. all[n] = [cipher |-> ci, offset |-> j.found[n - p]]
          BY <1>8, <2>2
        <4> QED BY <4>1
      <3>2. all[m] = hits[m] /\ hits[m] \in HitType /\ hits[m].cipher < ci
        BY <1>6, <1>7, <2>2 DEF HitsInv, HitsExact, HitsSound
      <3> QED BY <3>1, <3>2 DEF Precedes
    <2>3. CASE n \notin 1 .. p /\ m \notin 1 .. p
      <3>1. n - p \in 1 .. q /\ m - p \in 1 .. q /\ m - p < n - p
        BY <1>5, <2>3
      <3>2. /\ all[n] = [cipher |-> ci, offset |-> j.found[n - p]]
            /\ all[m] = [cipher |-> ci, offset |-> j.found[m - p]]
        BY <1>8, <2>3
      <3>3. j.found[m - p] < j.found[n - p]
        BY <1>3, <1>7, <3>1 DEF Lists
      <3> QED BY <3>2, <3>3 DEF Precedes
    <2> QED BY <2>1, <2>2, <2>3
  <1>10. \A n \in 1 .. p + q :
           /\ all[n].cipher \in DOMAIN req.ciphers /\ all[n].cipher < ci + 1
           /\ Matches(req, all[n].cipher, all[n].offset)
    <2> SUFFICES ASSUME NEW n \in 1 .. p + q
                 PROVE  /\ all[n].cipher \in DOMAIN req.ciphers
                        /\ all[n].cipher < ci + 1
                        /\ Matches(req, all[n].cipher, all[n].offset)
      OBVIOUS
    <2>1. CASE n \in 1 .. p /\ all[n] = hits[n]
      <3>1. /\ hits[n] \in HitType
            /\ hits[n].cipher \in DOMAIN req.ciphers /\ hits[n].cipher < ci
            /\ Matches(req, hits[n].cipher, hits[n].offset)
        BY <1>7, <2>1 DEF HitsInv, HitsExact, HitsSound
      <3> QED BY <1>2, <2>1, <3>1 DEF HitType
    <2>2. CASE /\ n - p \in 1 .. q
               /\ all[n] = [cipher |-> ci, offset |-> j.found[n - p]]
      <3>1. Matches(req, ci, j.found[n - p])
        BY <1>3, <1>7, <2>2 DEF Lists
      <3> QED BY <1>2, <2>2, <3>1
    <2> QED BY <1>8, <2>1, <2>2
  <1>11. ASSUME NEW h \in [cipher : 1 .. ci, offset : 0 .. req.dumpLen],
                h.cipher \in DOMAIN req.ciphers,
                Matches(req, h.cipher, h.offset)
         PROVE  \E n \in 1 .. p + q : all[n] = h
    <2>1. h.cipher \in Int /\ h.offset \in Int
      OBVIOUS
    <2>2. CASE h.cipher < ci
      <3>1. h \in [cipher : 1 .. ci - 1, offset : 0 .. req.dumpLen]
        BY <1>2, <2>2
      <3>2. IsPastHit(h)
        BY <1>11, <2>2 DEF IsPastHit
      <3>3. Listed(h)
        BY <1>1, <3>1, <3>2 DEF HitsInv, HitsExact, NoHitMissed
      <3>4. PICK n \in 1 .. p : hits[n] = h
        BY <1>7, <3>3 DEF Listed
      <3>5. n \in 1 .. p + q
        BY <1>5
      <3> QED BY <1>6, <3>4, <3>5
    <2>3. CASE h.cipher = ci
      <3>1. h.offset \in 0 .. Windows(req, ci) - 1
        BY <1>2, <1>11, <2>1, <2>3, WindowsNat DEF Matches
      <3>2. PICK k \in 1 .. q : j.found[k] = h.offset
        BY <1>3, <1>7, <1>11, <2>3, <3>1 DEF Lists
      <3>3. all[p + k] = [cipher |-> ci, offset |-> h.offset]
        BY <1>4, <1>6, <3>2
      <3>4. h = [cipher |-> ci, offset |-> h.offset]
        BY <2>3
      <3>5. p + k \in 1 .. p + q
        BY <1>5
      <3> QED BY <3>3, <3>4, <3>5
    <2> QED BY <1>2, <2>1, <2>2, <2>3
  <1>12. CASE ~Capped(all)
    <2>1. hits' = all /\ pc' = "cipher"
      BY <1>1, <1>12
    <2>2. HitsInOrder'
      BY <1>6, <1>9, <2>1 DEF HitsInOrder
    <2>3. HitsSound'
      BY <1>1, <1>6, <1>10, <2>1 DEF HitsSound, Matches, Windows
    <2>4. req.maxHits > 0 => Len(all) <= req.maxHits
      BY <1>2, <1>5, <1>6, <1>12, RequestShape DEF Capped
    <2>5. ASSUME NEW h \in [cipher : 1 .. ci' - 1, offset : 0 .. req'.dumpLen],
                 IsPastHit(h)'
          PROVE  Listed(h)'
      <3>1. h \in [cipher : 1 .. ci, offset : 0 .. req.dumpLen]
        <4>1. ci' - 1 = ci /\ req' = req
          BY <1>1, <1>2
        <4> QED BY <4>1
      <3>2. h.cipher \in DOMAIN req.ciphers /\ Matches(req, h.cipher, h.offset)
        BY <1>1, <2>5 DEF IsPastHit, Matches, Windows
      <3>3. PICK n \in 1 .. p + q : all[n] = h
        BY <1>11, <3>1, <3>2
      <3> QED BY <1>6, <2>1, <3>3 DEF Listed
    <2>6. NoHitMissed'
      <3>1. req'.maxHits > 0 => Len(hits') <= req'.maxHits
        BY <1>1, <2>1, <2>4
      <3> QED BY <2>5, <3>1 DEF NoHitMissed
    <2> QED BY <2>2, <2>3, <2>6 DEF HitsExact
  <1>13. CASE Capped(all)
    <2> DEFINE c == req.maxHits
    <2>1. hits' = SubSeq(all, 1, c) /\ pc' = "ok"
      BY <1>1, <1>13
    <2>2. c \in Nat /\ c > 0 /\ c <= p + q
      BY <1>2, <1>6, <1>13, RequestShape DEF Capped
    <2>3. /\ Len(hits') = c /\ DOMAIN hits' = 1 .. c
          /\ \A n \in 1 .. c : n \in 1 .. p + q /\ hits'[n] = all[n]
      BY <1>5, <1>6, <2>1, <2>2
    <2>4. HitsInOrder'
      BY <1>9, <2>3 DEF HitsInOrder
    <2>5. HitsSound'
      BY <1>1, <1>10, <2>3 DEF HitsSound, Matches, Windows
    <2>6. Capped(hits)'
      BY <1>1, <2>2, <2>3 DEF Capped
    <2>7. ASSUME NEW h \in [cipher : 1 .. ci' - 1, offset : 0 .. req'.dumpLen],
                 IsPastHit(h)', ~Listed(h)'
          PROVE  \A n \in DOMAIN hits' : Precedes(hits'[n], h)
      <3>1. h \in [cipher : 1 .. ci, offset : 0 .. req.dumpLen]
        <4>1. ci' - 1 = ci /\ req' = req
          BY <1>1, <1>2
        <4> QED BY <4>1
      <3>2. h.cipher \in DOMAIN req.ciphers /\ Matches(req, h.cipher, h.offset)
        BY <1>1, <2>7 DEF IsPastHit, Matches, Windows
      <3>3. PICK k \in 1 .. p + q : all[k] = h
        BY <1>11, <3>1, <3>2
      <3>4. k \notin 1 .. c
        BY <2>3, <2>7, <3>3 DEF Listed
      <3>5. \A n \in 1 .. c : n < k
        BY <1>5, <2>2, <3>4
      <3> QED BY <1>9, <2>3, <3>3, <3>5
    <2>8. NoHitMissed'
      <3>1. Len(hits') <= req'.maxHits
        BY <1>1, <2>2, <2>3
      <3> QED BY <2>1, <2>6, <2>7, <3>1 DEF NoHitMissed
    <2> QED BY <2>4, <2>5, <2>8 DEF HitsExact
  <1> QED BY <1>12, <1>13

\* The first state satisfies the invariant of the hits.
LEMMA InitHitsInv == Init => HitsInv
  <1> SUFFICES ASSUME Init PROVE HitsInv
    OBVIOUS
  <1>1. PassInv
    BY InitPassInv
  <1>2. ci = 1 /\ hits = <<>> /\ pc = "validate"
    BY DEF Init
  <1>3. HitsExact
    BY <1>2 DEF HitsExact, HitsInOrder, HitsSound, NoHitMissed
  <1> QED BY <1>1, <1>2, <1>3 DEF HitsInv

\* Every step keeps the invariant of the hits.
LEMMA NextHitsInv == HitsInv /\ [Next]_vars => HitsInv'
  <1> SUFFICES ASSUME HitsInv, [Next]_vars
               PROVE  HitsInv'
    OBVIOUS
  <1>1. PassInv'
    BY NextPassInv DEF HitsInv
  <1>2. req \in Requests /\ ci \in Nat \ {0}
    BY DEF HitsInv, PassInv, TypeOK
  <1>3. CASE Validate
    <2>1. /\ pc = "validate" /\ ci = 1 /\ hits = <<>> /\ pc' \in {"cipher", "err"}
          /\ UNCHANGED <<req, ci, jobs, hits>>
      BY <1>3 DEF Validate, HitsInv
    <2>2. ci' = 1 /\ hits' = <<>>
      BY <2>1
    <2>3. HitsInOrder' /\ HitsSound'
      BY <2>2 DEF HitsInOrder, HitsSound
    <2>4. NoHitMissed'
      <3>1. 1 .. ci' - 1 = {}
        BY <2>2
      <3>2. [cipher : 1 .. ci' - 1, offset : 0 .. req'.dumpLen] = {}
        BY <3>1
      <3>3. req'.maxHits > 0 => Len(hits') <= req'.maxHits
        BY <1>2, <2>1, RequestShape
      <3> QED BY <3>2, <3>3 DEF NoHitMissed
    <2> QED BY <1>1, <2>1, <2>3, <2>4 DEF HitsInv, HitsExact
  <1>4. CASE Skip
    <2>1. /\ pc = "cipher" /\ pc' = "cipher" /\ ci \in DOMAIN req.ciphers
          /\ Windows(req, ci) = 0
          /\ ci' = ci + 1 /\ UNCHANGED <<req, hits>>
      BY <1>4 DEF Skip, AtCipher, Skips
    <2>2. HitsInOrder'
      BY <2>1 DEF HitsInv, HitsExact, HitsInOrder
    <2>3. HitsSound'
      <3> SUFFICES ASSUME NEW n \in DOMAIN hits
                   PROVE  /\ hits[n].cipher \in DOMAIN req.ciphers
                          /\ hits[n].cipher < ci + 1
                          /\ Matches(req, hits[n].cipher, hits[n].offset)
        BY <2>1 DEF HitsSound, Matches, Windows
      <3>1. hits[n] \in HitType
        BY DEF HitsInv, PassInv, TypeOK
      <3>2. /\ hits[n].cipher \in DOMAIN req.ciphers /\ hits[n].cipher < ci
            /\ Matches(req, hits[n].cipher, hits[n].offset)
        BY DEF HitsInv, HitsExact, HitsSound
      <3> QED BY <1>2, <3>1, <3>2 DEF HitType
    <2>4. ASSUME NEW h \in [cipher : 1 .. ci' - 1, offset : 0 .. req'.dumpLen],
                 IsPastHit(h)'
          PROVE  Listed(h)'
      <3>1. ci' - 1 = ci /\ req' = req
        BY <1>2, <2>1
      <3>2. h \in [cipher : 1 .. ci, offset : 0 .. req.dumpLen]
        BY <3>1
      <3>3. h.cipher \in DOMAIN req.ciphers /\ Matches(req, h.cipher, h.offset)
        BY <2>1, <2>4 DEF IsPastHit, Matches, Windows
      <3>4. h.offset \in Nat
        BY <3>2
      <3>5. h.cipher # ci
        BY <2>1, <3>3, <3>4 DEF Matches
      <3>6. h.cipher < ci /\ h \in [cipher : 1 .. ci - 1, offset : 0 .. req.dumpLen]
        BY <1>2, <3>2, <3>5
      <3>7. Listed(h)
        BY <2>1, <3>3, <3>6 DEF IsPastHit, HitsInv, HitsExact, NoHitMissed
      <3> QED BY <2>1, <3>7 DEF Listed
    <2>5. req'.maxHits > 0 => Len(hits') <= req'.maxHits
      BY <2>1 DEF HitsInv, HitsExact, NoHitMissed
    <2>6. NoHitMissed'
      BY <2>4, <2>5 DEF NoHitMissed
    <2> QED BY <1>1, <2>1, <2>2, <2>3, <2>6 DEF HitsInv, HitsExact
  <1>5. CASE Reject
    <2>1. pc' = "err" /\ hits' = <<>>
      BY <1>5 DEF Reject
    <2> QED BY <1>1, <2>1 DEF HitsInv, HitsExact, HitsInOrder, HitsSound, NoHitMissed
  <1>6. CASE \E j \in jobs : Collect(j)
    <2>1. HitsExact'
      BY <1>6, CollectKeepsHits
    <2>2. pc' # "validate"
      BY <1>6 DEF Collect
    <2> QED BY <1>1, <2>1, <2>2 DEF HitsInv
  <1>7. CASE /\ UNCHANGED <<req, ci, hits>>
             /\ \/ pc' = pc
                \/ pc = "cipher" /\ pc' \in {"pass", "ok"}
    <2>1. HitsInOrder' /\ HitsSound'
      BY <1>7 DEF HitsInv, HitsExact, HitsInOrder, HitsSound, Matches, Windows
    <2>2. NoHitMissed'
      <3>1. \A h : /\ IsPastHit(h)' <=> IsPastHit(h)
                   /\ Listed(h)' <=> Listed(h)
        BY <1>7 DEF IsPastHit, Listed, Matches, Windows
      <3>2. Capped(hits)' = Capped(hits)
        BY <1>7 DEF Capped
      <3>3. CASE pc' = pc
        BY <1>7, <3>1, <3>2, <3>3 DEF HitsInv, HitsExact, NoHitMissed
      <3>4. CASE pc = "cipher" /\ pc' \in {"pass", "ok"}
        BY <1>7, <3>1, <3>2, <3>4 DEF HitsInv, HitsExact, NoHitMissed
      <3> QED BY <1>7, <3>3, <3>4
    <2>3. pc' = "validate" => ci' = 1 /\ hits' = <<>>
      BY <1>7 DEF HitsInv
    <2> QED BY <1>1, <2>1, <2>2, <2>3 DEF HitsInv, HitsExact
  <1>8. CASE Begin
    BY <1>7, <1>8 DEF Begin, AtCipher
  <1>9. CASE PassStep
    BY <1>6, <1>7, <1>9 DEF PassStep, Split, Start, LoadStop, Count, Verify,
                            Join, Passing
  <1>10. CASE Return
    BY <1>7, <1>10 DEF Return
  <1>11. CASE Done \/ UNCHANGED vars
    BY <1>7, <1>11 DEF Done, vars
  <1> QED BY <1>3, <1>4, <1>5, <1>8, <1>9, <1>10, <1>11 DEF Next

\* For every request and every schedule, the list of hits is at every moment
\* the hits of the ciphers that are over, each once, by cipher and offset; only
\* a full answer leaves hits out, and only later ones.
THEOREM HitsExactAlways == Spec => []HitsExact
  <1>1. HitsInv => HitsExact
    BY DEF HitsInv
  <1> QED BY <1>1, InitHitsInv, NextHitsInv, PTL DEF Spec

-----------------------------------------------------------------------------
(* The counter of candidates. *)

\* The inductive invariant of the counter.
TriedInv ==
  /\ PassInv
  /\ pc = "validate" => ci = 1 /\ jobs = {} /\ tried = 0
  /\ pc \in {"cipher", "pass", "ok"} =>
       IsFiniteSet(Tried) /\ tried = Cardinality(Tried)

\* The windows of this pass that are counted.
CountedNow == UNION {Counted(j) : j \in jobs}

\* A pass that is over joins the earlier ones.
LEMMA PastGrows ==
  ASSUME NEW r, NEW n \in Nat \ {0}
  PROVE  PastWindows(r, n + 1) =
           PastWindows(r, n) \cup ({n} \X (0 .. Windows(r, n) - 1))
  <1>1. 1 .. (n + 1) - 1 = (1 .. n - 1) \cup {n}
    OBVIOUS
  <1> QED BY <1>1 DEF PastWindows

\* A step that counts nothing.
LEMMA TriedSame ==
  ASSUME UNCHANGED <<req, ci>>, CountedNow' = CountedNow
  PROVE  Tried' = Tried
  BY DEF Tried, CountedNow

\* One job replaced by jobs that have counted the same windows.
LEMMA CountedSame ==
  ASSUME NEW old \in SUBSET jobs, NEW new, jobs' = (jobs \ old) \cup new,
         UNION {Counted(j) : j \in old} = UNION {Counted(j) : j \in new}
  PROVE  CountedNow' = CountedNow
  <1>1. CountedNow' = UNION {Counted(j) : j \in jobs'}
    BY DEF CountedNow, Counted
  <1>2. ASSUME NEW o PROVE o \in CountedNow' <=> o \in CountedNow
    <2>1. o \in CountedNow' <=>
            \/ \E j \in jobs \ old : o \in Counted(j)
            \/ o \in UNION {Counted(j) : j \in new}
      BY <1>1
    <2>2. o \in CountedNow <=>
            \/ \E j \in jobs \ old : o \in Counted(j)
            \/ o \in UNION {Counted(j) : j \in old}
      BY DEF CountedNow
    <2> QED BY <2>1, <2>2
  <1> QED BY <1>2

\* The windows a job has counted are its own.
LEMMA CountedInside ==
  ASSUME PassInv, pc = "pass", NEW j \in jobs, NEW o \in Counted(j)
  PROVE  o \in Nat /\ j.lo <= o /\ o < j.hi
  <1>1. j \in JobType /\ j.lo <= j.next /\ j.next <= j.hi /\ JobExact(req, ci, j)
    BY DEF PassInv, TypeOK, JobsExact
  <1> QED BY <1>1 DEF JobExact, Counted, JobType

\* The window a job counts has not been counted before.
LEMMA CountIsNew ==
  ASSUME PassInv, pc = "pass", NEW j \in jobs, j.st = "count"
  PROVE  <<ci, j.next>> \notin Tried
  <1>1. /\ j \in JobType /\ j.lo <= j.next /\ ci \in Nat \ {0}
        /\ j.next < j.hi
    BY DEF PassInv, TypeOK, JobsExact, JobExact
  <1>2. <<ci, j.next>> \notin PastWindows(req, ci)
    BY <1>1 DEF PastWindows
  <1>3. ASSUME NEW k \in jobs, j.next \in Counted(k) PROVE FALSE
    <2>1. k.lo <= j.next /\ j.next < k.hi
      BY <1>3, CountedInside
    <2>2. CASE k = j
      BY <1>1, <1>3, <2>2 DEF Counted, JobType
    <2>3. CASE k # j
      <3>1. k \in JobType
        BY DEF PassInv, TypeOK
      <3>2. j.hi <= k.lo \/ k.hi <= j.lo
        BY <2>3 DEF PassInv, JobsTile
      <3> QED BY <1>1, <2>1, <3>1, <3>2 DEF JobType
    <2> QED BY <2>2, <2>3
  <1> QED BY <1>2, <1>3 DEF Tried, CountedNow

\* The first state satisfies the invariant of the counter.
LEMMA InitTriedInv == Init => TriedInv
  BY InitPassInv DEF Init, TriedInv

\* Every step keeps the invariant of the counter.
LEMMA NextTriedInv == TriedInv /\ [Next]_vars => TriedInv'
  <1> SUFFICES ASSUME TriedInv, [Next]_vars
               PROVE  TriedInv'
    OBVIOUS
  <1>1. PassInv /\ PassInv'
    BY NextPassInv DEF TriedInv
  <1>2. ci \in Nat \ {0} /\ req \in Requests /\ tried \in Nat
    BY <1>1 DEF PassInv, TypeOK
  <1>3. ASSUME Tried' = Tried, tried' = tried, pc' # "validate",
               pc \in {"cipher", "pass", "ok"}
        PROVE  TriedInv'
    BY <1>1, <1>3 DEF TriedInv
  <1>4. CASE Validate
    <2>1. /\ pc = "validate" /\ ci' = 1 /\ jobs' = {} /\ tried' = 0
          /\ pc' # "validate"
      BY <1>4 DEF Validate, TriedInv
    <2>2. Tried' = {}
      <3>1. 1 .. ci' - 1 = {}
        BY <2>1
      <3>2. PastWindows(req', ci') = {}
        BY <3>1 DEF PastWindows
      <3> QED BY <2>1, <3>2 DEF Tried
    <2>3. IsFiniteSet(Tried') /\ Cardinality(Tried') = 0
      BY <2>2, FS_EmptySet
    <2> QED BY <1>1, <2>1, <2>3 DEF TriedInv
  <1>5. CASE Skip
    <2>1. /\ pc = "cipher" /\ pc' = pc /\ Windows(req, ci) = 0
          /\ ci' = ci + 1 /\ UNCHANGED <<req, jobs, tried>>
      BY <1>5 DEF Skip, AtCipher, Skips
    <2>2. jobs = {}
      BY <1>1, <2>1 DEF PassInv, JobsExact
    <2>3. Tried = PastWindows(req, ci)
      BY <2>2 DEF Tried, CountedNow
    <2>4. PastWindows(req, ci + 1) = PastWindows(req, ci)
      <3>1. 0 .. Windows(req, ci) - 1 = {}
        BY <2>1
      <3>2. {ci} \X (0 .. Windows(req, ci) - 1) = {}
        BY <3>1
      <3>3. PastWindows(req, ci + 1) = PastWindows(req, ci) \cup
                 ({ci} \X (0 .. Windows(req, ci) - 1))
        BY <1>2, PastGrows
      <3> QED BY <3>2, <3>3
    <2>5. Tried' = PastWindows(req, ci + 1)
      BY <2>1, <2>2 DEF Tried
    <2> QED BY <1>3, <2>1, <2>3, <2>4, <2>5
  <1>6. CASE Reject
    BY <1>1, <1>6 DEF Reject, TriedInv
  <1>7. CASE Begin
    <2>1. /\ pc = "cipher" /\ pc' = "pass"
          /\ jobs' = {Job(0, Windows(req, ci))} /\ UNCHANGED <<req, ci, tried>>
      BY <1>7 DEF Begin, AtCipher
    <2>2. CountedNow = {}
      BY <1>1, <2>1 DEF PassInv, JobsExact, CountedNow
    <2>3. CountedNow' = {}
      BY <2>1 DEF CountedNow, Counted, Job
    <2> QED BY <1>3, <2>1, <2>2, <2>3, TriedSame
  <1>8. ASSUME NEW j \in jobs, Split(j)
        PROVE  TriedInv'
    <2> DEFINE mid == j.lo + (j.hi - j.lo) \div 2
               left == Job(j.lo, mid)
               right == Job(mid, j.hi)
    <2>1. /\ pc = "pass" /\ j.st = "queued" /\ j.hi - j.lo >= 2
          /\ jobs' = (jobs \ {j}) \cup {left, right}
          /\ UNCHANGED <<req, pc, ci, tried>>
      BY <1>8 DEF Split, Passing, Replace
    <2>2. j \in JobType /\ j.next = j.lo
      BY <1>1, <2>1 DEF PassInv, TypeOK, JobsExact, JobExact
    <2>3. Counted(j) = {}
      BY <2>1, <2>2 DEF Counted, JobType
    <2>4. mid \in Nat
      BY <2>1, <2>2, HalfInside DEF JobType
    <2>5. Counted(left) = {} /\ Counted(right) = {}
      BY <2>2, <2>4 DEF Counted, Job, JobType
    <2> HIDE DEF left, right
    <2>6. CountedNow' = CountedNow
      <3>1. UNION {Counted(k) : k \in {j}} = UNION {Counted(k) : k \in {left, right}}
        BY <2>3, <2>5
      <3> QED BY <2>1, <3>1, CountedSame
    <2> QED BY <1>3, <2>1, <2>6, TriedSame
  <1>9. ASSUME NEW j \in jobs, NEW k, pc = "pass",
               jobs' = (jobs \ {j}) \cup {k}, Counted(k) = Counted(j),
               UNCHANGED <<req, pc, ci, tried>>
        PROVE  TriedInv'
    <2>1. UNION {Counted(l) : l \in {j}} = UNION {Counted(l) : l \in {k}}
      BY <1>9
    <2>2. CountedNow' = CountedNow
      BY <1>9, <2>1, CountedSame
    <2> QED BY <1>3, <1>9, <2>2, TriedSame
  <1>10. ASSUME NEW j \in jobs, Start(j)
         PROVE  TriedInv'
    <2> DEFINE k == [j EXCEPT !.st = StatusAt(j, j.lo)]
    <2>1. /\ pc = "pass" /\ j.st = "queued" /\ jobs' = (jobs \ {j}) \cup {k}
          /\ UNCHANGED <<req, pc, ci, tried>>
      BY <1>10 DEF Start, Passing, Replace
    <2>2. j \in JobType
      BY <1>1 DEF PassInv, TypeOK
    <2>3. Counted(k) = Counted(j)
      BY <2>1, <2>2 DEF Counted, StatusAt, JobType
    <2> QED BY <1>9, <2>1, <2>3
  <1>11. ASSUME NEW j \in jobs, LoadStop(j)
         PROVE  TriedInv'
    <2> DEFINE k == [j EXCEPT !.st = "count"]
    <2>1. /\ pc = "pass" /\ j.st = "filter" /\ jobs' = (jobs \ {j}) \cup {k}
          /\ UNCHANGED <<req, pc, ci, tried>>
      BY <1>1, <1>11 DEF LoadStop, Passing, Replace, PassInv
    <2>2. j \in JobType
      BY <1>1 DEF PassInv, TypeOK
    <2>3. Counted(k) = Counted(j)
      BY <2>1, <2>2 DEF Counted, JobType
    <2> QED BY <1>9, <2>1, <2>3
  <1>12. ASSUME NEW j \in jobs, Count(j)
         PROVE  TriedInv'
    <2> DEFINE k == [j EXCEPT !.st = "verify"]
               w == <<ci, j.next>>
    <2>1. /\ pc = "pass" /\ j.st = "count" /\ jobs' = (jobs \ {j}) \cup {k}
          /\ tried' = tried + 1 /\ UNCHANGED <<req, pc, ci>>
      BY <1>12 DEF Count, Passing, Replace
    <2>2. /\ j \in JobType /\ j.lo <= j.next
      BY <1>1 DEF PassInv, TypeOK
    <2>3. Counted(k) = Counted(j) \cup {j.next}
      BY <2>1, <2>2 DEF Counted, JobType
    <2> HIDE DEF k
    <2>4. CountedNow' = CountedNow \cup {j.next}
      <3>1. CountedNow' = UNION {Counted(l) : l \in jobs'}
        BY DEF CountedNow, Counted
      <3>2. ASSUME NEW o
            PROVE  o \in CountedNow' <=> o \in CountedNow \cup {j.next}
        <4>1. o \in CountedNow' <=>
                (\E l \in jobs \ {j} : o \in Counted(l)) \/ o \in Counted(k)
          BY <2>1, <3>1
        <4>2. o \in CountedNow <=>
                (\E l \in jobs \ {j} : o \in Counted(l)) \/ o \in Counted(j)
          BY DEF CountedNow
        <4> QED BY <2>3, <4>1, <4>2
      <3> QED BY <3>2
    <2>5. PastWindows(req, ci)' = PastWindows(req, ci)
      BY <2>1
    <2>6. Tried' = Tried \cup {w}
      <3>1. Tried' = PastWindows(req, ci)' \cup ({ci} \X CountedNow')
        BY <2>1 DEF Tried, CountedNow
      <3> QED BY <2>4, <2>5, <3>1 DEF Tried, CountedNow
    <2>7. w \notin Tried
      BY <1>1, <2>1, CountIsNew
    <2>8. IsFiniteSet(Tried) /\ tried = Cardinality(Tried)
      BY <2>1 DEF TriedInv
    <2>9. IsFiniteSet(Tried') /\ Cardinality(Tried') = Cardinality(Tried) + 1
      BY <2>6, <2>7, <2>8, FS_AddElement
    <2> QED BY <1>1, <2>1, <2>8, <2>9 DEF TriedInv
  <1>13. ASSUME NEW j \in jobs, Verify(j)
         PROVE  TriedInv'
    <2> DEFINE k == Advance(j, IF Matches(req, ci, j.next)
                               THEN Append(j.found, j.next)
                               ELSE j.found)
    <2>1. /\ pc = "pass" /\ j.st = "verify" /\ jobs' = (jobs \ {j}) \cup {k}
          /\ UNCHANGED <<req, pc, ci, tried>>
      BY <1>13 DEF Verify, Passing, Replace
    <2>2. j \in JobType
      BY <1>1 DEF PassInv, TypeOK
    <2>3. k.lo = j.lo /\ k.next = j.next + 1 /\ k.st \in {"filter", "done"}
      BY DEF Advance, StatusAt
    <2> HIDE DEF k
    <2>4. Counted(k) = Counted(j)
      BY <2>1, <2>2, <2>3 DEF Counted, JobType
    <2> QED BY <1>9, <2>1, <2>4
  <1>14. ASSUME NEW j \in jobs, NEW k \in jobs, Join(j, k)
         PROVE  TriedInv'
    <2> DEFINE u == [j EXCEPT !.hi = k.hi, !.next = k.hi, !.found = @ \o k.found]
    <2>1. /\ pc = "pass" /\ j.st = "done" /\ k.st = "done" /\ j.hi = k.lo
          /\ jobs' = (jobs \ {j, k}) \cup {u}
          /\ UNCHANGED <<req, pc, ci, tried>>
      BY <1>14 DEF Join, Passing, Replace
    <2>2. /\ j \in JobType /\ k \in JobType /\ j.lo <= j.hi /\ k.lo <= k.hi
          /\ j.next = j.hi /\ k.next = k.hi
      BY <1>1, <2>1 DEF PassInv, TypeOK, JobsExact, JobExact, JobType
    <2>3. u.lo = j.lo /\ u.next = k.hi /\ u.st = "done"
      BY <2>1, <2>2 DEF JobType
    <2> HIDE DEF u
    <2>4. Counted(u) = Counted(j) \cup Counted(k)
      BY <2>1, <2>2, <2>3 DEF Counted, JobType
    <2>5. UNION {Counted(l) : l \in {j, k}} = UNION {Counted(l) : l \in {u}}
      BY <2>4
    <2>6. CountedNow' = CountedNow
      BY <2>1, <2>5, CountedSame
    <2> QED BY <1>3, <2>1, <2>6, TriedSame
  <1>15. ASSUME NEW j \in jobs, Collect(j)
         PROVE  TriedInv'
    <2>1. /\ pc = "pass" /\ jobs = {j} /\ j.st = "done" /\ jobs' = {}
          /\ ci' = ci + 1 /\ pc' \in {"ok", "cipher"} /\ UNCHANGED <<req, tried>>
      BY <1>15 DEF Collect
    <2>2. /\ j.lo = 0 /\ j.next = Windows(req, ci)
      BY <1>1, <2>1, LastJob DEF PassInv, JobsExact, JobExact
    <2>3. CountedNow = 0 .. Windows(req, ci) - 1
      BY <2>1, <2>2 DEF CountedNow, Counted
    <2>4. Tried = PastWindows(req, ci + 1)
      BY <1>2, <2>3, PastGrows DEF Tried, CountedNow
    <2>5. Tried' = PastWindows(req, ci + 1)
      BY <2>1 DEF Tried
    <2> QED BY <1>3, <2>1, <2>4, <2>5
  <1>16. CASE PassStep
    BY <1>8, <1>10, <1>11, <1>12, <1>13, <1>14, <1>15, <1>16 DEF PassStep
  <1>17. CASE Return
    <2>1. /\ pc = "cipher" /\ pc' = "ok" /\ UNCHANGED <<req, ci, jobs, tried>>
      BY <1>17 DEF Return
    <2>2. CountedNow' = CountedNow
      BY <2>1 DEF CountedNow, Counted
    <2> QED BY <1>3, <2>1, <2>2, TriedSame
  <1>18. CASE Done \/ UNCHANGED vars
    <2>1. UNCHANGED <<req, pc, ci, jobs, tried>>
      BY <1>18 DEF Done, vars
    <2>2. CountedNow' = CountedNow
      BY <2>1 DEF CountedNow, Counted
    <2>3. Tried' = Tried
      BY <2>1, <2>2, TriedSame
    <2> QED BY <1>1, <2>1, <2>3 DEF TriedInv
  <1> QED BY <1>4, <1>5, <1>6, <1>7, <1>16, <1>17, <1>18 DEF Next

\* For every request and every schedule, candidates_tried is the number of
\* keys tried, each counted once.
THEOREM TriedExactAlways == Spec => []TriedExact
  <1>1. TriedInv => TriedExact
    BY DEF TriedInv, TriedExact
  <1> QED BY <1>1, InitTriedInv, NextTriedInv, PTL DEF Spec

-----------------------------------------------------------------------------
(* No hunt panics. *)

\* An accepted request, and a cipher of its list that is neither skipped nor
\* rejected: the hunt has what it takes for granted.
LEMMA AcceptedIsPrepared ==
  ASSUME NEW r \in Requests, NEW i \in DOMAIN r.ciphers,
         Accepts(r), ~Skips(r, i), ~Rejects(r, i)
  PROVE  Prepared(r, i)
  <1> DEFINE c == r.ciphers[i]
  <1>1. c \in Ciphers /\ r.ctLen \in Nat /\ r.ctLen > 0
    BY RequestShape DEF Rejects
  <1>2. CASE IsStream(r, i)
    <2>1. AcceptsStream(r) /\ Uses(r, {c})
      BY <1>2 DEF Accepts, ValidateConfig, Uses, IsStream
    <2> QED BY <1>1, <1>2, <2>1 DEF Prepared, AcceptsStream, IsStream
  <1>3. CASE ~IsStream(r, i)
    <2>1. ~Uses(r, StreamCiphers)
      BY <1>3 DEF Accepts, ValidateConfig, AcceptsStream, UsesOnly, IsStream
    <2>2. AcceptsBlock(r) \/ AcceptsCtr(r) \/ AcceptsGcm(r)
      BY <2>1 DEF Accepts, ValidateConfig
    <2>3. CASE AcceptsBlock(r)
      <3>1. /\ r.ctLen % BlockLen[c] = 0
            /\ r.fixedIv = None \/ r.fixedIv = BlockLen[c]
        BY <1>3, <2>3 DEF Rejects, AcceptsBlock, RejectsBlocks, RejectsIv
      <3>2. BlockLen[c] \in Nat \ {0}
        BY <1>1, <1>3, LengthsAssumption DEF Ciphers, IsStream
      <3>3. r.ctLen >= BlockLen[c]
        BY <1>1, <3>1, <3>2
      <3>4. r.fixedIv = None \/ r.fixedIv >= BlockLen[c]
        BY <3>1, <3>2
      <3> QED BY <1>1, <1>3, <2>3, <3>3, <3>4 DEF Prepared, AcceptsBlock
    <2>4. CASE AcceptsCtr(r)
      BY <1>1, <1>3, <2>4 DEF Prepared, AcceptsCtr, UsesOnly
    <2>5. CASE AcceptsGcm(r)
      BY <1>1, <1>3, <2>5 DEF Prepared, AcceptsGcm, UsesOnly
    <2> QED BY <2>2, <2>3, <2>4, <2>5
  <1> QED BY <1>2, <1>3

\* Past the validation the request is an accepted one.
PreparedInv ==
  /\ PassInv
  /\ pc \in {"cipher", "pass"} => Accepts(req)
  /\ HuntsPrepared

\* For every request, whatever mixture of ciphers, mode and optional arguments
\* the validation lets through, no hunt of the call meets an input it would
\* panic on.
THEOREM HuntsPreparedAlways == Spec => []HuntsPrepared
  <1>1. Init => PreparedInv
    BY InitPassInv DEF Init, PreparedInv, HuntsPrepared
  <1>2. PreparedInv /\ [Next]_vars => PreparedInv'
    <2> SUFFICES ASSUME PreparedInv, [Next]_vars
                 PROVE  PreparedInv'
      OBVIOUS
    <2>1. PassInv'
      BY NextPassInv DEF PreparedInv
    <2>2. req' = req
      BY DEF Next, Validate, Skip, Reject, Begin, PassStep, Split, Start,
             LoadStop, Count, Verify, Join, Collect, Passing, Return, Done, vars
    <2>3. Accepts(req)' = Accepts(req)
      BY <2>2 DEF Accepts, ValidateConfig, AcceptsStream, AcceptsBlock,
                  AcceptsCtr, AcceptsGcm, Uses, UsesOnly
    <2>4. CASE Validate
      BY <2>1, <2>3, <2>4 DEF Validate, PreparedInv, HuntsPrepared
    <2>5. CASE Begin
      <3>1. /\ pc = "cipher" /\ ci \in DOMAIN req.ciphers /\ ci' = ci
            /\ ~Skips(req, ci) /\ ~Rejects(req, ci)
        BY <2>5 DEF Begin, AtCipher
      <3>2. Prepared(req, ci)
        BY <3>1, AcceptedIsPrepared DEF PreparedInv, PassInv, TypeOK
      <3>3. Prepared(req, ci)'
        BY <2>2, <3>1, <3>2 DEF Prepared, IsStream
      <3> QED BY <2>1, <2>3, <3>1, <3>3 DEF PreparedInv, HuntsPrepared
    <2>6. CASE pc' = pc /\ ci' = ci
      <3>1. Prepared(req, ci)' = Prepared(req, ci)
        BY <2>2, <2>6 DEF Prepared, IsStream
      <3> QED BY <2>1, <2>3, <2>6, <3>1 DEF PreparedInv, HuntsPrepared
    <2>7. CASE pc \in {"cipher", "pass"} /\ pc' \in {"cipher", "ok", "err"}
      BY <2>1, <2>3, <2>7 DEF PreparedInv, HuntsPrepared
    <2>8. \/ Validate \/ Begin
          \/ pc' = pc /\ ci' = ci
          \/ pc \in {"cipher", "pass"} /\ pc' \in {"cipher", "ok", "err"}
      BY DEF Next, Skip, AtCipher, Reject, PassStep, Split, Start, LoadStop,
             Count, Verify, Join, Collect, Passing, Return, Done, vars
    <2> QED BY <2>4, <2>5, <2>6, <2>7, <2>8
  <1>3. PreparedInv => HuntsPrepared
    BY DEF PreparedInv
  <1> QED BY <1>1, <1>2, <1>3, PTL DEF Spec

-----------------------------------------------------------------------------
(***************************************************************************)
(* ScanEngine implements ScanContract: whatever rayon does, a call gives   *)
(* in one step, and for good, the answer that the request alone determines.*)
(***************************************************************************)

(* The operators of the contract are those of the engine. *)

\* The contract looks at a request as the engine does.
LEMMA SameInput ==
  ASSUME NEW r, NEW i, NEW o
  PROVE  /\ Contract!Windows(r, i) = Windows(r, i)
         /\ Contract!Matches(r, i, o) = Matches(r, i, o)
         /\ Contract!Rejects(r, i) = Rejects(r, i)
         /\ Contract!Accepts(r) = Accepts(r)
  <1>1. Contract!Windows(r, i) = Windows(r, i)
    BY DEF Contract!Windows, Windows
  <1>2. Contract!Matches(r, i, o) = Matches(r, i, o)
    BY <1>1 DEF Contract!Matches, Matches
  <1>3. Contract!Skips(r, i) = Skips(r, i)
    BY <1>1 DEF Contract!Skips, Skips, Contract!IsStream, IsStream,
                Contract!StreamCiphers, StreamCiphers
  <1>4. Contract!Rejects(r, i) = Rejects(r, i)
    BY <1>3 DEF Contract!Rejects, Rejects, Contract!IsStream, IsStream,
                Contract!StreamCiphers, StreamCiphers,
                Contract!RejectsBlocks, RejectsBlocks, 
                Contract!RejectsIv, RejectsIv, Contract!None, None
  <1>5. Contract!Accepts(r) = Accepts(r)
    <2>1. \A c : Contract!StreamNonceLen(c) = StreamNonceLen(c)
      BY DEF Contract!StreamNonceLen, StreamNonceLen
    <2>2. \A S : /\ Contract!Uses(r, S) = Uses(r, S)
                 /\ Contract!UsesOnly(r, S) = UsesOnly(r, S)
      BY DEF Contract!Uses, Uses, Contract!UsesOnly, UsesOnly
    <2>3. /\ Contract!StreamCiphers = StreamCiphers
          /\ Contract!AesCiphers = AesCiphers
          /\ Contract!None = None
          /\ Contract!TagLen = TagLen
          /\ Contract!CtrNonceLen = CtrNonceLen
          /\ Contract!GcmNonceLen = GcmNonceLen
      BY DEF Contract!StreamCiphers, StreamCiphers, Contract!AesCiphers,
             AesCiphers, Contract!None, None, Contract!TagLen, TagLen,
             Contract!CtrNonceLen, CtrNonceLen, Contract!GcmNonceLen, GcmNonceLen
    <2>4. Contract!AcceptsStream(r) = AcceptsStream(r)
      BY <2>1, <2>2, <2>3 DEF Contract!AcceptsStream, AcceptsStream
    <2>5. /\ Contract!AcceptsBlock(r) = AcceptsBlock(r)
          /\ Contract!AcceptsCtr(r) = AcceptsCtr(r)
          /\ Contract!AcceptsGcm(r) = AcceptsGcm(r)
      BY <2>2, <2>3 DEF Contract!AcceptsBlock, AcceptsBlock,
         Contract!AcceptsCtr, AcceptsCtr, Contract!AcceptsGcm, AcceptsGcm
    <2>6. Contract!ValidateConfig(r) = ValidateConfig(r)
      BY <2>2, <2>3, <2>4, <2>5 DEF Contract!ValidateConfig, ValidateConfig
    <2> QED BY <2>3, <2>6 DEF Contract!Accepts, Accepts
  <1> QED BY <1>1, <1>2, <1>4, <1>5

\* The contract counts as the engine does.
LEMMA SameCount ==
  ASSUME NEW S
  PROVE  Contract!Cardinality(S) = Cardinality(S)
  BY DEF Contract!Cardinality, Cardinality, Contract!IsFiniteSet, IsFiniteSet

\* The windows of the first ciphers.
LEMMA FirstWindows ==
  ASSUME NEW r, NEW n
  PROVE  Contract!WindowsOf(r, 1 .. n - 1) = PastWindows(r, n)
  BY SameInput DEF Contract!WindowsOf, PastWindows

-----------------------------------------------------------------------------
(* Counting hits. *)

\* The windows of some ciphers of the list, and so their hits, are finitely
\* many.
LEMMA AllHitsFinite ==
  ASSUME NEW r \in Requests, NEW I \in SUBSET DOMAIN r.ciphers
  PROVE  /\ IsFiniteSet(Contract!AllHits(r, I))
         /\ Contract!AllHits(r, I) =
              {w \in I \X Nat : Matches(r, w[1], w[2])}
  <1> DEFINE P(i) == {i} \X (0 .. Windows(r, i) - 1)
  <1>1. IsFiniteSet(I)
    <2>1. r.ciphers \in Seq(Ciphers)
      BY RequestShape
    <2>2. Len(r.ciphers) \in Nat /\ DOMAIN r.ciphers = 1 .. Len(r.ciphers)
      BY <2>1
    <2>3. IsFiniteSet(1 .. Len(r.ciphers))
      BY <2>2, FS_Interval
    <2> QED BY <2>2, <2>3, FS_Subset
  <1>2. \A i \in I : Windows(r, i) \in Nat
    BY WindowsNat
  <1>3. ASSUME NEW i \in I PROVE IsFiniteSet(P(i))
    <2>1. IsFiniteSet({i})
      BY FS_Singleton
    <2>2. Windows(r, i) - 1 \in Int
      BY <1>2
    <2>3. IsFiniteSet(0 .. Windows(r, i) - 1)
      BY <2>2, FS_Interval
    <2> QED BY <2>1, <2>3, FS_Product
  <1>4. Contract!WindowsOf(r, I) = UNION {P(i) : i \in I}
    BY SameInput DEF Contract!WindowsOf
  <1>5. IsFiniteSet({P(i) : i \in I})
    <2> DEFINE f == [i \in I |-> P(i)]
    <2>1. f \in Surjection(I, {P(i) : i \in I})
      BY DEF Surjection
    <2> HIDE DEF f
    <2> QED BY <1>1, <2>1, FS_Surjection
  <1>6. IsFiniteSet(Contract!WindowsOf(r, I))
    BY ZenonT(40), <1>3, <1>4, <1>5, FS_UNION
  <1>7. IsFiniteSet(Contract!AllHits(r, I))
    <2>1. Contract!AllHits(r, I) \in SUBSET Contract!WindowsOf(r, I)
      BY DEF Contract!AllHits
    <2> QED BY <1>6, <2>1, FS_Subset
  <1>8. ASSUME NEW w
        PROVE  w \in Contract!AllHits(r, I) <=>
                 w \in I \X Nat /\ Matches(r, w[1], w[2])
    <2>1. w \in Contract!AllHits(r, I) <=>
            /\ \E i \in I : w \in {i} \X (0 .. Windows(r, i) - 1)
            /\ Matches(r, w[1], w[2])
      BY <1>4, SameInput DEF Contract!AllHits
    <2>2. ASSUME NEW i \in I, w \in {i} \X (0 .. Windows(r, i) - 1)
          PROVE  w \in I \X Nat
      BY <1>2, <2>2
    <2>3. ASSUME w \in I \X Nat, Matches(r, w[1], w[2])
          PROVE  w \in {w[1]} \X (0 .. Windows(r, w[1]) - 1)
      BY <1>2, <2>3 DEF Matches
    <2> QED BY <2>1, <2>2, <2>3
  <1> QED BY <1>7, <1>8

\* A list of hits in order names as many hits as it is long; all hits of the
\* first n ciphers if each of them is in it.
LEMMA CountHits ==
  ASSUME NEW r \in Requests, NEW n \in Nat, 1 .. n \subseteq DOMAIN r.ciphers,
         NEW s \in Seq(HitType),
         \A k, m \in DOMAIN s : k < m => Precedes(s[k], s[m]),
         \A k \in DOMAIN s : /\ s[k].cipher \in 1 .. n
                             /\ Matches(r, s[k].cipher, s[k].offset)
  PROVE  /\ IsFiniteSet(Contract!AllHits(r, 1 .. n))
         /\ Cardinality(Contract!AllHits(r, 1 .. n)) \in Nat
         /\ Len(s) <= Cardinality(Contract!AllHits(r, 1 .. n))
         /\ (\A w \in Contract!AllHits(r, 1 .. n) :
               \E k \in DOMAIN s : Contract!At(s[k]) = w)
            => Len(s) = Cardinality(Contract!AllHits(r, 1 .. n))
  <1> DEFINE A == Contract!AllHits(r, 1 .. n)
             f == [k \in 1 .. Len(s) |-> Contract!At(s[k])]
  <1>1. IsFiniteSet(A) /\ A = {w \in (1 .. n) \X Nat : Matches(r, w[1], w[2])}
    BY AllHitsFinite
  <1>2. Len(s) \in Nat /\ DOMAIN s = 1 .. Len(s) /\ \A k \in 1 .. Len(s) : s[k] \in HitType
    OBVIOUS
  <1>3. f \in [1 .. Len(s) -> A]
    <2> SUFFICES ASSUME NEW k \in 1 .. Len(s) PROVE Contract!At(s[k]) \in A
      OBVIOUS
    <2>1. <<s[k].cipher, s[k].offset>> \in (1 .. n) \X Nat
      BY <1>2 DEF HitType
    <2> QED BY <1>1, <1>2, <2>1 DEF Contract!At
  <1>4. ASSUME NEW k \in 1 .. Len(s), NEW m \in 1 .. Len(s), f[k] = f[m]
        PROVE  k = m
    <2>1. s[k].cipher = s[m].cipher /\ s[k].offset = s[m].offset
      <3>1. Contract!At(s[k]) = Contract!At(s[m])
        BY <1>4
      <3> QED BY <3>1 DEF Contract!At
    <2>2. s[k].cipher \in Nat /\ s[k].offset \in Nat
      BY <1>2 DEF HitType
    <2>3. ~Precedes(s[k], s[m]) /\ ~Precedes(s[m], s[k])
      BY <2>1, <2>2 DEF Precedes
    <2> QED BY <1>2, <2>3
  <1>5. f \in Injection(1 .. Len(s), A)
    BY <1>3, <1>4, Fun_IsInj
  <1>6. IsFiniteSet(1 .. Len(s)) /\ Cardinality(1 .. Len(s)) = Len(s)
    <2>1. Len(s) \in Int /\ 1 \in Int
      BY <1>2
    <2>2. /\ IsFiniteSet(1 .. Len(s))
          /\ Cardinality(1 .. Len(s)) = IF 1 > Len(s) THEN 0 ELSE Len(s) - 1 + 1
      BY <2>1, FS_Interval
    <2> QED BY <1>2, <2>2
  <1>7. Cardinality(A) \in Nat
    BY <1>1, FS_CardinalityType
  <1>8. Len(s) <= Cardinality(A)
    <2> HIDE DEF A, f
    <2> QED BY <1>1, <1>5, <1>6, FS_Injection
  <1>9. ASSUME \A w \in A : \E k \in DOMAIN s : Contract!At(s[k]) = w
        PROVE  Len(s) = Cardinality(A)
    <2>1. \A w \in A : \E k \in 1 .. Len(s) : f[k] = w
      BY <1>2, <1>9
    <2> HIDE DEF A, f
    <2>2. f \in Surjection(1 .. Len(s), A)
      BY <1>3, <2>1, Fun_IsSurj
    <2> QED BY <1>1, <1>5, <1>6, <2>2, FS_Injection
  <1> QED BY <1>1, <1>7, <1>8, <1>9

-----------------------------------------------------------------------------
(* The inductive invariant. *)

\* What the loop knows of the request: the ciphers before the one it is at are
\* reached and reject nothing, and it goes on only below the limit.
LoopInv ==
  /\ HitsInv /\ TriedInv
  /\ pc \in {"cipher", "pass", "ok"} =>
       /\ Accepts(req)
       /\ ci \in 1 .. Len(req.ciphers) + 1
       /\ \A i \in 1 .. ci - 1 : Contract!Reaches(req, i) /\ ~Rejects(req, i)
  /\ pc \in {"cipher", "pass"} /\ req.maxHits > 0 => Len(hits) < req.maxHits
  /\ pc = "pass" => ~Rejects(req, ci)
  /\ pc = "ok" => ci = Len(req.ciphers) + 1 \/ Capped(hits)
  /\ pc = "err" => Contract!Fails(req)

\* A hit of a cipher the loop has left behind is one that NoHitMissed is about.
LEMMA PastHit ==
  ASSUME HitsInv, NEW c \in DOMAIN req.ciphers, c < ci, NEW o \in Nat,
         Matches(req, c, o)
  PROVE  LET h == [cipher |-> c, offset |-> o]
         IN  h \in [cipher : 1 .. ci - 1, offset : 0 .. req.dumpLen] /\ IsPastHit(h)
  <1>1. /\ req \in Requests /\ req.ciphers \in Seq(Ciphers) /\ req.dumpLen \in Nat
        /\ ci \in Nat \ {0}
    BY RequestShape DEF HitsInv, PassInv, TypeOK
  <1>2. KeyLen[req.ciphers[c]] \in Nat \ {0}
    BY <1>1, RequestShape, LengthsAssumption
  <1>3. Windows(req, c) <= req.dumpLen
    BY <1>1, <1>2 DEF Windows
  <1>4. o < Windows(req, c) /\ Windows(req, c) \in Nat
    BY <1>1, WindowsNat DEF Matches
  <1>5. c \in 1 .. ci - 1 /\ o \in 0 .. req.dumpLen
    BY <1>1, <1>3, <1>4
  <1> QED BY <1>5 DEF IsPastHit

\* The hits listed in a state of the loop are counted by the contract.
LEMMA HitsCounted ==
  ASSUME HitsInv, pc \in {"cipher", "pass", "ok"},
         ci \in 1 .. Len(req.ciphers) + 1
  PROVE  LET A == Contract!AllHits(req, 1 .. ci - 1)
         IN  /\ IsFiniteSet(A) /\ Cardinality(A) \in Nat
             /\ Len(hits) <= Cardinality(A)
             /\ pc # "ok" \/ ~Capped(hits) => Len(hits) = Cardinality(A)
  <1>1. /\ req \in Requests /\ hits \in Seq(HitType) /\ req.ciphers \in Seq(Ciphers)
        /\ req.dumpLen \in Nat
    BY RequestShape DEF HitsInv, PassInv, TypeOK
  <1>2. /\ ci - 1 \in Nat /\ 1 .. ci - 1 \subseteq DOMAIN req.ciphers
    BY <1>1
  <1>3. /\ \A k, m \in DOMAIN hits : k < m => Precedes(hits[k], hits[m])
        /\ \A k \in DOMAIN hits : /\ hits[k].cipher \in 1 .. ci - 1
                                  /\ Matches(req, hits[k].cipher, hits[k].offset)
    BY SMTT(30), <1>1 DEF HitsInv, HitsExact, HitsInOrder, HitsSound, HitType
  <1> DEFINE A == Contract!AllHits(req, 1 .. ci - 1)
  <1>4. ASSUME pc # "ok" \/ ~Capped(hits), NEW w \in A
        PROVE  \E k \in DOMAIN hits : Contract!At(hits[k]) = w
    <2>1. w \in (1 .. ci - 1) \X Nat /\ Matches(req, w[1], w[2])
      BY <1>1, <1>2, AllHitsFinite
    <2>2. w[1] \in DOMAIN req.ciphers /\ w[1] < ci
      BY <1>2, <2>1
    <2>3. Listed([cipher |-> w[1], offset |-> w[2]])
      BY <1>4, <2>1, <2>2, PastHit DEF HitsInv, HitsExact, NoHitMissed
    <2> QED BY <2>1, <2>3 DEF Contract!At, Listed
  <1> QED BY <1>1, <1>2, <1>3, <1>4, CountHits

\* The cipher the loop is at is one the contract says it reaches.
LEMMA CurrentReached ==
  ASSUME LoopInv, pc \in {"cipher", "pass"}
  PROVE  Contract!Reaches(req, ci)
  <1>1. req \in Requests /\ req.maxHits \in Nat
    BY RequestShape DEF LoopInv, HitsInv, PassInv, TypeOK
  <1>2. HitsInv /\ ci \in 1 .. Len(req.ciphers) + 1
    BY DEF LoopInv
  <1>3. Len(hits) = Cardinality(Contract!AllHits(req, 1 .. ci - 1))
    BY <1>2, HitsCounted
  <1> QED BY <1>1, <1>3, SameCount DEF LoopInv, Contract!Reaches

\* The first state satisfies the invariant.
LEMMA InitLoopInv == Init => LoopInv
  BY InitHitsInv, InitTriedInv DEF Init, LoopInv

\* Every step keeps the invariant.
LEMMA NextLoopInv == LoopInv /\ [Next]_vars => LoopInv'
  <1> SUFFICES ASSUME LoopInv, [Next]_vars
               PROVE  LoopInv'
    OBVIOUS
  <1>1. HitsInv' /\ TriedInv'
    BY NextHitsInv, NextTriedInv DEF LoopInv
  <1>2. /\ req \in Requests /\ req.ciphers \in Seq(Ciphers) /\ ci \in Nat \ {0}
        /\ req.maxHits \in Nat
    BY RequestShape DEF LoopInv, HitsInv, PassInv, TypeOK
  <1>3. req' = req
    BY DEF Next, Validate, Skip, Reject, Begin, PassStep, Split, Start,
           LoadStop, Count, Verify, Join, Collect, Passing, Return, Done, vars
  <1>4. /\ Accepts(req)' = Accepts(req)
        /\ Contract!Fails(req)' = Contract!Fails(req)
        /\ \A i : /\ Rejects(req, i)' = Rejects(req, i)
                  /\ Contract!Reaches(req, i)' = Contract!Reaches(req, i)
    BY <1>3
  <1>5. CASE Validate
    <2>1. /\ pc = "validate" /\ ci = 1 /\ hits = <<>> /\ UNCHANGED <<ci, hits>>
          /\ pc' = IF Accepts(req) THEN "cipher" ELSE "err"
      BY <1>5 DEF Validate, LoopInv, HitsInv
    <2>2. ~Accepts(req) => Contract!Fails(req)
      BY SameInput DEF Contract!Fails
    <2>3. 1 .. ci - 1 = {} /\ Len(hits) = 0
      BY <2>1
    <2> QED BY <1>1, <1>2, <1>3, <1>4, <2>1, <2>2, <2>3 DEF LoopInv
  <1>6. CASE Skip
    <2>1. /\ pc = "cipher" /\ ci \in DOMAIN req.ciphers /\ Skips(req, ci)
          /\ ci' = ci + 1 /\ UNCHANGED <<pc, hits>>
      BY <1>6 DEF Skip, AtCipher
    <2>2. Contract!Reaches(req, ci) /\ ~Rejects(req, ci)
      BY <2>1, CurrentReached DEF Rejects
    <2>3. ci' \in 1 .. Len(req.ciphers) + 1 /\ 1 .. ci' - 1 = (1 .. ci - 1) \cup {ci}
      BY <1>2, <2>1
    <2> QED BY <1>1, <1>3, <1>4, <2>1, <2>2, <2>3 DEF LoopInv
  <1>7. CASE Reject
    <2>1. /\ pc = "cipher" /\ ci \in DOMAIN req.ciphers /\ Rejects(req, ci)
          /\ pc' = "err"
      BY <1>7 DEF Reject, AtCipher
    <2>2. Contract!Fails(req)
      BY <2>1, CurrentReached, SameInput DEF Contract!Fails, Contract!Reached
    <2> QED BY <1>1, <1>4, <2>1, <2>2 DEF LoopInv
  <1>8. CASE Begin
    <2>1. /\ pc = "cipher" /\ pc' = "pass" /\ ~Rejects(req, ci) /\ UNCHANGED <<ci, hits>>
      BY <1>8 DEF Begin, AtCipher
    <2> QED BY <1>1, <1>3, <1>4, <2>1 DEF LoopInv
  <1>9. ASSUME NEW j \in jobs, Collect(j)
        PROVE  LoopInv'
    <2> DEFINE all == hits \o HitsOf(ci, j.found)
    <2>1. /\ pc = "pass" /\ ci' = ci + 1
          /\ hits' = IF Capped(all) THEN SubSeq(all, 1, req.maxHits) ELSE all
          /\ pc' = IF Capped(all) THEN "ok" ELSE "cipher"
      BY <1>9 DEF Collect
    <2>2. ci \in DOMAIN req.ciphers /\ Contract!Reaches(req, ci) /\ ~Rejects(req, ci)
      BY <2>1, CurrentReached DEF LoopInv, HitsInv, PassInv, JobsNonempty
    <2>3. ci' \in 1 .. Len(req.ciphers) + 1 /\ 1 .. ci' - 1 = (1 .. ci - 1) \cup {ci}
      BY <1>2, <2>1, <2>2
    <2>4. Len(all) \in Nat
      <3>1. hits \in Seq(HitType) /\ j.found \in Seq(Nat)
        BY DEF LoopInv, HitsInv, PassInv, TypeOK, JobType
      <3>2. all \in Seq(HitType)
        BY <1>2, <3>1, HitsTyped
      <3> QED BY <3>2
    <2> HIDE DEF all
    <2>5. CASE Capped(all)
      <3>1. req.maxHits > 0 /\ Len(all) >= req.maxHits
        BY <2>5 DEF Capped
      <3>2. Len(hits') = req.maxHits
        BY <1>2, <2>1, <2>4, <2>5, <3>1
      <3>3. Capped(hits)'
        BY <1>2, <1>3, <3>1, <3>2 DEF Capped
      <3> QED BY <1>1, <1>3, <1>4, <2>1, <2>2, <2>3, <2>5, <3>3 DEF LoopInv
    <2>6. CASE ~Capped(all)
      <3>1. req.maxHits > 0 => Len(hits') < req.maxHits
        BY <1>2, <2>1, <2>4, <2>6 DEF Capped
      <3> QED BY <1>1, <1>3, <1>4, <2>1, <2>2, <2>3, <2>6, <3>1 DEF LoopInv
    <2> QED BY <2>5, <2>6
  <1>10. CASE Return
    <2>1. /\ pc = "cipher" /\ pc' = "ok" /\ ci \notin DOMAIN req.ciphers
          /\ UNCHANGED <<ci, hits>>
      BY <1>10 DEF Return
    <2>2. ci = Len(req.ciphers) + 1
      BY <1>2, <2>1 DEF LoopInv
    <2> QED BY <1>1, <1>3, <1>4, <2>1, <2>2 DEF LoopInv
  <1>11. CASE UNCHANGED <<pc, ci, hits>>
    BY <1>1, <1>3, <1>4, <1>11 DEF LoopInv, Capped
  <1>12. CASE PassStep
    BY <1>9, <1>11, <1>12 DEF PassStep, Split, Start, LoadStop, Count, Verify,
                              Join, Passing
  <1>13. CASE Done \/ UNCHANGED vars
    BY <1>11, <1>13 DEF Done, vars
  <1> QED BY <1>5, <1>6, <1>7, <1>8, <1>10, <1>12, <1>13 DEF Next

-----------------------------------------------------------------------------
(* The answer. *)

\* The answer of a call that has returned is the one of the contract.
AnswerRight ==
  /\ pc = "ok"  => Contract!Answers(req, Answer)
  /\ pc = "err" => Contract!Fails(req)

\* The ciphers that the contract says are reached are those the loop has left
\* behind when it returns.
LEMMA ReachedAtEnd ==
  ASSUME LoopInv, pc = "ok"
  PROVE  Contract!Reached(req) = 1 .. ci - 1
  <1>1. /\ req \in Requests /\ req.ciphers \in Seq(Ciphers) /\ ci \in Nat \ {0}
        /\ req.maxHits \in Nat /\ hits \in Seq(HitType)
        /\ ci \in 1 .. Len(req.ciphers) + 1
    BY RequestShape DEF LoopInv, HitsInv, PassInv, TypeOK
  <1>2. \A i \in 1 .. ci - 1 : i \in DOMAIN req.ciphers /\ Contract!Reaches(req, i)
    BY <1>1 DEF LoopInv
  <1>3. ASSUME NEW i \in DOMAIN req.ciphers, i \notin 1 .. ci - 1
        PROVE  ~Contract!Reaches(req, i)
    <2>1. i >= ci /\ ci - 1 \in Nat /\ ci # Len(req.ciphers) + 1
      BY <1>1, <1>3
    <2>2. req.maxHits > 0 /\ Len(hits) >= req.maxHits
      BY <2>1 DEF LoopInv, Capped
    <2> DEFINE A(n) == Contract!AllHits(req, 1 .. n)
    <2>3. Len(hits) <= Cardinality(A(ci - 1)) /\ Cardinality(A(ci - 1)) \in Nat
      BY <1>1, HitsCounted DEF LoopInv
    <2>4. 1 .. ci - 1 \subseteq DOMAIN req.ciphers /\ 1 .. i - 1 \subseteq DOMAIN req.ciphers
          /\ 1 .. ci - 1 \subseteq 1 .. i - 1
      BY <1>1, <2>1
    <2>5. IsFiniteSet(A(i - 1)) /\ A(ci - 1) \in SUBSET A(i - 1)
      <3>1. /\ IsFiniteSet(A(i - 1))
            /\ A(i - 1) = {w \in (1 .. i - 1) \X Nat : Matches(req, w[1], w[2])}
        BY <1>1, <2>4, AllHitsFinite
      <3>2. A(ci - 1) = {w \in (1 .. ci - 1) \X Nat : Matches(req, w[1], w[2])}
        BY <1>1, <2>4, AllHitsFinite
      <3> HIDE DEF A
      <3> QED BY <2>4, <3>1, <3>2
    <2> HIDE DEF A
    <2>6. Cardinality(A(ci - 1)) <= Cardinality(A(i - 1)) /\ Cardinality(A(i - 1)) \in Nat
      BY <2>5, FS_Subset, FS_CardinalityType
    <2>7. Len(hits) \in Nat
      BY <1>1
    <2>8. ~(Cardinality(A(i - 1)) < req.maxHits)
      BY <1>1, <2>2, <2>3, <2>6, <2>7
    <2> QED BY <2>2, <2>8, SameCount DEF Contract!Reaches, A
  <1> QED BY <1>2, <1>3 DEF Contract!Reached

\* The list of hits of a call that has returned is the one of the contract.
LEMMA HitsAtEnd ==
  ASSUME LoopInv, pc = "ok"
  PROVE  /\ Contract!InOrder(hits) /\ Contract!Sound(req, hits)
         /\ Contract!PrefixClosed(req, hits) /\ Contract!AsLong(req, hits)
  <1> DEFINE A == Contract!AllHits(req, DOMAIN req.ciphers)
  <1>1. /\ req \in Requests /\ req.ciphers \in Seq(Ciphers) /\ ci \in Nat \ {0}
        /\ req.maxHits \in Nat /\ hits \in Seq(HitType) /\ HitsInv
        /\ ci = Len(req.ciphers) + 1 \/ Capped(hits)
    BY RequestShape DEF LoopInv, HitsInv, PassInv, TypeOK
  <1>2. A = {w \in (DOMAIN req.ciphers) \X Nat : Matches(req, w[1], w[2])}
    BY <1>1, AllHitsFinite
  <1>3. \A n \in DOMAIN hits : hits[n].cipher \in Nat /\ hits[n].offset \in Nat
    <2>1. \A n \in DOMAIN hits : hits[n] \in HitType
      BY <1>1
    <2> QED BY <2>1 DEF HitType
  <1> HIDE DEF A
  <1>4. Contract!InOrder(hits)
    BY <1>1, <1>3 DEF Contract!InOrder, Contract!Before, Contract!At, HitsInv,
                      HitsExact, HitsInOrder, Precedes
  <1>5. Contract!Sound(req, hits)
    <2>1. \A n \in DOMAIN hits : <<hits[n].cipher, hits[n].offset>> \in A
      BY <1>1, <1>2, <1>3 DEF HitsInv, HitsExact, HitsSound
    <2> QED BY <2>1 DEF Contract!Sound, Contract!At, A
  <1>6. ASSUME NEW w \in A, w[1] < ci,
               ~\E n \in DOMAIN hits : Contract!At(hits[n]) = w
        PROVE  /\ Capped(hits)
               /\ \A n \in DOMAIN hits : ~Contract!Before(w, Contract!At(hits[n]))
    <2> DEFINE h == [cipher |-> w[1], offset |-> w[2]]
    <2>1. /\ w = <<w[1], w[2]>> /\ w[1] \in DOMAIN req.ciphers /\ w[2] \in Nat
          /\ Matches(req, w[1], w[2])
      BY <1>2
    <2>2. h \in [cipher : 1 .. ci - 1, offset : 0 .. req.dumpLen] /\ IsPastHit(h)
      BY <1>1, <1>6, <2>1, PastHit
    <2>3. ~Listed(h)
      BY <1>6, <2>1 DEF Listed, Contract!At
    <2>4. Capped(hits) /\ \A n \in DOMAIN hits : Precedes(hits[n], h)
      BY <1>1, <2>2, <2>3 DEF HitsInv, HitsExact, NoHitMissed
    <2>5. w[1] \in Nat
      BY <1>1, <2>1
    <2> QED BY <1>3, <2>1, <2>4, <2>5 DEF Contract!Before, Contract!At, Precedes
  <1>7. Contract!PrefixClosed(req, hits)
    <2> SUFFICES ASSUME NEW w \in A, NEW n \in DOMAIN hits,
                        Contract!Before(w, Contract!At(hits[n]))
                 PROVE  \E m \in DOMAIN hits : Contract!At(hits[m]) = w
      BY DEF Contract!PrefixClosed, A
    <2>1. hits[n].cipher < ci /\ w[1] <= hits[n].cipher
      BY <1>1, <1>2, <1>3 DEF HitsInv, HitsExact, HitsSound, Contract!Before, Contract!At
    <2>2. w[1] \in Nat
      BY <1>1, <1>2
    <2> QED BY <1>1, <1>3, <1>6, <2>1, <2>2
  <1>8. Contract!AsLong(req, hits)
    <2>1. Len(hits) \in Nat
      BY <1>1
    <2>2. CASE Capped(hits)
      BY <1>1, <2>1, <2>2 DEF HitsInv, HitsExact, NoHitMissed, Capped, Contract!AsLong
    <2>3. CASE ~Capped(hits)
      <3>1. \A w \in A : w[1] < ci
        BY <1>1, <1>2, <2>3
      <3>2. \A w \in A : \E n \in DOMAIN hits : Contract!At(hits[n]) = w
        BY <1>6, <2>3, <3>1
      <3> QED BY <1>1, <2>1, <2>3, <3>2 DEF Capped, Contract!AsLong, A
    <2> QED BY <2>2, <2>3
  <1> QED BY <1>4, <1>5, <1>7, <1>8

\* The number of candidates of a call that has returned is the one of the
\* contract.
LEMMA TriedAtEnd ==
  ASSUME LoopInv, pc = "ok"
  PROVE  tried = Contract!Cardinality(Contract!WindowsOf(req, Contract!Reached(req)))
  <1>1. Contract!WindowsOf(req, Contract!Reached(req)) = PastWindows(req, ci)
    BY ReachedAtEnd, FirstWindows
  <1>2. jobs = {}
    BY DEF LoopInv, HitsInv, PassInv, JobsExact
  <1>3. Tried = PastWindows(req, ci)
    <2>1. UNION {Counted(j) : j \in jobs} = {}
      BY <1>2
    <2> QED BY <2>1 DEF Tried
  <1>4. tried = Cardinality(Tried)
    BY DEF LoopInv, TriedInv, TriedExact
  <1> QED BY <1>1, <1>3, <1>4, SameCount

\* What the loop knows when it ends is what the contract asks of its answer.
LEMMA LoopInvAnswers == LoopInv => AnswerRight
  <1> SUFFICES ASSUME LoopInv
               PROVE  AnswerRight
    OBVIOUS
  <1>1. CASE pc = "ok"
    <2>1. Answer = [st |-> "ok", hits |-> hits, tried |-> tried]
      BY <1>1 DEF Answer
    <2>2. ~Contract!Fails(req)
      BY <1>1, ReachedAtEnd, SameInput DEF LoopInv, Contract!Fails
    <2> QED BY <1>1, <2>1, <2>2, HitsAtEnd, TriedAtEnd DEF AnswerRight, Contract!Answers
  <1>2. CASE pc # "ok"
    BY <1>2 DEF AnswerRight, LoopInv
  <1> QED BY <1>1, <1>2

-----------------------------------------------------------------------------
(* The theorems. *)

\* The loop knows at every moment what it needs for its answer.
THEOREM LoopInvariant == Spec => []LoopInv
  <1>1. Init => LoopInv
    BY InitLoopInv
  <1>2. LoopInv /\ [Next]_vars => LoopInv'
    BY NextLoopInv
  <1> QED BY <1>1, <1>2, PTL DEF Spec

\* Whatever rayon does, a call that has returned gives the hits and the number
\* of candidates that its request determines, or the error it determines.
THEOREM AnswerRightAlways == Spec => []AnswerRight
  <1> QED BY LoopInvariant, LoopInvAnswers, PTL

\* The engine implements its contract: one step gives the answer that the
\* request alone determines, and no later step changes it.
THEOREM EngineImplementsContract == Spec => ImplementsContract
  <1>1. Init => Contract!Init
    BY DEF Init, Contract!Init, Answer, Contract!Pending
  <1>2. AnswerRight' /\ [Next]_vars => [Contract!Deliver]_<<req, Answer>>
    <2> SUFFICES ASSUME AnswerRight', [Next]_vars, ~UNCHANGED <<req, Answer>>
                 PROVE  Contract!Deliver
      OBVIOUS
    <2>1. req' = req
      BY DEF Next, Validate, Skip, Reject, Begin, PassStep, Split, Start,
             LoadStop, Count, Verify, Join, Collect, Passing, Return, Done, vars
    <2>2. pc \notin {"ok", "err"}
      <3> SUFFICES ASSUME pc \in {"ok", "err"} PROVE FALSE
        OBVIOUS
      <3>1. UNCHANGED <<pc, hits, tried>>
        BY DEF Next, Validate, Skip, Reject, Begin, AtCipher, PassStep, Split,
               Start, LoadStop, Count, Verify, Join, Collect, Passing, Return,
               Done, vars
      <3> QED BY <2>1, <3>1 DEF Answer
    <2>3. Answer = Contract!Pending
      BY <2>2 DEF Answer, Contract!Pending
    <2>4. pc' \in {"ok", "err"}
      <3> SUFFICES ASSUME pc' \notin {"ok", "err"} PROVE FALSE
        OBVIOUS
      <3>1. Answer' = [st |-> "pending"]
        BY DEF Answer
      <3> QED BY <2>1, <2>3, <3>1 DEF Contract!Pending
    <2>5. CASE pc' = "ok"
      <3>1. Answer' = [st |-> "ok", hits |-> hits', tried |-> tried']
        BY <2>5 DEF Answer
      <3>2. Answer'.st = "ok"
        BY <3>1
      <3>3. Answer' # Contract!Pending
        BY <3>2 DEF Contract!Pending
      <3>4. Contract!Answers(req, Answer')
        BY <2>1, <2>5 DEF AnswerRight
      <3> QED BY <2>1, <2>3, <3>3, <3>4 DEF Contract!Deliver
    <2>6. CASE pc' = "err"
      <3>1. Answer' = [st |-> "err"]
        BY <2>6 DEF Answer
      <3>2. Answer'.st = "err"
        BY <3>1
      <3>3. Answer' # Contract!Pending
        BY <3>2 DEF Contract!Pending
      <3>4. Contract!Answers(req, Answer')
        BY <2>1, <2>6, <3>1 DEF AnswerRight, Contract!Answers, Contract!Error
      <3> QED BY <2>1, <2>3, <3>3, <3>4 DEF Contract!Deliver
    <2> QED BY <2>4, <2>5, <2>6
  <1> QED BY <1>1, <1>2, AnswerRightAlways, PTL
          DEF Spec, ImplementsContract, Contract!Spec
=============================================================================
