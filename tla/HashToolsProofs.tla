--------------------------- MODULE HashToolsProofs ---------------------------
(***************************************************************************)
(* What holds of the two hash searches and of their callers for every      *)
(* list of algorithms, range of lengths, dump and limit: the lists that    *)
(* the pushes and the flattening make, the order of the hits, and the      *)
(* invariant ToolInv of HashTools.                                         *)
(***************************************************************************)
EXTENDS HashTools, CommonLemmas, SequenceTheorems, TLAPS

-----------------------------------------------------------------------------
(* The lengths of a pass. *)

\* The list of the lengths is the one that the pushes leave.
LEMMA PushedExists ==
  ASSUME NEW c, RangeLengths(c) \in Seq(Nat)
  PROVE  \E f :
           /\ f[0] = RangeLengths(c)
           /\ \A n \in 1 .. Len(FixedLens) :
                f[n] = IF Contains(f[n - 1], FixedLens[n])
                       THEN f[n - 1] ELSE Append(f[n - 1], FixedLens[n])
           /\ c.kind # "preimage" => Lengths(c) = f[Len(FixedLens)]
<1> DEFINE N == Len(FixedLens)
           Push(n, s) == IF Contains(s, FixedLens[n]) THEN s ELSE Append(s, FixedLens[n])
           h == [n \in 1 .. N |-> [s \in Seq(Nat) |-> Push(n, s)]]
           Body(f) == [n \in 0 .. N |-> IF n = 0 THEN RangeLengths(c) ELSE Push(n, f[n - 1])]
<1>1. N \in Nat /\ \A n \in 1 .. N : FixedLens[n] \in Nat
  BY FixedLensAssumption
<1>2. \A n \in 1 .. N, s \in Seq(Nat) : Push(n, s) \in Seq(Nat)
  BY <1>1
<1>3. \A n \in 1 .. N, s \in Seq(Nat) : h[n][s] = Push(n, s)
  OBVIOUS
<1>4. h \in [1 .. N -> [Seq(Nat) -> Seq(Nat)]]
  BY <1>2
<1> HIDE DEF h
<1>5. \E f \in [0 .. N -> Seq(Nat)] :
         f[0] = RangeLengths(c) /\ \A n \in 1 .. N : f[n] = h[n][f[n - 1]]
  <2> DEFINE S == Seq(Nat)
             a == RangeLengths(c)
  <2>1. N \in Nat /\ a \in S /\ h \in Steps(N, S)
    BY <1>1, <1>4 DEF Steps
  <2> HIDE DEF N, S, a
  <2>2. \E f \in [0 .. N -> S] : Iterated(f, N, a, h)
    BY <2>1, Iterates
  <2> QED
    BY <2>2 DEF S, a, Iterated
<1> HIDE DEF Push
<1>6. PICK g \in [0 .. N -> Seq(Nat)] : g = Body(g)
  <2>1. PICK g \in [0 .. N -> Seq(Nat)] :
         g[0] = RangeLengths(c) /\ \A n \in 1 .. N : g[n] = h[n][g[n - 1]]
    BY <1>5
  <2> HIDE DEF N
  <2>2. ASSUME NEW n \in 1 .. N PROVE g[n] = Push(n, g[n - 1])
    <3>1. n - 1 \in 0 .. N
      BY <1>1
    <3>2. g[n - 1] \in Seq(Nat)
      BY <2>1, <3>1
    <3> QED
      BY <1>3, <2>1, <3>2
  <2>3. \A n \in 0 .. N : g[n] = IF n = 0 THEN RangeLengths(c) ELSE Push(n, g[n - 1])
    BY <1>1, <2>1, <2>2
  <2> QED
    BY <2>3
<1> DEFINE p == CHOOSE f : f = Body(f)
<1>7. p = Body(p)
  <2>1. \E f : f = Body(f)
    BY <1>6
  <2> HIDE DEF Body
  <2> QED
    BY Zenon, <2>1
<1>8. c.kind # "preimage" => Lengths(c) = p[N]
  BY Zenon DEF Lengths, Push
<1> HIDE DEF p
<1>9. p[0] = RangeLengths(c) /\ \A n \in 1 .. N : p[n] = Push(n, p[n - 1])
  <2> DEFINE q == Body(p)
  <2>1. p = q
    BY <1>7
  <2>2. q[0] = RangeLengths(c) /\ \A n \in 1 .. N : q[n] = Push(n, p[n - 1])
    BY <1>1
  <2> HIDE DEF q
  <2> QED
    BY Zenon, <2>1, <2>2
<1> QED
  BY Zenon, <1>8, <1>9 DEF Push

\* The rank of a length of the range, and of a fixed one outside it.
LEMMA RankFacts ==
  ASSUME NEW c, c.min \in Nat, c.max \in Nat
  PROVE  /\ \A l \in c.min .. c.max : Rank(c, l) = l
         /\ \A n \in DOMAIN FixedLens :
              FixedLens[n] \notin c.min .. c.max => Rank(c, FixedLens[n]) = c.max + n
<1>1. \A l \in c.min .. c.max : Rank(c, l) = l
  BY DEF Rank
<1>2. ASSUME NEW n \in DOMAIN FixedLens, FixedLens[n] \notin c.min .. c.max
      PROVE  Rank(c, FixedLens[n]) = c.max + n
  <2>1. (CHOOSE m \in DOMAIN FixedLens : FixedLens[m] = FixedLens[n]) = n
    BY FixedLensAssumption
  <2> QED
    BY <1>2, <2>1 DEF Rank
<1> QED
  BY <1>1, <1>2

\* The range of lengths, in order.
LEMMA RangeFacts ==
  ASSUME NEW c, c.min \in Nat, c.max \in Nat
  PROVE  /\ RangeLengths(c) \in Seq(Nat)
         /\ \A k \in DOMAIN RangeLengths(c) : RangeLengths(c)[k] \in c.min .. c.max
         /\ \A l \in c.min .. c.max :
              \E k \in DOMAIN RangeLengths(c) : RangeLengths(c)[k] = l
         /\ \A k, m \in DOMAIN RangeLengths(c) :
              k < m => RangeLengths(c)[k] < RangeLengths(c)[m]
<1> DEFINE n == c.max - c.min + 1
           s == [k \in 1 .. n |-> c.min + k - 1]
<1>1. n \in Int /\ s = RangeLengths(c)
  BY DEF RangeLengths
<1>2. s \in Seq(Nat)
  <2>1. CASE n \in Nat
    <3>1. s \in [1 .. n -> Nat]
      OBVIOUS
    <3> HIDE DEF s, n
    <3> QED
      BY <2>1, <3>1
  <2>2. CASE n < 0
    <3>1. s \in [1 .. 0 -> Nat]
      BY <2>2
    <3> HIDE DEF s
    <3> QED
      BY <3>1
  <2> HIDE DEF n
  <2> QED
    BY <1>1, <2>1, <2>2
<1>3. \A k \in DOMAIN s : s[k] \in c.min .. c.max
  OBVIOUS
<1>4. ASSUME NEW l \in c.min .. c.max PROVE \E k \in DOMAIN s : s[k] = l
  <2>1. l - c.min + 1 \in DOMAIN s /\ s[l - c.min + 1] = l
    OBVIOUS
  <2> QED
    BY <2>1
<1>5. \A k, m \in DOMAIN s : k < m => s[k] < s[m]
  OBVIOUS
<1> HIDE DEF s
<1> QED
  BY <1>1, <1>2, <1>3, <1>4, <1>5

\* s lists the lengths L by rank.
ByRank(c, s, L) ==
  /\ s \in Seq(Nat)
  /\ \A k \in DOMAIN s : s[k] \in L
  /\ \A l \in L : \E k \in DOMAIN s : s[k] = l
  /\ \A k, m \in DOMAIN s : k < m => Rank(c, s[k]) < Rank(c, s[m])

\* The range and the first n fixed lengths.
FirstLengths(c, n) == (c.min .. c.max) \cup {FixedLens[m] : m \in 1 .. n}

\* A push keeps the order.
LEMMA PushKeeps ==
  ASSUME NEW c, c.min \in Nat, c.max \in Nat, NEW n \in 1 .. Len(FixedLens),
         NEW s, ByRank(c, s, FirstLengths(c, n - 1)), NEW u,
         u = IF Contains(s, FixedLens[n]) THEN s ELSE Append(s, FixedLens[n])
  PROVE  ByRank(c, u, FirstLengths(c, n))
<1> DEFINE L == FirstLengths(c, n - 1)
           l == FixedLens[n]
<1>1. /\ l \in Nat /\ n \in DOMAIN FixedLens /\ FirstLengths(c, n) = L \cup {l}
  BY FixedLensAssumption DEF FirstLengths
<1>2. /\ s \in Seq(Nat) /\ \A k \in DOMAIN s : s[k] \in L
      /\ \A d \in L : \E k \in DOMAIN s : s[k] = d
      /\ \A k, m \in DOMAIN s : k < m => Rank(c, s[k]) < Rank(c, s[m])
  BY DEF ByRank
<1>3. Contains(s, l) <=> l \in L
  <2>1. DOMAIN s = 1 .. Len(s)
    BY <1>2
  <2> HIDE DEF L, l
  <2> QED
    BY <1>2, <2>1 DEF Contains
<1>4. CASE l \in L
  <2>1. u = s /\ FirstLengths(c, n) = L
    BY <1>1, <1>3, <1>4
  <2> QED
    BY <2>1
<1>5. CASE l \notin L
  <2>1. u = Append(s, l)
    BY <1>3, <1>5
  <2>2. l \notin c.min .. c.max
    BY <1>5 DEF FirstLengths
  <2>3. Rank(c, l) = c.max + n
    BY <1>1, <2>2, RankFacts
  <2>4. ASSUME NEW d \in L PROVE Rank(c, d) < Rank(c, l)
    <3>1. CASE d \in c.min .. c.max
      <4>1. Rank(c, d) = d
        BY <3>1, RankFacts
      <4> QED
        BY <2>3, <3>1, <4>1
    <3>2. CASE d \notin c.min .. c.max
      <4>1. PICK m \in 1 .. n - 1 : d = FixedLens[m]
        BY <3>2 DEF FirstLengths
      <4>2. m \in DOMAIN FixedLens
        BY <1>1, FixedLensAssumption
      <4>3. Rank(c, d) = c.max + m
        BY <3>2, <4>1, <4>2, RankFacts
      <4> QED
        BY <2>3, <4>3
    <3> QED
      BY <3>1, <3>2
  <2> HIDE DEF L, l
  <2>5. /\ u \in Seq(Nat) /\ DOMAIN u = 1 .. Len(s) + 1 /\ Len(s) \in Nat
        /\ DOMAIN s = 1 .. Len(s) /\ u[Len(s) + 1] = l
        /\ \A k \in DOMAIN s : u[k] = s[k]
    <3>1. s \in Seq(Nat) /\ l \in Nat
      BY <1>1, <1>2
    <3> QED
      BY SMTT(30), <2>1, <3>1
  <2>6. \A k \in DOMAIN u : k \in DOMAIN s \/ k = Len(s) + 1
    BY <2>5
  <2>7. \A k \in DOMAIN u : u[k] \in L \cup {l}
    BY <1>2, <2>5, <2>6
  <2>8. \A d \in L \cup {l} : \E k \in DOMAIN u : u[k] = d
    <3>1. \A k \in DOMAIN s : k \in DOMAIN u /\ u[k] = s[k]
      BY <2>5
    <3>2. Len(s) + 1 \in DOMAIN u /\ u[Len(s) + 1] = l
      BY <2>5
    <3> QED
      BY Zenon, <1>2, <3>1, <3>2
  <2>9. ASSUME NEW k \in DOMAIN u, NEW m \in DOMAIN u, k < m
        PROVE  Rank(c, u[k]) < Rank(c, u[m])
    <3>1. k \in DOMAIN s
      BY <2>5, <2>9
    <3>2. CASE m \in DOMAIN s
      BY <1>2, <2>5, <2>9, <3>1, <3>2
    <3>3. CASE m = Len(s) + 1
      BY <1>2, <2>4, <2>5, <3>1, <3>3
    <3> QED
      BY <2>6, <3>2, <3>3
  <2> QED
    BY <1>1, <2>5, <2>7, <2>8, <2>9 DEF ByRank
<1> QED
  BY <1>4, <1>5

\* The lengths of a pass by rank, each once.
LEMMA LengthsFacts ==
  ASSUME NEW c, c.kind \in {"preimage", "hmac"}, c.min \in Nat, c.max \in Nat
  PROVE  ByRank(c, Lengths(c), LengthSet(c))
<1>1. ByRank(c, RangeLengths(c), c.min .. c.max)
  <2> DEFINE s == RangeLengths(c)
  <2>1. /\ s \in Seq(Nat) /\ \A k \in DOMAIN s : s[k] \in c.min .. c.max
        /\ \A l \in c.min .. c.max : \E k \in DOMAIN s : s[k] = l
        /\ \A k, m \in DOMAIN s : k < m => s[k] < s[m]
    BY RangeFacts
  <2>2. \A l \in c.min .. c.max : Rank(c, l) = l
    BY RankFacts
  <2> HIDE DEF s
  <2>3. \A k, m \in DOMAIN s : k < m => Rank(c, s[k]) < Rank(c, s[m])
    BY <2>1, <2>2
  <2> QED
    BY <2>1, <2>3 DEF ByRank, s
<1>2. CASE c.kind = "preimage"
  <2>1. Lengths(c) = RangeLengths(c) /\ LengthSet(c) = c.min .. c.max
    BY <1>2 DEF Lengths, LengthSet
  <2> QED
    BY <1>1, <2>1
<1>3. CASE c.kind = "hmac"
  <2> DEFINE N == Len(FixedLens)
  <2>0. N \in Nat /\ DOMAIN FixedLens = 1 .. N
    BY FixedLensAssumption
  <2>1. PICK f : /\ f[0] = RangeLengths(c)
                 /\ \A n \in 1 .. N :
                      f[n] = IF Contains(f[n - 1], FixedLens[n])
                             THEN f[n - 1] ELSE Append(f[n - 1], FixedLens[n])
                 /\ c.kind # "preimage" => Lengths(c) = f[N]
    <3>1. RangeLengths(c) \in Seq(Nat)
      BY RangeFacts
    <3> QED
      BY <3>1, PushedExists
  <2> DEFINE T == {n \in Nat : n <= N => ByRank(c, f[n], FirstLengths(c, n))}
  <2>2. 0 \in T
    <3>1. FirstLengths(c, 0) = c.min .. c.max
      BY DEF FirstLengths
    <3> QED
      BY <1>1, <2>1, <3>1
  <2>3. \A n \in Nat : n \in T => n + 1 \in T
    <3> SUFFICES ASSUME NEW n \in Nat, n \in T, n + 1 <= N
                 PROVE  ByRank(c, f[n + 1], FirstLengths(c, n + 1))
      OBVIOUS
    <3>1. n <= N /\ n + 1 \in 1 .. N /\ (n + 1) - 1 = n
      BY <2>0
    <3>2. ByRank(c, f[(n + 1) - 1], FirstLengths(c, (n + 1) - 1))
      BY <3>1
    <3>3. f[n + 1] = IF Contains(f[(n + 1) - 1], FixedLens[n + 1])
                     THEN f[(n + 1) - 1] ELSE Append(f[(n + 1) - 1], FixedLens[n + 1])
      BY <2>1, <3>1
    <3> QED
      BY <3>1, <3>2, <3>3, PushKeeps
  <2>4. N \in T
    <3> HIDE DEF T
    <3> QED
      BY <2>0, <2>2, <2>3, SetInduction
  <2>5. FirstLengths(c, N) = LengthSet(c)
    BY <1>3, <2>0 DEF FirstLengths, LengthSet, ToSet
  <2> QED
    BY <1>3, <2>0, <2>1, <2>4, <2>5
<1> QED
  BY <1>2, <1>3

-----------------------------------------------------------------------------
(* A sequence of sequences in one. *)

\* s is ordered by R.
InOrder(s, R) == \A k, m \in DOMAIN s : k < m => <<s[k], s[m]>> \in R

\* s lists the elements of the first n of ss, ordered by R.
Flattened(s, ss, n, R, S) ==
  /\ s \in Seq(S)
  /\ \A k \in 1 .. n : \A i \in DOMAIN ss[k] : \E m \in DOMAIN s : s[m] = ss[k][i]
  /\ \A m \in DOMAIN s : \E k \in 1 .. n : \E i \in DOMAIN ss[k] : s[m] = ss[k][i]
  /\ InOrder(s, R)

\* w is s and then u.
Joined(w, s, u) ==
  /\ \A k \in DOMAIN s : k \in DOMAIN w /\ w[k] = s[k]
  /\ \A k \in DOMAIN u : Len(s) + k \in DOMAIN w /\ w[Len(s) + k] = u[k]
  /\ \A m \in DOMAIN w : m \in DOMAIN s \/ \E k \in DOMAIN u : m = Len(s) + k

\* Two lists, one behind the other, are in order if each element of the first
\* is before each one of the second.
LEMMA CatOrder ==
  ASSUME NEW S, NEW s \in Seq(S), NEW u \in Seq(S), NEW R, InOrder(s, R), InOrder(u, R),
         \A k \in DOMAIN s, m \in DOMAIN u : <<s[k], u[m]>> \in R
  PROVE  /\ s \o u \in Seq(S) /\ Len(s \o u) = Len(s) + Len(u)
         /\ Joined(s \o u, s, u) /\ InOrder(s \o u, R)
<1> USE DEF InOrder
<1> DEFINE w == s \o u
           a == Len(s)
           b == Len(u)
<1>1. /\ a \in Nat /\ b \in Nat /\ DOMAIN s = 1 .. a /\ DOMAIN u = 1 .. b
      /\ w \in Seq(S) /\ Len(w) = a + b /\ DOMAIN w = 1 .. a + b
  OBVIOUS
<1>2. \A k \in 1 .. a + b : w[k] = IF k <= a THEN s[k] ELSE u[k - a]
  OBVIOUS
<1> HIDE DEF w, a, b
<1>3. \A k \in 1 .. a : k \in 1 .. a + b /\ w[k] = s[k]
  BY <1>1, <1>2
<1>4. ASSUME NEW k \in 1 .. b PROVE a + k \in 1 .. a + b /\ w[a + k] = u[k]
  <2>1. a + k \in 1 .. a + b /\ ~(a + k <= a) /\ (a + k) - a = k
    BY <1>1
  <2> QED
    BY <1>2, <2>1
<1>5. ASSUME NEW m \in 1 .. a + b, m \notin 1 .. a
      PROVE  \E k \in 1 .. b : m = a + k
  <2>1. m - a \in 1 .. b /\ m = a + (m - a)
    BY <1>1, <1>5
  <2> QED
    BY <2>1
<1>6. ASSUME NEW k \in 1 .. a + b, NEW m \in 1 .. a + b, k < m
      PROVE  <<w[k], w[m]>> \in R
  <2>1. CASE m \in 1 .. a
    <3>1. k \in 1 .. a
      BY <1>1, <1>6, <2>1
    <3> QED
      BY <1>1, <1>3, <1>6, <2>1, <3>1
  <2>2. CASE m \notin 1 .. a
    <3>1. PICK j \in 1 .. b : m = a + j
      BY <1>5, <2>2
    <3>2. CASE k \in 1 .. a
      BY <1>1, <1>3, <1>4, <3>1, <3>2
    <3>3. CASE k \notin 1 .. a
      <4>1. PICK i \in 1 .. b : k = a + i
        BY <1>5, <3>3
      <4>2. i < j
        BY <1>1, <1>6, <3>1, <4>1
      <4> QED
        BY <1>1, <1>4, <3>1, <4>1, <4>2
    <3> QED
      BY <3>2, <3>3
  <2> QED
    BY <2>1, <2>2
<1> QED
  BY <1>1, <1>3, <1>4, <1>5, <1>6 DEF w, a, b, Joined

\* FlattenSeq adds one sequence after the other.
LEMMA FlattenIterates ==
  ASSUME NEW S, NEW ss \in Seq(Seq(S)), ss # <<>>
  PROVE  \E f : /\ f[1] = ss[1]
                /\ \A n \in 2 .. Len(ss) : f[n] = f[n - 1] \o ss[n]
                /\ FlattenSeq(ss) = f[Len(ss)]
<1> DEFINE N == Len(ss)
           h == [n \in 1 .. N |-> [s \in Seq(S) |-> s \o ss[n]]]
           Body(f) == [i \in 1 .. N |-> IF i = 1 THEN ss[i] ELSE f[i - 1] \o ss[i]]
<1>1. N \in Nat \ {0} /\ \A n \in 1 .. N : ss[n] \in Seq(S)
  OBVIOUS
<1>2. h \in Steps(N, Seq(S)) /\ \A n \in 1 .. N, s \in Seq(S) : h[n][s] = s \o ss[n]
  BY <1>1 DEF Steps
<1> HIDE DEF h
<1>3. \E f \in [0 .. N -> Seq(S)] : Iterated(f, N, <<>>, h)
  <2> DEFINE Q == Seq(S)
             a == <<>>
  <2>1. N \in Nat /\ a \in Q /\ h \in Steps(N, Q)
    BY <1>1, <1>2
  <2> HIDE DEF N, Q, a
  <2>2. \E f \in [0 .. N -> Q] : Iterated(f, N, a, h)
    BY <2>1, Iterates
  <2> QED
    BY <2>2 DEF Q, a
<1>4. \E f : f = Body(f)
  <2>1. PICK f \in [0 .. N -> Seq(S)] : Iterated(f, N, <<>>, h)
    BY <1>3
  <2> HIDE DEF N
  <2>2. ASSUME NEW n \in 1 .. N PROVE f[n] = f[n - 1] \o ss[n]
    <3>1. n - 1 \in 0 .. N
      BY <1>1
    <3>2. f[n - 1] \in Seq(S) /\ f[n] = h[n][f[n - 1]]
      BY <2>1, <3>1 DEF Iterated
    <3> QED
      BY <1>2, <3>2
  <2>3. f[1] = ss[1]
    <3>1. f[0] = <<>> /\ f[1] = f[0] \o ss[1] /\ ss[1] \in Seq(S)
      <4>1. 1 \in 1 .. N /\ 1 - 1 = 0
        BY <1>1
      <4>2. f[1] = f[1 - 1] \o ss[1]
        BY <2>2, <4>1
      <4> QED
        BY <1>1, <2>1, <4>1, <4>2 DEF Iterated
    <3> QED
      BY <3>1
  <2> DEFINE g == [i \in 1 .. N |-> f[i]]
  <2>4. \A i \in 1 .. N : g[i] = f[i] /\ (i # 1 => g[i - 1] = f[i - 1])
    BY <1>1
  <2> HIDE DEF g
  <2>5. \A i \in 1 .. N : f[i] = IF i = 1 THEN ss[i] ELSE g[i - 1] \o ss[i]
    BY <2>2, <2>3, <2>4
  <2>6. g = Body(g)
    BY <2>5 DEF g
  <2> QED
    BY <2>6
<1> DEFINE p == CHOOSE f : f = Body(f)
<1>5. p = Body(p)
  <2> HIDE DEF Body
  <2> QED
    BY Zenon, <1>4
<1>6. FlattenSeq(ss) = p[N]
  <2>1. Len(ss) # 0
    BY <1>1
  <2> QED
    BY Zenon, <2>1 DEF FlattenSeq
<1> HIDE DEF p
<1>7. p[1] = ss[1] /\ \A n \in 2 .. N : p[n] = p[n - 1] \o ss[n]
  <2> DEFINE q == Body(p)
  <2>1. p = q
    BY <1>5
  <2> HIDE DEF N
  <2>2. \A i \in 1 .. N : q[i] = IF i = 1 THEN ss[i] ELSE p[i - 1] \o ss[i]
    OBVIOUS
  <2> HIDE DEF q
  <2>3. 1 \in 1 .. N /\ \A n \in 2 .. N : n \in 1 .. N /\ n # 1
    BY <1>1
  <2> QED
    BY Zenon, <2>1, <2>2, <2>3
<1> QED
  BY Zenon, <1>6, <1>7

\* If the sequences are in order and one behind the other, so is the whole.
LEMMA FlattenFacts ==
  ASSUME NEW S, NEW ss \in Seq(Seq(S)), NEW R,
         \A k \in DOMAIN ss : InOrder(ss[k], R),
         \A k, m \in DOMAIN ss : k < m =>
           \A i \in DOMAIN ss[k], j \in DOMAIN ss[m] : <<ss[k][i], ss[m][j]>> \in R
  PROVE  Flattened(FlattenSeq(ss), ss, Len(ss), R, S)
<1> DEFINE N == Len(ss)
<1>1. N \in Nat /\ DOMAIN ss = 1 .. N /\ \A n \in 1 .. N : ss[n] \in Seq(S)
  OBVIOUS
<1>2. CASE ss = <<>>
  <2>1. FlattenSeq(ss) = <<>> /\ N = 0
    BY <1>2 DEF FlattenSeq
  <2> QED
    BY <2>1 DEF Flattened, InOrder
<1>3. CASE ss # <<>>
  <2>1. PICK f : /\ f[1] = ss[1]
                 /\ \A n \in 2 .. N : f[n] = f[n - 1] \o ss[n]
                 /\ FlattenSeq(ss) = f[N]
    BY <1>3, FlattenIterates
  <2>2. N # 0
    BY <1>3
  <2> HIDE DEF N
  <2> DEFINE T == {n \in Nat : n + 1 <= N => Flattened(f[n + 1], ss, n + 1, R, S)}
  <2>3. 0 \in T
    <3>1. ss[1] \in Seq(S) /\ 1 \in DOMAIN ss /\ f[0 + 1] = ss[1]
      BY <1>1, <2>1, <2>2
    <3>2. Flattened(ss[1], ss, 1, R, S)
      BY <3>1 DEF Flattened
    <3> QED
      BY <3>1, <3>2
  <2>4. ASSUME NEW n \in Nat, n \in T, (n + 1) + 1 <= N
        PROVE  Flattened(f[(n + 1) + 1], ss, (n + 1) + 1, R, S)
    <3> DEFINE a == n + 1
               b == (n + 1) + 1
               s == f[a]
               u == ss[b]
    <3>1. /\ a \in 1 .. N /\ b \in 2 .. N /\ b - 1 = a /\ a \in Nat /\ b = a + 1
          /\ a <= N
      BY <1>1, <2>4
    <3>2. Flattened(s, ss, a, R, S) /\ f[b] = s \o u /\ u \in Seq(S)
      <4>1. Flattened(f[a], ss, a, R, S)
        BY <2>4, <3>1
      <4> HIDE DEF a, b
      <4>2. f[b] = f[b - 1] \o ss[b] /\ b - 1 = a /\ b \in 1 .. N
        <5>1. b - 1 = a /\ b \in 1 .. N /\ b \in 2 .. N
          BY <1>1, <3>1
        <5> QED
          BY Zenon, <2>1, <5>1
      <4>3. ss[b] \in Seq(S)
        BY <1>1, <4>2
      <4> QED
        BY <4>1, <4>2, <4>3
    <3> HIDE DEF a, b
    <3>3. /\ s \in Seq(S) /\ InOrder(s, R)
          /\ \A k \in 1 .. a : \A i \in DOMAIN ss[k] : \E m \in DOMAIN s : s[m] = ss[k][i]
          /\ \A m \in DOMAIN s : \E k \in 1 .. a : \E i \in DOMAIN ss[k] : s[m] = ss[k][i]
      BY <3>2 DEF Flattened
    <3>4. InOrder(u, R)
      BY <1>1, <3>1
    <3>5. \A k \in DOMAIN s, m \in DOMAIN u : <<s[k], u[m]>> \in R
      <4> SUFFICES ASSUME NEW k \in DOMAIN s, NEW m \in DOMAIN u
                   PROVE  <<s[k], u[m]>> \in R
        OBVIOUS
      <4>1. PICK j \in 1 .. a : \E i \in DOMAIN ss[j] : s[k] = ss[j][i]
        BY <3>3
      <4>2. j \in DOMAIN ss /\ b \in DOMAIN ss /\ j < b
        BY <1>1, <3>1
      <4> QED
        BY <4>1, <4>2
    <3> DEFINE w == s \o u
    <3> HIDE DEF s, u
    <3>6. w \in Seq(S) /\ InOrder(w, R) /\ Joined(w, s, u)
      <4>1. /\ s \in Seq(S) /\ u \in Seq(S) /\ InOrder(s, R) /\ InOrder(u, R)
            /\ \A k \in DOMAIN s, m \in DOMAIN u : <<s[k], u[m]>> \in R
        BY <3>2, <3>3, <3>4, <3>5
      <4> QED
        BY <4>1, CatOrder
    <3> HIDE DEF w
    <3>7. \A k \in 1 .. b : k \in 1 .. a \/ k = b
      BY <3>1
    <3>8. ASSUME NEW k \in 1 .. b, NEW i \in DOMAIN ss[k]
          PROVE  \E m \in DOMAIN w : w[m] = ss[k][i]
      <4>1. CASE k \in 1 .. a
        BY <3>3, <3>6, <4>1 DEF Joined
      <4>2. CASE k = b
        BY <3>6, <4>2 DEF u, Joined
      <4> QED
        BY <3>7, <4>1, <4>2
    <3>9. \A m \in DOMAIN w : \E k \in 1 .. b : \E i \in DOMAIN ss[k] : w[m] = ss[k][i]
      <4> SUFFICES ASSUME NEW m \in DOMAIN w
                   PROVE  \E k \in 1 .. b : \E i \in DOMAIN ss[k] : w[m] = ss[k][i]
        OBVIOUS
      <4>1. CASE m \in DOMAIN s
        <5>1. w[m] = s[m] /\ \A k \in 1 .. a : k \in 1 .. b
          BY <3>1, <3>6, <4>1 DEF Joined
        <5>2. PICK k \in 1 .. a : \E i \in DOMAIN ss[k] : s[m] = ss[k][i]
          BY <3>3, <4>1
        <5>3. PICK i \in DOMAIN ss[k] : s[m] = ss[k][i]
          BY <5>2
        <5>4. k \in 1 .. b /\ w[m] = ss[k][i]
          BY <5>1, <5>3
        <5> QED
          BY <5>4
      <4>2. CASE \E k \in DOMAIN u : m = Len(s) + k
        <5>1. PICK k \in DOMAIN u : m = Len(s) + k
          BY <4>2
        <5>2. w[m] = u[k] /\ b \in 1 .. b
          BY <3>1, <3>6, <5>1 DEF Joined
        <5>3. k \in DOMAIN ss[b] /\ w[m] = ss[b][k]
          BY <5>2 DEF u
        <5> QED
          BY Zenon, <5>2, <5>3
      <4> QED
        BY <3>6, <4>1, <4>2 DEF Joined
    <3>10. Flattened(w, ss, b, R, S)
      BY <3>6, <3>8, <3>9 DEF Flattened
    <3> QED
      BY <3>2, <3>10 DEF w, b
  <2>5. \A n \in Nat : n \in T => n + 1 \in T
    BY <2>4
  <2>6. N - 1 \in T
    <3>1. N - 1 \in Nat
      BY <1>1, <2>2
    <3> HIDE DEF T
    <3> QED
      BY <2>3, <2>5, <3>1, SetInduction
  <2>7. (N - 1) + 1 = N
    BY <1>1
  <2> QED
    BY <1>1, <2>1, <2>6, <2>7 DEF N
<1> QED
  BY <1>2, <1>3

-----------------------------------------------------------------------------
(* Calls and their hits. *)

Calls ==
  [kind : {"preimage", "hmac"}, algos : Seq(Algos), digest : Nat, min : Nat,
   max : Nat, maxHits : Nat, dump : Nat, match : SUBSET (Algos \X Nat \X Nat)]

Triple == (Nat \ {0}) \X Nat \X Nat

Order(c) == {p \in Triple \X Triple : HitBefore(c, p[1], p[2])}

\* The hits of algorithm i.
HitsOf(c, i) == {h \in HitSet(c, i) : h[1] = i}

\* s lists the hits of the first n algorithms in order.
ListsHits(c, s, n) ==
  s \in Seq(Triple) /\ InOrder(s, Order(c)) /\ ToSet(s) = HitSet(c, n)

\* What a call is made of.
LEMMA CallFacts ==
  ASSUME NEW c \in Calls
  PROVE  /\ c.kind \in {"preimage", "hmac"} /\ c.digest \in Nat /\ c.min \in Nat
         /\ c.max \in Nat /\ c.maxHits \in Nat /\ c.dump \in Nat
         /\ c.algos \in Seq(Algos) /\ Len(c.algos) \in Nat
         /\ DOMAIN c.algos = 1 .. Len(c.algos)
         /\ LengthSet(c) \subseteq Nat
<1>1. /\ c.kind \in {"preimage", "hmac"} /\ c.digest \in Nat /\ c.min \in Nat
      /\ c.max \in Nat /\ c.maxHits \in Nat /\ c.dump \in Nat
      /\ c.algos \in Seq(Algos)
  BY DEF Calls
<1>2. LengthSet(c) \subseteq Nat
  BY <1>1, FixedLensAssumption DEF LengthSet, ToSet
<1> QED
  BY <1>1, <1>2

\* The windows of a length, and how many there are.
LEMMA WindowsFacts ==
  ASSUME NEW c \in Calls, NEW l \in Nat
  PROVE  WindowsOf(c, l) \in 0 .. c.dump + 1
  BY CallFacts DEF WindowsOf

\* The lengths are finitely many.
LEMMA LengthSetFinite ==
  ASSUME NEW c \in Calls
  PROVE  IsFiniteSet(LengthSet(c))
<1> DEFINE s == Lengths(c)
           L == LengthSet(c)
<1>1. /\ s \in Seq(Nat) /\ \A k \in DOMAIN s : s[k] \in L
      /\ \A l \in L : \E k \in DOMAIN s : s[k] = l
  <2>1. c.kind \in {"preimage", "hmac"} /\ c.min \in Nat /\ c.max \in Nat
    BY CallFacts
  <2>2. ByRank(c, Lengths(c), LengthSet(c))
    BY <2>1, LengthsFacts
  <2> QED
    BY <2>2 DEF ByRank
<1> HIDE DEF s, L
<1>2. Len(s) \in Nat /\ DOMAIN s = 1 .. Len(s) /\ s \in [1 .. Len(s) -> L]
  BY <1>1
<1>3. IsFiniteSet(1 .. Len(s))
  BY <1>2, FS_Interval
<1>4. s \in Surjection(1 .. Len(s), L)
  BY <1>1, <1>2, Fun_IsSurj
<1> QED
  BY <1>3, <1>4, FS_Surjection DEF L

\* A hit is a triple.
LEMMA HitSetFacts ==
  ASSUME NEW c \in Calls, NEW n \in Nat
  PROVE  /\ HitSet(c, n) \subseteq Triple
         /\ IsFiniteSet(HitSet(c, n)) /\ Cardinality(HitSet(c, n)) \in Nat
         /\ \A h \in HitSet(c, n) : h[1] \in 1 .. n
         /\ \A h \in HitSet(c, n), m \in Nat : h[1] <= m => h \in HitSet(c, m)
<1> DEFINE L == LengthSet(c)
           D == 0 .. c.dump
           A == (1 .. n) \X L \X D
           B == (1 .. n) \X (L \X D)
           f == [p \in B |-> <<p[1], p[2][1], p[2][2]>>]
<1>1. L \subseteq Nat /\ IsFiniteSet(L) /\ c.dump \in Nat
  BY CallFacts, LengthSetFinite
<1>2. IsFiniteSet(1 .. n) /\ IsFiniteSet(D)
  BY <1>1, FS_Interval
<1> HIDE DEF L, D
<1>3. IsFiniteSet(B)
  <2>1. IsFiniteSet(L \X D)
    BY <1>1, <1>2, FS_Product
  <2> QED
    BY <1>2, <2>1, FS_Product
<1>4. f \in [B -> A]
  OBVIOUS
<1>5. ASSUME NEW h \in A PROVE \E p \in B : f[p] = h
  <2>1. <<h[1], <<h[2], h[3]>>>> \in B /\ f[<<h[1], <<h[2], h[3]>>>>] = h
    OBVIOUS
  <2> QED
    BY <2>1
<1>6. IsFiniteSet(A)
  <2> HIDE DEF f, A, B
  <2>1. f \in Surjection(B, A)
    BY <1>4, <1>5, Fun_IsSurj
  <2> QED
    BY <1>3, <2>1, FS_Surjection
<1>7. HitSet(c, n) \in SUBSET A
  BY DEF HitSet, L, D
<1>8. A \subseteq Triple
  <2>1. 1 .. n \subseteq Nat \ {0} /\ D \subseteq Nat
    BY DEF D
  <2> QED
    BY <1>1, <2>1 DEF Triple
<1>9. IsFiniteSet(HitSet(c, n)) /\ Cardinality(HitSet(c, n)) \in Nat
  <2> HIDE DEF A
  <2>1. IsFiniteSet(HitSet(c, n))
    BY <1>6, <1>7, FS_Subset
  <2> QED
    BY <2>1, FS_CardinalityType
<1>10. ASSUME NEW h \in HitSet(c, n), NEW m \in Nat, h[1] <= m PROVE h \in HitSet(c, m)
  <2>1. h \in A
    BY <1>7
  <2>2. h \in (1 .. m) \X L \X D
    BY <1>10, <2>1
  <2> QED
    BY <2>2 DEF HitSet, L, D
<1> QED
  BY <1>7, <1>8, <1>9, <1>10

\* The hits of more algorithms are more.
LEMMA HitSetGrows ==
  ASSUME NEW c \in Calls, NEW n \in Nat, NEW m \in Nat, n <= m
  PROVE  Cardinality(HitSet(c, n)) <= Cardinality(HitSet(c, m))
<1>1. HitSet(c, n) \in SUBSET HitSet(c, m)
  <2> SUFFICES ASSUME NEW h \in HitSet(c, n) PROVE h \in HitSet(c, m)
    OBVIOUS
  <2>1. h[1] <= m
    BY HitSetFacts
  <2> QED
    BY <2>1, HitSetFacts
<1>2. IsFiniteSet(HitSet(c, m))
  BY HitSetFacts
<1> QED
  BY <1>1, <1>2, FS_Subset

\* The rank of a length is a number.
LEMMA RankNat ==
  ASSUME NEW c \in Calls, NEW l \in LengthSet(c)
  PROVE  Rank(c, l) \in Nat
<1>1. c.min \in Nat /\ c.max \in Nat
  BY CallFacts
<1>2. CASE l \in c.min .. c.max
  BY <1>1, <1>2, RankFacts
<1>3. CASE l \notin c.min .. c.max
  <2>1. PICK n \in DOMAIN FixedLens : l = FixedLens[n]
    BY <1>3 DEF LengthSet, ToSet
  <2>2. n \in Nat
    BY FixedLensAssumption
  <2>3. Rank(c, l) = c.max + n
    BY <1>1, <1>3, <2>1, RankFacts
  <2> QED
    BY <1>1, <2>2, <2>3
<1> QED
  BY <1>2, <1>3

\* No hit is before itself.
LEMMA OrderStrict ==
  ASSUME NEW c \in Calls, NEW n \in Nat, NEW h \in HitSet(c, n)
  PROVE  <<h, h>> \notin Order(c)
<1> SUFFICES ASSUME <<h, h>> \in Order(c) PROVE FALSE
  OBVIOUS
<1>1. h \in Triple /\ HitBefore(c, h, h) /\ h[2] \in LengthSet(c)
  BY DEF Order, HitSet
<1>2. h[1] \in Nat /\ h[3] \in Nat
  BY <1>1 DEF Triple
<1>3. Rank(c, h[2]) \in Nat
  BY <1>1, RankNat
<1> QED
  BY <1>1, <1>2, <1>3 DEF HitBefore

\* A list of the hits is as long as they are many.
LEMMA ListSize ==
  ASSUME NEW c \in Calls, NEW n \in Nat, NEW s, ListsHits(c, s, n)
  PROVE  Len(s) \in Nat /\ Len(s) = Cardinality(HitSet(c, n))
<1> DEFINE H == HitSet(c, n)
<1>1. /\ s \in Seq(Triple) /\ {s[k] : k \in DOMAIN s} = H
      /\ \A k, m \in DOMAIN s : k < m => <<s[k], s[m]>> \in Order(c)
  BY DEF ListsHits, InOrder, ToSet
<1>2. \A h \in H : <<h, h>> \notin Order(c)
  BY OrderStrict
<1> HIDE DEF H
<1>3. Len(s) \in Nat /\ DOMAIN s = 1 .. Len(s) /\ s \in [1 .. Len(s) -> H]
  BY <1>1
<1>4. IsFiniteSet(1 .. Len(s)) /\ Cardinality(1 .. Len(s)) = Len(s)
  <2> DEFINE n1 == Len(s)
  <2>1. n1 \in Int /\ 1 \in Int
    BY <1>3
  <2> HIDE DEF n1
  <2>2. IsFiniteSet(1 .. n1) /\ Cardinality(1 .. n1) = IF 1 > n1 THEN 0 ELSE n1 - 1 + 1
    BY <2>1, FS_Interval
  <2> QED
    BY <1>3, <2>2 DEF n1
<1>5. \A k, m \in 1 .. Len(s) : s[k] = s[m] => k = m
  <2> SUFFICES ASSUME NEW k \in 1 .. Len(s), NEW m \in 1 .. Len(s), s[k] = s[m], k < m
               PROVE  FALSE
    BY <1>3
  <2>1. <<s[k], s[m]>> \in Order(c) /\ s[k] \in H
    BY <1>1, <1>3
  <2> QED
    BY <1>2, <2>1
<1>6. s \in Injection(1 .. Len(s), H)
  BY <1>3, <1>5, Fun_IsInj
<1>7. s \in Surjection(1 .. Len(s), H)
  <2>1. \A h \in H : \E k \in 1 .. Len(s) : s[k] = h
    BY <1>1, <1>3
  <2> QED
    BY <1>3, <2>1, Fun_IsSurj
<1>8. Cardinality(H) = Cardinality(1 .. Len(s))
  BY <1>4, <1>6, <1>7, FS_Surjection
<1> QED
  BY <1>3, <1>4, <1>8 DEF H

\* A list of all hits is the answer without a limit, or with one above it.
LEMMA AnswerAll ==
  ASSUME NEW c \in Calls, NEW s, ListsHits(c, s, Len(c.algos)), NEW n \in Nat,
         Len(s) <= n
  PROVE  ListsFirst(c, s, HitSet(c, Len(c.algos)), n)
<1> DEFINE H == HitSet(c, Len(c.algos))
<1>1. Len(s) \in Nat /\ Len(s) = Cardinality(H)
  <2>1. Len(c.algos) \in Nat
    BY CallFacts
  <2> QED
    BY <2>1, ListSize
<1>2. /\ \A k, m \in DOMAIN s : k < m => <<s[k], s[m]>> \in Order(c)
      /\ ToSet(s) = H
  BY DEF ListsHits, InOrder
<1>3. \A k, m \in DOMAIN s : k < m => HitBefore(c, s[k], s[m])
  BY <1>2 DEF Order
<1> HIDE DEF H
<1>4. Len(s) = IF n < Cardinality(H) THEN n ELSE Cardinality(H)
  BY <1>1
<1> QED
  BY <1>2, <1>3, <1>4 DEF ListsFirst, H

\* The first hits of the list of some algorithms are the first of all.
LEMMA AnswerCut ==
  ASSUME NEW c \in Calls, NEW n \in 0 .. Len(c.algos), NEW s, ListsHits(c, s, n),
         NEW m \in Nat, m <= Len(s)
  PROVE  ListsFirst(c, SubSeq(s, 1, m), HitSet(c, Len(c.algos)), m)
<1> DEFINE N == Len(c.algos)
           H == HitSet(c, N)
           u == SubSeq(s, 1, m)
<1>0. N \in Nat /\ n \in Nat /\ n <= N
  BY CallFacts
<1>1. Len(s) \in Nat /\ Len(s) = Cardinality(HitSet(c, n))
  BY <1>0, ListSize
<1>2. /\ s \in Seq(Triple) /\ {s[k] : k \in DOMAIN s} = HitSet(c, n)
      /\ \A k, d \in DOMAIN s : k < d => <<s[k], s[d]>> \in Order(c)
  BY DEF ListsHits, InOrder, ToSet
<1>3. /\ u \in Seq(Triple) /\ Len(u) = m /\ DOMAIN u = 1 .. m /\ DOMAIN s = 1 .. Len(s)
      /\ \A k \in 1 .. m : u[k] = s[k] /\ k \in DOMAIN s
  BY <1>1, <1>2
<1>4. \A k, d \in DOMAIN s : k < d => HitBefore(c, s[k], s[d])
  BY <1>2 DEF Order
<1>5. HitSet(c, n) \subseteq H
  <2> SUFFICES ASSUME NEW h \in HitSet(c, n) PROVE h \in H
    OBVIOUS
  <2>1. h[1] \in 1 .. n
    BY <1>0, HitSetFacts
  <2>2. h[1] <= N
    BY <1>0, <2>1
  <2> QED
    BY <1>0, <2>2, HitSetFacts
<1>6. ToSet(u) \subseteq H
  <2>1. \A k \in 1 .. m : u[k] \in HitSet(c, n)
    BY <1>2, <1>3
  <2> HIDE DEF H, u
  <2> QED
    BY <1>3, <1>5, <2>1 DEF ToSet
<1>7. ASSUME NEW h \in H \ ToSet(u), NEW k \in DOMAIN u
      PROVE  HitBefore(c, u[k], h)
  <2>1. k \in 1 .. m /\ u[k] = s[k] /\ k \in DOMAIN s
    BY <1>3
  <2>2. CASE h \in HitSet(c, n)
    <3>1. PICK d \in DOMAIN s : h = s[d]
      BY <1>2, <2>2
    <3>2. d \notin 1 .. m
      <4> HIDE DEF u, H
      <4> QED
        BY <1>3, <1>7, <3>1 DEF ToSet
    <3>3. k < d
      BY <1>1, <1>3, <2>1, <3>1, <3>2
    <3> QED
      BY <1>4, <2>1, <3>1, <3>3
  <2>3. CASE h \notin HitSet(c, n)
    <3>1. s[k] \in HitSet(c, n)
      BY <1>2, <2>1
    <3>2. s[k][1] \in 1 .. n
      BY <1>0, <3>1, HitSetFacts
    <3>3. h[1] \in 1 .. N
      BY <1>0, HitSetFacts
    <3>4. ~(h[1] <= n)
      BY <1>0, <2>3, HitSetFacts
    <3>5. s[k][1] < h[1]
      BY <1>0, <3>2, <3>3, <3>4
    <3> QED
      BY <2>1, <3>5 DEF HitBefore
  <2> QED
    BY <2>2, <2>3
<1>8. Cardinality(H) \in Nat /\ m <= Cardinality(H)
  <2>1. Cardinality(HitSet(c, n)) <= Cardinality(H)
    BY <1>0, HitSetGrows
  <2>2. Cardinality(H) \in Nat
    BY <1>0, HitSetFacts
  <2> HIDE DEF H
  <2> QED
    BY <1>1, <2>1, <2>2
<1>9. \A k, d \in DOMAIN u : k < d => HitBefore(c, u[k], u[d])
  BY <1>3, <1>4
<1> HIDE DEF H, u
<1>10. Len(u) = IF m < Cardinality(H) THEN m ELSE Cardinality(H)
  BY <1>3, <1>8
<1> QED
  BY <1>6, <1>7, <1>9, <1>10 DEF ListsFirst, H, u

-----------------------------------------------------------------------------
(* The inductive invariant. *)

\* A length that is given out is positive, and its thread has found the
\* matches among the windows behind it, in order.
LengthDone(c, i, l, w) ==
  LET Hit(o) == <<c.algos[i], l, o>> \in c.match
  IN  /\ w \in [next : None .. WindowsOf(c, l), found : Seq(0 .. c.dump)]
      /\ w.next # None => l > 0
      /\ \A m, n \in DOMAIN w.found : m < n => w.found[m] < w.found[n]
      /\ \A n \in DOMAIN w.found : w.found[n] \in 0 .. w.next - 1 /\ Hit(w.found[n])
      /\ \A o \in 0 .. w.next - 1 : Hit(o) => \E n \in DOMAIN w.found : w.found[n] = o

\* The windows tried by the threads of a pass.
TriedWindows(c, wk) ==
  {w \in LengthSet(c) \X (0 .. c.dump) :
     \E k \in DOMAIN wk : Lengths(c)[k] = w[1] /\ w[2] < wk[k].next}

\* The threads wk of a pass over the lengths.
PassDone(c, i, wk) ==
  /\ wk = [k \in DOMAIN Lengths(c) |-> wk[k]]
  /\ \A k \in DOMAIN wk : LengthDone(c, i, Lengths(c)[k], wk[k])

WorkInv ==
  /\ pc \notin {"pass", "panic"} => work = <<>>
  /\ pc \in {"pass", "panic"} =>
       ai \in DOMAIN call.algos /\ PassDone(call, ai, work)

\* The loop is at algorithm ai because each one before it fits and the hits so
\* far, all those of the algorithms before it, are below the limit.
LoopInv ==
  /\ pc \in {"algo", "pass"} =>
       /\ ~(call.kind = "preimage" /\ call.digest = 0)
       /\ \A i \in 1 .. ai - 1 : Fits(call, i)
       /\ \A i \in 1 .. ai : Gets(call, i)
       /\ ai > 1 => 0 \notin LengthSet(call)
       /\ ListsHits(call, hits, ai - 1)
  /\ pc = "pass" => Fits(call, ai)
  /\ pc \in {"start", "err"} => hits = <<>>

\* Each pass counts its windows once.
CountInv ==
  /\ pc \in {"start", "algo"} => tried = PassSize(call) * (ai - 1)
  /\ pc = "pass" => tried = PassSize(call) * (ai - 1) + Cardinality(TriedWindows(call, work))

CallInv ==
  /\ call \in Calls /\ call.algos # <<>>
  /\ call.kind = "hmac" => Len(call.algos) = 1

TypeInv ==
  /\ pc \in {"start", "algo", "pass", "ok", "err", "panic"}
  /\ ai \in 1 .. Len(call.algos) + 1
  /\ tried \in Nat
  /\ hits \in Seq(Triple)
  /\ pc = "start" => ai = 1

HashInv ==
  /\ CallInv /\ TypeInv /\ WorkInv /\ LoopInv /\ CountInv
  /\ HashAnswerExact /\ HashTriedExact

\* A use is waiting, refused by its caller, or a search.
ToolInv ==
  /\ use \in Uses
  /\ end \in {"none", "0", "1", "2", "101", "isError", "result"}
  /\ \/ /\ pc = "idle" /\ call = use /\ ai = 1 /\ work = <<>> /\ tried = 0
        /\ hits = <<>>
     \/ pc = "err" /\ call = use /\ ~Passes(use) /\ work = <<>>
     \/ Passes(use) /\ call = CallOf(use) /\ HashInv

-----------------------------------------------------------------------------
(* The work on a length. *)

\* A thread that has not started has found nothing.
LEMMA IdleDone ==
  ASSUME NEW c \in Calls, NEW i, NEW l \in Nat
  PROVE  LengthDone(c, i, l, Idle)
<1>1. None \in None .. WindowsOf(c, l) /\ <<>> \in Seq(0 .. c.dump)
  BY WindowsFacts, CallFacts DEF None
<1>2. 0 .. None - 1 = {}
  BY DEF None
<1> QED
  BY <1>1, <1>2 DEF LengthDone, Idle

\* Nor has one that has just started.
LEMMA StartDone ==
  ASSUME NEW c \in Calls, NEW i, NEW l \in Nat, l > 0,
         NEW w, LengthDone(c, i, l, w), w.next = None
  PROVE  LengthDone(c, i, l, [w EXCEPT !.next = 0])
<1> DEFINE v == [w EXCEPT !.next = 0]
<1>1. /\ w \in [next : None .. WindowsOf(c, l), found : Seq(0 .. c.dump)]
      /\ \A n \in DOMAIN w.found : w.found[n] \in 0 .. w.next - 1
  BY DEF LengthDone
<1>2. 0 \in None .. WindowsOf(c, l)
  BY WindowsFacts, CallFacts DEF None
<1>3. /\ v \in [next : None .. WindowsOf(c, l), found : Seq(0 .. c.dump)]
      /\ v.next = 0 /\ v.found = w.found
  BY <1>1, <1>2
<1>4. 0 .. w.next - 1 = {}
  BY DEF None
<1>5. DOMAIN w.found = {}
  BY <1>1, <1>4
<1> HIDE DEF v
<1>6. LengthDone(c, i, l, v)
  BY <1>3, <1>5 DEF LengthDone
<1> QED
  BY <1>6 DEF v

\* One window more.
LEMMA TryDone ==
  ASSUME NEW c \in Calls, NEW i, NEW l \in Nat, NEW w, LengthDone(c, i, l, w),
         w.next \in 0 .. WindowsOf(c, l) - 1
  PROVE  LengthDone(c, i, l,
           [next |-> w.next + 1,
            found |-> IF <<c.algos[i], l, w.next>> \in c.match
                      THEN Append(w.found, w.next) ELSE w.found])
<1> DEFINE o == w.next
           s == w.found
           hit == <<c.algos[i], l, o>> \in c.match
           u == IF hit THEN Append(s, o) ELSE s
           v == [next |-> o + 1, found |-> u]
           W == WindowsOf(c, l)
<1>1. W \in 0 .. c.dump + 1 /\ c.dump \in Nat
  BY WindowsFacts, CallFacts
<1>2. /\ w \in [next : None .. W, found : Seq(0 .. c.dump)]
      /\ o # None => l > 0
      /\ \A m, n \in DOMAIN s : m < n => s[m] < s[n]
      /\ \A n \in DOMAIN s : s[n] \in 0 .. o - 1 /\ <<c.algos[i], l, s[n]>> \in c.match
      /\ \A d \in 0 .. o - 1 : <<c.algos[i], l, d>> \in c.match
                                 => \E n \in DOMAIN s : s[n] = d
  BY DEF LengthDone
<1>3. s \in Seq(0 .. c.dump) /\ o \in 0 .. c.dump /\ o \in Nat /\ o + 1 \in None .. W
      /\ o # None
  <2>1. o \in 0 .. W - 1
    OBVIOUS
  <2> HIDE DEF o, W
  <2>2. o \in 0 .. c.dump /\ o \in Nat /\ o + 1 \in None .. W /\ o # None
    BY <1>1, <2>1 DEF None
  <2> QED
    BY <1>2, <2>2
<1> HIDE DEF o, s, W
<1>4. /\ u \in Seq(0 .. c.dump)
      /\ \A m, n \in DOMAIN u : m < n => u[m] < u[n]
      /\ \A n \in DOMAIN u : u[n] \in 0 .. o /\ <<c.algos[i], l, u[n]>> \in c.match
      /\ \A d \in 0 .. o : <<c.algos[i], l, d>> \in c.match
                             => \E n \in DOMAIN u : u[n] = d
  <2>0. \A d \in 0 .. o : d \in 0 .. o - 1 \/ d = o
    BY <1>3
  <2>3. \A d \in 0 .. o - 1 : d \in 0 .. o /\ d < o
    BY <1>3
  <2>4. \A n \in DOMAIN s : s[n] \in 0 .. o - 1 /\ s[n] \in 0 .. o /\ s[n] < o
    BY Zenon, <1>2, <2>3
  <2>1. CASE hit
    <3> DEFINE a == Len(s)
    <3>1. /\ a \in Nat /\ DOMAIN s = 1 .. a /\ u \in Seq(0 .. c.dump)
          /\ DOMAIN u = 1 .. a + 1 /\ u[a + 1] = o /\ \A n \in 1 .. a : u[n] = s[n]
      BY <1>3, <2>1
    <3> HIDE DEF u, a
    <3>2. \A n \in 1 .. a + 1 : n \in 1 .. a \/ n = a + 1
      BY <3>1
    <3>3. \A n \in 1 .. a : u[n] \in 0 .. o /\ u[n] < o
      BY Zenon, <2>4, <3>1
    <3>4. ASSUME NEW m \in DOMAIN u, NEW n \in DOMAIN u, m < n PROVE u[m] < u[n]
      <4>1. m \in 1 .. a
        BY <3>1, <3>4
      <4>2. CASE n \in 1 .. a
        BY <1>2, <3>1, <3>4, <4>1, <4>2
      <4>3. CASE n = a + 1
        BY <3>1, <3>3, <4>1, <4>3
      <4> QED
        BY <3>1, <3>2, <4>2, <4>3
    <3>5. ASSUME NEW n \in DOMAIN u
          PROVE  u[n] \in 0 .. o /\ <<c.algos[i], l, u[n]>> \in c.match
      <4>1. CASE n \in 1 .. a
        <5>1. u[n] = s[n] /\ u[n] \in 0 .. o /\ n \in DOMAIN s
          BY <3>1, <3>3, <4>1
        <5>2. <<c.algos[i], l, s[n]>> \in c.match
          BY <1>2, <5>1
        <5> QED
          BY Zenon, <5>1, <5>2
      <4>2. CASE n = a + 1
        <5>1. u[n] = o /\ o \in 0 .. o
          BY <1>3, <3>1, <4>2
        <5> QED
          BY Zenon, <2>1, <5>1
      <4> QED
        BY <3>1, <3>2, <4>1, <4>2
    <3>6. ASSUME NEW d \in 0 .. o, <<c.algos[i], l, d>> \in c.match
          PROVE  \E n \in DOMAIN u : u[n] = d
      <4>1. CASE d = o
        <5>1. a + 1 \in DOMAIN u
          BY <3>1
        <5> QED
          BY <3>1, <4>1, <5>1
      <4>2. CASE d \in 0 .. o - 1
        <5>1. PICK n \in DOMAIN s : s[n] = d
          BY <1>2, <3>6, <4>2
        <5>2. n \in DOMAIN u /\ u[n] = d
          BY <3>1, <5>1
        <5> QED
          BY <5>2
      <4> QED
        BY <2>0, <4>1, <4>2
    <3> QED
      BY <3>1, <3>4, <3>5, <3>6
  <2>2. CASE ~hit
    <3>1. u = s /\ \A n \in DOMAIN s : s[n] \in 0 .. o
      BY Zenon, <2>2, <2>4
    <3> QED
      BY <1>2, <1>3, <2>0, <2>2, <3>1
  <2> QED
    BY <2>1, <2>2
<1> HIDE DEF u
<1>5. v \in [next : None .. W, found : Seq(0 .. c.dump)] /\ v.next = o + 1 /\ v.found = u
  BY <1>3, <1>4
<1>6. (o + 1) - 1 = o
  BY <1>3
<1> HIDE DEF v
<1>7. LengthDone(c, i, l, v)
  BY <1>2, <1>3, <1>4, <1>5, <1>6 DEF LengthDone, W
<1> QED
  BY <1>7 DEF v, u, o, s
-----------------------------------------------------------------------------
(* The work of a pass. *)

\* Each length of the list is one of the set, and has one place in it.
LEMMA LengthsPlaces ==
  ASSUME NEW c \in Calls
  PROVE  /\ Lengths(c) \in Seq(Nat)
         /\ \A k \in DOMAIN Lengths(c) : Lengths(c)[k] \in LengthSet(c)
         /\ \A l \in LengthSet(c) : \E k \in DOMAIN Lengths(c) : Lengths(c)[k] = l
         /\ \A k, m \in DOMAIN Lengths(c) :
              k < m => Rank(c, Lengths(c)[k]) < Rank(c, Lengths(c)[m])
         /\ \A k, m \in DOMAIN Lengths(c) : Lengths(c)[k] = Lengths(c)[m] => k = m
<1> DEFINE s == Lengths(c)
<1>1. c.kind \in {"preimage", "hmac"} /\ c.min \in Nat /\ c.max \in Nat
  BY CallFacts
<1>2. ByRank(c, s, LengthSet(c))
  BY <1>1, LengthsFacts
<1> HIDE DEF s
<1>3. /\ s \in Seq(Nat) /\ \A k \in DOMAIN s : s[k] \in LengthSet(c)
      /\ \A l \in LengthSet(c) : \E k \in DOMAIN s : s[k] = l
      /\ \A k, m \in DOMAIN s : k < m => Rank(c, s[k]) < Rank(c, s[m])
  BY <1>2 DEF ByRank
<1>4. ASSUME NEW k \in DOMAIN s, NEW m \in DOMAIN s, s[k] = s[m] PROVE k = m
  <2>1. k \in Nat /\ m \in Nat
    BY <1>3
  <2>2. Rank(c, s[k]) \in Nat /\ Rank(c, s[m]) = Rank(c, s[k])
    BY <1>3, <1>4, RankNat
  <2>3. ~(k < m) /\ ~(m < k)
    BY <1>3, <2>2
  <2> QED
    BY <2>1, <2>3
<1> QED
  BY <1>3, <1>4 DEF s

\* The windows of a pass are finitely many.
LEMMA WindowsFinite ==
  ASSUME NEW c \in Calls
  PROVE  /\ IsFiniteSet(LengthSet(c) \X (0 .. c.dump))
         /\ PassSize(c) \in Nat
         /\ \A wk : IsFiniteSet(TriedWindows(c, wk)) /\ Cardinality(TriedWindows(c, wk)) \in Nat
<1> DEFINE A == LengthSet(c) \X (0 .. c.dump)
           P == {w \in A : w[2] < WindowsOf(c, w[1])}
<1>1. IsFiniteSet(A)
  <2>1. c.dump \in Nat
    BY CallFacts
  <2>2. IsFiniteSet(0 .. c.dump)
    BY <2>1, FS_Interval
  <2> QED
    BY <2>2, LengthSetFinite, FS_Product
<1>2. P \in SUBSET A /\ PassSize(c) = Cardinality(P)
  BY DEF PassSize
<1> HIDE DEF P
<1>3. PassSize(c) \in Nat
  BY <1>1, <1>2, FS_Subset, FS_CardinalityType
<1>4. ASSUME NEW wk
      PROVE  IsFiniteSet(TriedWindows(c, wk)) /\ Cardinality(TriedWindows(c, wk)) \in Nat
  <2>1. TriedWindows(c, wk) \in SUBSET A
    BY DEF TriedWindows
  <2>2. IsFiniteSet(TriedWindows(c, wk))
    BY <1>1, <2>1, FS_Subset
  <2> QED
    BY <2>2, FS_CardinalityType
<1> QED
  BY <1>1, <1>3, <1>4

\* A thread that starts has tried nothing yet.
LEMMA TriedStart ==
  ASSUME NEW c \in Calls, NEW wk, NEW k \in DOMAIN wk, wk[k].next = None, NEW wl,
         DOMAIN wl = DOMAIN wk, \A m \in DOMAIN wk \ {k} : wl[m] = wk[m],
         wl[k].next = 0
  PROVE  TriedWindows(c, wl) = TriedWindows(c, wk)
<1>1. \A o \in 0 .. c.dump : ~(o < 0) /\ ~(o < None)
  BY CallFacts DEF None
<1>2. ASSUME NEW o \in 0 .. c.dump, NEW m \in DOMAIN wk
      PROVE  o < wl[m].next <=> o < wk[m].next
  BY <1>1
<1>3. ASSUME NEW w \in LengthSet(c) \X (0 .. c.dump)
      PROVE  (\E m \in DOMAIN wl : Lengths(c)[m] = w[1] /\ w[2] < wl[m].next) <=>
             (\E m \in DOMAIN wk : Lengths(c)[m] = w[1] /\ w[2] < wk[m].next)
  BY <1>2
<1> QED
  BY <1>3 DEF TriedWindows

\* A window tried is one that was not tried before.
LEMMA TriedNext ==
  ASSUME NEW c \in Calls, NEW wk, DOMAIN wk = DOMAIN Lengths(c), NEW k \in DOMAIN wk,
         wk[k].next \in 0 .. c.dump, NEW wl, DOMAIN wl = DOMAIN wk,
         \A m \in DOMAIN wk \ {k} : wl[m] = wk[m], wl[k].next = wk[k].next + 1
  PROVE  Cardinality(TriedWindows(c, wl)) = Cardinality(TriedWindows(c, wk)) + 1
<1> DEFINE o == wk[k].next
           l == Lengths(c)[k]
           A == LengthSet(c) \X (0 .. c.dump)
           T == TriedWindows(c, wk)
<1>1. /\ l \in LengthSet(c)
      /\ \A m \in DOMAIN wk : Lengths(c)[m] = l => m = k
  BY LengthsPlaces
<1>2. o \in 0 .. c.dump /\ c.dump \in Nat /\ wl[k].next = o + 1
  BY CallFacts
<1> HIDE DEF o, l
<1>3. <<l, o>> \notin T
  <2> SUFFICES ASSUME <<l, o>> \in T PROVE FALSE
    OBVIOUS
  <2>1. PICK m \in DOMAIN wk : Lengths(c)[m] = l /\ o < wk[m].next
    BY DEF TriedWindows
  <2>2. o < wk[k].next
    BY <1>1, <2>1
  <2> QED
    BY <1>2, <2>2 DEF o
<1>4. ASSUME NEW w \in A
      PROVE  (\E m \in DOMAIN wl : Lengths(c)[m] = w[1] /\ w[2] < wl[m].next) <=>
             \/ \E m \in DOMAIN wk : Lengths(c)[m] = w[1] /\ w[2] < wk[m].next
             \/ w = <<l, o>>
  <2>1. w[2] \in 0 .. c.dump /\ w[2] \in Nat /\ w = <<w[1], w[2]>>
    OBVIOUS
  <2>2. w[2] < wl[k].next <=> w[2] < wk[k].next \/ w[2] = o
    BY <1>2, <2>1 DEF o
  <2>3. Lengths(c)[k] = l
    BY DEF l
  <2>4. ASSUME NEW m \in DOMAIN wk, m # k PROVE wl[m] = wk[m]
    BY <2>4
  <2>5. ASSUME NEW m \in DOMAIN wl, Lengths(c)[m] = w[1], w[2] < wl[m].next
        PROVE  \/ \E n \in DOMAIN wk : Lengths(c)[n] = w[1] /\ w[2] < wk[n].next
               \/ w = <<l, o>>
    <3>1. CASE m = k
      BY <2>1, <2>2, <2>3, <2>5, <3>1
    <3>2. CASE m # k
      BY <2>4, <2>5, <3>2
    <3> QED
      BY <3>1, <3>2
  <2>6. ASSUME NEW m \in DOMAIN wk, Lengths(c)[m] = w[1], w[2] < wk[m].next
        PROVE  \E n \in DOMAIN wl : Lengths(c)[n] = w[1] /\ w[2] < wl[n].next
    <3>1. CASE m = k
      BY <2>2, <2>6, <3>1
    <3>2. CASE m # k
      BY <2>4, <2>6, <3>2
    <3> QED
      BY <3>1, <3>2
  <2>7. ASSUME w = <<l, o>>
        PROVE  \E n \in DOMAIN wl : Lengths(c)[n] = w[1] /\ w[2] < wl[n].next
    <3>1. w[1] = l /\ w[2] = o
      BY <2>7
    <3> QED
      BY <2>2, <2>3, <3>1
  <2> QED
    BY <2>5, <2>6, <2>7
<1>5. TriedWindows(c, wl) = T \cup {<<l, o>>}
  <2>1. <<l, o>> \in A
    BY <1>1, <1>2
  <2> QED
    BY <1>4, <2>1 DEF TriedWindows
<1>6. IsFiniteSet(T)
  BY WindowsFinite
<1> HIDE DEF T
<1>7. Cardinality(T \cup {<<l, o>>}) = Cardinality(T) + 1
  BY <1>3, <1>6, FS_AddElement
<1> QED
  BY <1>5, <1>7 DEF T

\* At the end of a pass all windows are tried.
LEMMA TriedAll ==
  ASSUME NEW c \in Calls, NEW wk, DOMAIN wk = DOMAIN Lengths(c),
         \A k \in DOMAIN wk : wk[k].next = WindowsOf(c, Lengths(c)[k])
  PROVE  Cardinality(TriedWindows(c, wk)) = PassSize(c)
<1> DEFINE A == LengthSet(c) \X (0 .. c.dump)
<1>1. ASSUME NEW w \in A
      PROVE  (\E k \in DOMAIN wk : Lengths(c)[k] = w[1] /\ w[2] < wk[k].next) <=>
             w[2] < WindowsOf(c, w[1])
  <2>1. PICK k \in DOMAIN Lengths(c) : Lengths(c)[k] = w[1]
    BY LengthsPlaces
  <2> QED
    BY <2>1
<1>2. TriedWindows(c, wk) = {w \in A : w[2] < WindowsOf(c, w[1])}
  BY <1>1 DEF TriedWindows
<1> QED
  BY <1>2 DEF PassSize
\* The hits of a length when its thread is through.
LEMMA LengthOver ==
  ASSUME NEW c \in Calls, NEW i, NEW l \in Nat, NEW w, LengthDone(c, i, l, w),
         w.next = WindowsOf(c, l)
  PROVE  /\ l > 0 /\ w.found \in Seq(Nat)
         /\ \A m, n \in DOMAIN w.found : m < n => w.found[m] < w.found[n]
         /\ \A o : (\E n \in DOMAIN w.found : w.found[n] = o) <=>
                   /\ o \in 0 .. c.dump /\ o < WindowsOf(c, l)
                   /\ <<c.algos[i], l, o>> \in c.match
<1>1. WindowsOf(c, l) \in 0 .. c.dump + 1 /\ c.dump \in Nat
  BY WindowsFacts, CallFacts
<1> DEFINE W == WindowsOf(c, l)
<1>2. /\ w \in [next : None .. W, found : Seq(0 .. c.dump)]
      /\ w.next # None => l > 0
      /\ \A m, n \in DOMAIN w.found : m < n => w.found[m] < w.found[n]
      /\ \A n \in DOMAIN w.found : /\ w.found[n] \in 0 .. W - 1
                                   /\ <<c.algos[i], l, w.found[n]>> \in c.match
      /\ \A o \in 0 .. W - 1 : <<c.algos[i], l, o>> \in c.match
                                 => \E n \in DOMAIN w.found : w.found[n] = o
  BY Zenon DEF LengthDone
<1>3. w.next = W /\ W # None
  BY <1>1 DEF None
<1> HIDE DEF W
<1>4. \A o : o \in 0 .. W - 1 <=> o \in 0 .. c.dump /\ o < W
  BY <1>1 DEF W
<1>5. w.found \in Seq(Nat)
  BY <1>1, <1>2
<1>6. ASSUME NEW o
      PROVE  (\E n \in DOMAIN w.found : w.found[n] = o) <=>
               o \in 0 .. c.dump /\ o < W /\ <<c.algos[i], l, o>> \in c.match
  BY Zenon, <1>2, <1>4
<1> QED
  BY Zenon, <1>2, <1>3, <1>5, <1>6 DEF W

\* What a pass collects: the hits of its algorithm, in order.
LEMMA CollectedFacts ==
  ASSUME call \in Calls, ai \in DOMAIN call.algos, PassDone(call, ai, work), PassOver
  PROVE  /\ Collected \in Seq(Triple) /\ InOrder(Collected, Order(call))
         /\ ToSet(Collected) = HitsOf(call, ai)
         /\ 0 \notin LengthSet(call)
<1> DEFINE L == Lengths(call)
           R == Order(call)
           F(k) == [n \in DOMAIN work[k].found |-> <<ai, L[k], work[k].found[n]>>]
           ss == [k \in DOMAIN work |-> F(k)]
<1>1. /\ L \in Seq(Nat) /\ \A k \in DOMAIN L : L[k] \in LengthSet(call)
      /\ \A l \in LengthSet(call) : \E k \in DOMAIN L : L[k] = l
      /\ \A k, m \in DOMAIN L : k < m => Rank(call, L[k]) < Rank(call, L[m])
  BY LengthsPlaces
<1> HIDE DEF L
<1>2. /\ DOMAIN work = DOMAIN L /\ DOMAIN L = 1 .. Len(L) /\ Len(L) \in Nat
      /\ ai \in Nat \ {0}
  BY <1>1, CallFacts DEF PassDone, L
<1>3. \A k \in DOMAIN L :
        /\ L[k] \in Nat
        /\ LengthDone(call, ai, L[k], work[k])
        /\ work[k].next = WindowsOf(call, L[k])
  BY <1>1, <1>2 DEF PassDone, PassOver, L
<1>4. \A k \in DOMAIN L :
        /\ L[k] > 0 /\ work[k].found \in Seq(Nat)
        /\ \A m, n \in DOMAIN work[k].found : m < n => work[k].found[m] < work[k].found[n]
        /\ \A o : (\E n \in DOMAIN work[k].found : work[k].found[n] = o) <=>
                  /\ o \in 0 .. call.dump /\ o < WindowsOf(call, L[k])
                  /\ <<call.algos[ai], L[k], o>> \in call.match
  BY <1>3, LengthOver
<1>5. ASSUME NEW k \in DOMAIN L
      PROVE  /\ F(k) \in Seq(Triple)
             /\ DOMAIN F(k) = DOMAIN work[k].found
             /\ \A n \in DOMAIN F(k) : F(k)[n] = <<ai, L[k], work[k].found[n]>>
             /\ \A n \in DOMAIN F(k) : F(k)[n] \in Triple
  <2> DEFINE d == work[k].found
             N == Len(d)
             g == [n \in DOMAIN d |-> <<ai, L[k], d[n]>>]
  <2>1. d \in Seq(Nat) /\ L[k] \in Nat
    BY <1>3, <1>4
  <2> HIDE DEF d
  <2>2. N \in Nat /\ DOMAIN d = 1 .. N /\ \A n \in 1 .. N : d[n] \in Nat
    BY <2>1
  <2>3. \A n \in 1 .. N : <<ai, L[k], d[n]>> \in Triple
    BY <1>2, <2>1, <2>2 DEF Triple
  <2> HIDE DEF N
  <2>4. g \in [1 .. N -> Triple]
    BY <2>2, <2>3
  <2>5. /\ g \in Seq(Triple) /\ DOMAIN g = DOMAIN d
        /\ \A n \in DOMAIN g : g[n] = <<ai, L[k], d[n]>> /\ g[n] \in Triple
    BY <2>2, <2>3, <2>4
  <2> QED
    BY Zenon, <2>5 DEF d
<1> DEFINE N == Len(L)
<1>6. ss \in Seq(Seq(Triple)) /\ DOMAIN ss = DOMAIN L /\ Len(ss) = N
      /\ \A k \in DOMAIN L : ss[k] = F(k)
  <2> HIDE DEF F
  <2>1. ss \in [1 .. N -> Seq(Triple)]
    BY <1>2, <1>5
  <2>2. \A k \in DOMAIN L : ss[k] = F(k)
    BY <1>2
  <2>3. N \in Nat
    BY <1>2
  <2> HIDE DEF ss
  <2>4. ss \in Seq(Seq(Triple)) /\ DOMAIN ss = 1 .. N /\ Len(ss) = N
    BY <2>1, <2>3
  <2> QED
    BY <1>2, <2>2, <2>4
<1> HIDE DEF F, ss
<1>7. ASSUME NEW k \in DOMAIN ss PROVE InOrder(ss[k], R)
  <2> SUFFICES ASSUME NEW m \in DOMAIN F(k), NEW n \in DOMAIN F(k), m < n
               PROVE  <<F(k)[m], F(k)[n]>> \in R
    BY <1>6 DEF InOrder
  <2>1. /\ F(k)[m] = <<ai, L[k], work[k].found[m]>> /\ F(k)[m] \in Triple
        /\ F(k)[n] = <<ai, L[k], work[k].found[n]>> /\ F(k)[n] \in Triple
        /\ work[k].found[m] < work[k].found[n]
    BY <1>4, <1>5, <1>6
  <2>2. HitBefore(call, F(k)[m], F(k)[n])
    BY <2>1 DEF HitBefore
  <2> QED
    BY <2>1, <2>2 DEF Order
<1>8. ASSUME NEW k \in DOMAIN ss, NEW m \in DOMAIN ss, k < m,
             NEW i \in DOMAIN ss[k], NEW j \in DOMAIN ss[m]
      PROVE  <<ss[k][i], ss[m][j]>> \in R
  <2>1. /\ ss[k][i] = <<ai, L[k], work[k].found[i]>> /\ ss[k][i] \in Triple
        /\ ss[m][j] = <<ai, L[m], work[m].found[j]>> /\ ss[m][j] \in Triple
    BY <1>5, <1>6
  <2>2. Rank(call, L[k]) < Rank(call, L[m])
    BY <1>1, <1>6, <1>8
  <2>3. HitBefore(call, ss[k][i], ss[m][j])
    BY <2>1, <2>2 DEF HitBefore
  <2> QED
    BY <2>1, <2>3 DEF Order
<1>9. Flattened(FlattenSeq(ss), ss, N, R, Triple)
  <2> HIDE DEF R
  <2> QED
    BY <1>6, <1>7, <1>8, FlattenFacts
<1> DEFINE s == FlattenSeq(ss)
<1>10. Collected = s
  BY Zenon DEF Collected, ss, F, L
<1> HIDE DEF s
<1>11. /\ s \in Seq(Triple) /\ InOrder(s, R)
       /\ \A k \in 1 .. N : \A i \in DOMAIN ss[k] : \E m \in DOMAIN s : s[m] = ss[k][i]
       /\ \A m \in DOMAIN s : \E k \in 1 .. N : \E i \in DOMAIN ss[k] : s[m] = ss[k][i]
  BY <1>9 DEF Flattened, s
<1>12. ASSUME NEW h
       PROVE  (\E k \in DOMAIN L : \E n \in DOMAIN ss[k] : ss[k][n] = h) <=> h \in HitsOf(call, ai)
  <2>1. ASSUME NEW k \in DOMAIN L, NEW n \in DOMAIN ss[k], ss[k][n] = h
        PROVE  h \in HitsOf(call, ai)
    <3> DEFINE o == work[k].found[n]
    <3>1. h = <<ai, L[k], o>> /\ n \in DOMAIN work[k].found
      BY <1>5, <1>6, <2>1
    <3>2. /\ o \in 0 .. call.dump /\ o < WindowsOf(call, L[k])
          /\ <<call.algos[ai], L[k], o>> \in call.match
      BY <1>4, <3>1
    <3> HIDE DEF o
    <3>3. L[k] \in LengthSet(call) /\ ai \in 1 .. ai
      BY <1>1, <1>2
    <3> QED
      BY <3>1, <3>2, <3>3 DEF HitsOf, HitSet
  <2>2. ASSUME h \in HitsOf(call, ai)
        PROVE  \E k \in DOMAIN L : \E n \in DOMAIN ss[k] : ss[k][n] = h
    <3>1. /\ h \in (1 .. ai) \X LengthSet(call) \X (0 .. call.dump) /\ h[1] = ai
          /\ h[3] < WindowsOf(call, h[2]) /\ <<call.algos[h[1]], h[2], h[3]>> \in call.match
      BY <2>2 DEF HitsOf, HitSet
    <3>2. h[2] \in LengthSet(call) /\ h[3] \in 0 .. call.dump /\ h = <<ai, h[2], h[3]>>
      BY <3>1
    <3>3. PICK k \in DOMAIN L : L[k] = h[2]
      BY <1>1, <3>2
    <3>4. PICK n \in DOMAIN work[k].found : work[k].found[n] = h[3]
      BY <1>4, <3>1, <3>2, <3>3
    <3>5. n \in DOMAIN ss[k] /\ ss[k][n] = <<ai, L[k], work[k].found[n]>>
      BY <1>5, <1>6
    <3> QED
      BY <3>2, <3>3, <3>4, <3>5
  <2> QED
    BY <2>1, <2>2
<1>13. ToSet(s) = HitsOf(call, ai)
  <2>1. ASSUME NEW h PROVE h \in ToSet(s) <=> h \in HitsOf(call, ai)
    <3>1. h \in ToSet(s) <=> \E m \in DOMAIN s : s[m] = h
      BY DEF ToSet
    <3>2. (\E m \in DOMAIN s : s[m] = h) <=>
             \E k \in DOMAIN L : \E n \in DOMAIN ss[k] : ss[k][n] = h
      <4>1. DOMAIN L = 1 .. N
        BY <1>2
      <4>2. ASSUME NEW m \in DOMAIN s, s[m] = h
            PROVE  \E k \in DOMAIN L : \E n \in DOMAIN ss[k] : ss[k][n] = h
        BY <1>11, <4>1, <4>2
      <4>3. ASSUME NEW k \in DOMAIN L, NEW n \in DOMAIN ss[k], ss[k][n] = h
            PROVE  \E m \in DOMAIN s : s[m] = h
        BY <1>11, <4>1, <4>3
      <4> QED
        BY Zenon, <4>2, <4>3
    <3> QED
      BY Zenon, <1>12, <3>1, <3>2
  <2> QED
    BY Zenon, <2>1
<1>14. 0 \notin LengthSet(call)
  BY <1>1, <1>4
<1> QED
  BY <1>10, <1>11, <1>13, <1>14

\* The hits of a pass behind those of the algorithms before it.
LEMMA HitsMore ==
  ASSUME NEW c \in Calls, NEW i \in DOMAIN c.algos, NEW s, ListsHits(c, s, i - 1),
         NEW u \in Seq(Triple), InOrder(u, Order(c)), ToSet(u) = HitsOf(c, i)
  PROVE  ListsHits(c, s \o u, i)
<1> DEFINE R == Order(c)
           w == s \o u
<1>1. s \in Seq(Triple) /\ InOrder(s, R) /\ ToSet(s) = HitSet(c, i - 1)
  BY DEF ListsHits
<1>2. i \in Nat \ {0} /\ i - 1 \in Nat
  BY CallFacts
<1>3. ASSUME NEW k \in DOMAIN s, NEW m \in DOMAIN u PROVE <<s[k], u[m]>> \in R
  <2>1. s[k] \in HitSet(c, i - 1) /\ u[m] \in HitsOf(c, i)
    BY <1>1 DEF ToSet
  <2>2. s[k][1] \in 1 .. i - 1 /\ s[k] \in Triple /\ u[m] \in Triple /\ u[m][1] = i
    BY <1>2, <2>1, HitSetFacts DEF HitsOf
  <2>3. s[k][1] < u[m][1]
    BY <1>2, <2>2
  <2> QED
    BY <2>2, <2>3 DEF Order, HitBefore
<1> HIDE DEF R
<1>4. w \in Seq(Triple) /\ Joined(w, s, u) /\ InOrder(w, R)
  <2>1. InOrder(u, R)
    BY DEF R
  <2> QED
    BY <1>1, <1>3, <2>1, CatOrder
<1> HIDE DEF w
<1>5. ToSet(w) = ToSet(s) \cup ToSet(u)
  BY <1>4 DEF ToSet, Joined
<1>6. HitSet(c, i) = HitSet(c, i - 1) \cup HitsOf(c, i)
  <2>1. ASSUME NEW h \in HitSet(c, i) PROVE h \in HitSet(c, i - 1) \/ h \in HitsOf(c, i)
    <3>1. h[1] \in 1 .. i
      BY <1>2, HitSetFacts
    <3>2. h[1] = i \/ h[1] <= i - 1
      BY <1>2, <3>1
    <3> QED
      BY <1>2, <3>2, HitSetFacts DEF HitsOf
  <2>2. ASSUME NEW h \in HitSet(c, i - 1) PROVE h \in HitSet(c, i)
    <3>1. h[1] \in 1 .. i - 1
      BY <1>2, HitSetFacts
    <3>2. h[1] <= i
      BY <1>2, <3>1
    <3> QED
      BY <1>2, <3>2, HitSetFacts
  <2>3. HitsOf(c, i) \subseteq HitSet(c, i)
    BY DEF HitsOf
  <2> QED
    BY <2>1, <2>2, <2>3
<1> QED
  BY <1>1, <1>4, <1>5, <1>6 DEF ListsHits, R, w
-----------------------------------------------------------------------------
(* The answer. *)

\* The list s reaches the limit of a call.
Cut(c, s) == c.kind = "preimage" /\ c.maxHits > 0 /\ Len(s) >= c.maxHits

\* After n passes, all over or cut at the limit, the answer is the one that
\* the call determines, and n is the number of algorithms it gets to.
LEMMA AnswerFacts ==
  ASSUME NEW c \in Calls, NEW n \in 0 .. Len(c.algos), NEW s, ListsHits(c, s, n),
         ~(c.kind = "preimage" /\ c.digest = 0),
         \A i \in 1 .. n : Fits(c, i) /\ Gets(c, i),
         Cut(c, s) \/ (n = Len(c.algos) /\ Gets(c, n + 1))
  PROVE  /\ ~Refused(c)
         /\ ListsFirst(c, IF Cut(c, s) THEN SubSeq(s, 1, c.maxHits) ELSE s,
                       HitSet(c, Len(c.algos)), Limit(c))
         /\ Cardinality({i \in DOMAIN c.algos : Gets(c, i)}) = n
<1> DEFINE N == Len(c.algos)
<1>1. /\ N \in Nat /\ n \in Nat /\ n <= N /\ DOMAIN c.algos = 1 .. N /\ c.maxHits \in Nat
      /\ c.kind \in {"preimage", "hmac"}
  BY CallFacts
<1>2. Len(s) \in Nat /\ Len(s) = Cardinality(HitSet(c, n))
  BY <1>1, ListSize
<1>3. ASSUME NEW i \in DOMAIN c.algos, ~(i \in 1 .. n) PROVE ~Gets(c, i)
  <2>1. i \in 1 .. N /\ i - 1 \in Nat /\ n <= i - 1
    BY <1>1, <1>3
  <2>2. Cut(c, s)
    BY <1>1, <1>3, <2>1
  <2>3. Cardinality(HitSet(c, n)) <= Cardinality(HitSet(c, i - 1))
    BY <1>1, <2>1, HitSetGrows
  <2>4. Cardinality(HitSet(c, i - 1)) \in Nat
    BY <2>1, HitSetFacts
  <2>5. c.kind # "hmac" /\ c.maxHits # 0 /\ ~(Cardinality(HitSet(c, i - 1)) < c.maxHits)
    BY <1>1, <1>2, <2>2, <2>3, <2>4 DEF Cut
  <2> QED
    BY <2>5 DEF Gets
<1>4. ~Refused(c)
  BY <1>3 DEF Refused
<1>5. {i \in DOMAIN c.algos : Gets(c, i)} = 1 .. n
  <2>1. 1 .. n \subseteq DOMAIN c.algos
    BY <1>1
  <2> QED
    BY <1>3, <2>1
<1>6. Cardinality(1 .. n) = n
  <2>1. n \in Int /\ 1 \in Int
    BY <1>1
  <2>2. Cardinality(1 .. n) = IF 1 > n THEN 0 ELSE n - 1 + 1
    BY <2>1, FS_Interval
  <2> QED
    BY <1>1, <2>2
<1>7. CASE Cut(c, s)
  <2>1. c.maxHits \in Nat /\ c.maxHits <= Len(s) /\ Limit(c) = c.maxHits
    BY <1>1, <1>2, <1>7 DEF Cut, Limit
  <2>2. ListsFirst(c, SubSeq(s, 1, c.maxHits), HitSet(c, N), c.maxHits)
    BY <2>1, AnswerCut
  <2> QED
    BY <1>4, <1>5, <1>6, <1>7, <2>1, <2>2
<1>8. CASE ~Cut(c, s)
  <2>1. n = N /\ Gets(c, n + 1) /\ (n + 1) - 1 = n
    BY <1>1, <1>8
  <2>2. Len(s) <= Limit(c) /\ Limit(c) \in Nat
    <3>1. CASE c.kind = "hmac" \/ c.maxHits = 0
      BY <1>2, <2>1, <3>1 DEF Limit
    <3>2. CASE ~(c.kind = "hmac" \/ c.maxHits = 0)
      <4>1. Limit(c) = c.maxHits /\ Cardinality(HitSet(c, n)) < c.maxHits
        BY <2>1, <3>2 DEF Limit, Gets
      <4> QED
        BY <1>1, <1>2, <4>1
    <3> QED
      BY <3>1, <3>2
  <2>3. ListsFirst(c, s, HitSet(c, N), Limit(c))
    <3>1. ListsHits(c, s, Len(c.algos))
      BY <2>1
    <3> QED
      BY <2>2, <3>1, AnswerAll
  <2> QED
    BY <1>4, <1>5, <1>6, <1>8, <2>3
<1> QED
  BY <1>7, <1>8

\* No algorithm, no hits.
LEMMA NoHits ==
  ASSUME NEW c \in Calls
  PROVE  ListsHits(c, <<>>, 0) /\ Gets(c, 1)
<1>1. HitSet(c, 0) = {}
  BY DEF HitSet
<1>2. Cardinality(HitSet(c, 1 - 1)) = 0
  BY <1>1, FS_EmptySet
<1>3. ListsHits(c, <<>>, 0)
  BY <1>1 DEF ListsHits, InOrder, ToSet
<1>4. Gets(c, 1)
  BY <1>2, CallFacts DEF Gets
<1> QED
  BY <1>3, <1>4
-----------------------------------------------------------------------------
(* The steps of a search. *)

\* The refusal of an empty digest, or the start of the loop.
LEMMA BeginKeeps == HashInv /\ Begin => HashInv'
<1> SUFFICES ASSUME HashInv, Begin PROVE HashInv'
  OBVIOUS
<1>1. /\ pc = "start" /\ UNCHANGED <<call, ai, work, tried, hits>>
      /\ pc' = IF call.kind = "preimage" /\ call.digest = 0 THEN "err" ELSE "algo"
  BY DEF Begin
<1>2. /\ CallInv /\ TypeInv /\ ai = 1 /\ work = <<>> /\ hits = <<>>
      /\ tried = PassSize(call) * (ai - 1) /\ call \in Calls
  BY <1>1 DEF HashInv, TypeInv, WorkInv, LoopInv, CountInv, CallInv
<1>3. CallInv' /\ TypeInv' /\ WorkInv' /\ CountInv'
  BY <1>1, <1>2 DEF CallInv, TypeInv, WorkInv, CountInv
<1>4. LoopInv'
  <2>1. ListsHits(call, hits, ai - 1) /\ \A i \in 1 .. ai : Gets(call, i)
    BY <1>2, NoHits
  <2>2. 1 .. ai - 1 = {} /\ ~(ai > 1)
    BY <1>2
  <2> QED
    BY <1>1, <1>2, <2>1, <2>2 DEF LoopInv
<1>5. HashAnswerExact' /\ HashTriedExact'
  BY <1>1 DEF HashAnswerExact, HashTriedExact, Refused
<1> QED
  BY <1>3, <1>4, <1>5 DEF HashInv

\* A digest that does not fit.
LEMMA MismatchKeeps == HashInv /\ Mismatch => HashInv'
<1> SUFFICES ASSUME HashInv, Mismatch PROVE HashInv'
  OBVIOUS
<1>1. /\ pc = "algo" /\ ai \in DOMAIN call.algos /\ ~Fits(call, ai)
      /\ pc' = "err" /\ hits' = <<>> /\ UNCHANGED <<call, ai, work, tried>>
  BY DEF Mismatch, AtAlgo
<1>2. CallInv /\ TypeInv /\ work = <<>> /\ Gets(call, ai)
  <2>1. TypeInv /\ ai \in 1 .. ai
    BY DEF HashInv, TypeInv
  <2> QED
    BY <1>1, <2>1 DEF HashInv, WorkInv, LoopInv
<1>3. Refused(call)
  BY <1>1, <1>2 DEF Refused
<1>4. CallInv' /\ TypeInv' /\ WorkInv' /\ CountInv' /\ LoopInv'
  BY <1>1, <1>2 DEF CallInv, TypeInv, WorkInv, CountInv, LoopInv
<1>5. HashAnswerExact' /\ HashTriedExact'
  BY <1>1, <1>3 DEF HashAnswerExact, HashTriedExact
<1> QED
  BY <1>4, <1>5 DEF HashInv

\* The start of a pass.
LEMMA BeginPassKeeps == HashInv /\ BeginPass => HashInv'
<1> SUFFICES ASSUME HashInv, BeginPass PROVE HashInv'
  OBVIOUS
<1>1. /\ pc = "algo" /\ ai \in DOMAIN call.algos /\ Fits(call, ai)
      /\ pc' = "pass" /\ work' = [k \in DOMAIN Lengths(call) |-> Idle]
      /\ UNCHANGED <<call, ai, tried, hits>>
  BY DEF BeginPass, AtAlgo
<1>2. CallInv /\ TypeInv /\ LoopInv /\ CountInv /\ call \in Calls
  BY DEF HashInv, CallInv
<1>3. CallInv' /\ TypeInv' /\ LoopInv'
  BY <1>1, <1>2 DEF CallInv, TypeInv, LoopInv
<1>4. PassDone(call, ai, work')
  <2>1. \A k \in DOMAIN Lengths(call) : Lengths(call)[k] \in Nat
    BY <1>2, LengthsPlaces
  <2>2. \A k \in DOMAIN Lengths(call) : LengthDone(call, ai, Lengths(call)[k], Idle)
    BY <1>2, <2>1, IdleDone
  <2> QED
    BY <1>1, <2>2 DEF PassDone
<1>5. WorkInv'
  BY <1>1, <1>4 DEF WorkInv
<1>6. TriedWindows(call, work') = {}
  <2>1. \A k \in DOMAIN work' : work'[k].next = None
    BY <1>1 DEF Idle
  <2>2. \A o \in 0 .. call.dump : ~(o < None)
    BY <1>2, CallFacts DEF None
  <2> QED
    BY <2>1, <2>2 DEF TriedWindows
<1>7. CountInv'
  <2>1. tried = PassSize(call) * (ai - 1)
    BY <1>1, <1>2 DEF CountInv
  <2>2. Cardinality(TriedWindows(call, work')) = 0
    BY <1>6, FS_EmptySet
  <2>3. tried = PassSize(call) * (ai - 1) + 0
    BY <1>2, <2>1 DEF TypeInv
  <2> QED
    BY <1>1, <2>2, <2>3 DEF CountInv
<1>8. HashAnswerExact' /\ HashTriedExact'
  BY <1>1 DEF HashAnswerExact, HashTriedExact
<1> QED
  BY <1>3, <1>5, <1>7, <1>8 DEF HashInv

\* A step of one thread keeps what the loop knows.
LEMMA ThreadFacts ==
  ASSUME HashInv, pc = "pass"
  PROVE  /\ CallInv /\ TypeInv /\ LoopInv /\ call \in Calls /\ ai \in DOMAIN call.algos
         /\ PassDone(call, ai, work) /\ DOMAIN work = DOMAIN Lengths(call)
         /\ \A k \in DOMAIN work :
              /\ Lengths(call)[k] \in Nat /\ Lengths(call)[k] \in LengthSet(call)
              /\ LengthDone(call, ai, Lengths(call)[k], work[k])
         /\ tried = PassSize(call) * (ai - 1) + Cardinality(TriedWindows(call, work))
<1>1. /\ CallInv /\ TypeInv /\ LoopInv /\ call \in Calls /\ ai \in DOMAIN call.algos
      /\ PassDone(call, ai, work)
      /\ tried = PassSize(call) * (ai - 1) + Cardinality(TriedWindows(call, work))
  BY DEF HashInv, CallInv, WorkInv, CountInv
<1>2. /\ DOMAIN work = DOMAIN Lengths(call)
      /\ \A k \in DOMAIN work : LengthDone(call, ai, Lengths(call)[k], work[k])
  BY <1>1 DEF PassDone
<1>3. \A k \in DOMAIN work :
        Lengths(call)[k] \in Nat /\ Lengths(call)[k] \in LengthSet(call)
  BY <1>1, <1>2, LengthsPlaces
<1> QED
  BY <1>1, <1>2, <1>3

\* A thread gets a length.
LEMMA StartLengthKeeps ==
  ASSUME HashInv, NEW k \in DOMAIN work, StartLength(k)
  PROVE  HashInv'
<1>1. /\ pc = "pass" /\ work[k].next = None /\ Lengths(call)[k] > 0
      /\ work' = [work EXCEPT ![k].next = 0]
      /\ UNCHANGED <<call, pc, ai, tried, hits>>
  BY DEF StartLength
<1>2. /\ CallInv /\ TypeInv /\ LoopInv /\ call \in Calls /\ ai \in DOMAIN call.algos
      /\ DOMAIN work = DOMAIN Lengths(call)
      /\ \A m \in DOMAIN work :
           /\ Lengths(call)[m] \in Nat
           /\ LengthDone(call, ai, Lengths(call)[m], work[m])
      /\ tried = PassSize(call) * (ai - 1) + Cardinality(TriedWindows(call, work))
  BY <1>1, ThreadFacts
<1>3. /\ DOMAIN work' = DOMAIN work /\ work' = [m \in DOMAIN work |-> work'[m]]
      /\ work'[k] = [work[k] EXCEPT !.next = 0]
      /\ \A m \in DOMAIN work \ {k} : work'[m] = work[m]
  BY <1>1
<1>4. LengthDone(call, ai, Lengths(call)[k], work'[k])
  <2>1. /\ Lengths(call)[k] \in Nat /\ Lengths(call)[k] > 0
        /\ LengthDone(call, ai, Lengths(call)[k], work[k]) /\ work[k].next = None
    BY <1>1, <1>2
  <2> DEFINE l == Lengths(call)[k]
             w == work[k]
  <2> HIDE DEF l, w
  <2>2. LengthDone(call, ai, l, [w EXCEPT !.next = 0])
    <3>1. l \in Nat /\ l > 0 /\ LengthDone(call, ai, l, w) /\ w.next = None
      BY <2>1 DEF l, w
    <3> QED
      BY <1>2, <3>1, StartDone
  <2> QED
    BY <1>3, <2>2 DEF l, w
<1>5. PassDone(call, ai, work')
  BY <1>2, <1>3, <1>4 DEF PassDone
<1>6. TriedWindows(call, work') = TriedWindows(call, work)
  <2>1. work'[k].next = 0
    <3>1. work[k] \in [next : None .. WindowsOf(call, Lengths(call)[k]),
                       found : Seq(0 .. call.dump)]
      BY <1>2 DEF LengthDone
    <3> QED
      BY <1>3, <3>1
  <2> DEFINE wl == work'
  <2>2. /\ work[k].next = None /\ DOMAIN wl = DOMAIN work
        /\ \A m \in DOMAIN work \ {k} : wl[m] = work[m]
        /\ wl[k].next = 0
    BY <1>1, <1>3, <2>1
  <2> HIDE DEF wl
  <2>3. TriedWindows(call, wl) = TriedWindows(call, work)
    BY <1>2, <2>2, TriedStart
  <2> QED
    BY <2>3 DEF wl
<1>7. CallInv' /\ TypeInv' /\ LoopInv' /\ CountInv' /\ WorkInv'
  BY <1>1, <1>2, <1>5, <1>6 DEF CallInv, TypeInv, LoopInv, CountInv, WorkInv
<1>8. HashAnswerExact' /\ HashTriedExact'
  BY <1>1 DEF HashAnswerExact, HashTriedExact
<1> QED
  BY <1>7, <1>8 DEF HashInv

\* A thread gets the length 0.
LEMMA StartZeroKeeps ==
  ASSUME HashInv, NEW k \in DOMAIN work, StartZero(k)
  PROVE  HashInv'
<1>1. /\ pc = "pass" /\ Lengths(call)[k] = 0 /\ pc' = "panic"
      /\ UNCHANGED <<call, ai, work, tried, hits>>
  BY DEF StartZero
<1>2. /\ CallInv /\ TypeInv /\ LoopInv /\ ai \in DOMAIN call.algos
      /\ PassDone(call, ai, work) /\ Lengths(call)[k] \in LengthSet(call)
  BY <1>1, ThreadFacts
<1>3. CallInv' /\ TypeInv' /\ LoopInv' /\ CountInv' /\ WorkInv'
  BY <1>1, <1>2 DEF CallInv, TypeInv, LoopInv, CountInv, WorkInv
<1>4. HashAnswerExact' /\ HashTriedExact'
  BY <1>1, <1>2 DEF HashAnswerExact, HashTriedExact
<1> QED
  BY <1>3, <1>4 DEF HashInv

\* A thread tries a window.
LEMMA TryWindowKeeps ==
  ASSUME HashInv, NEW k \in DOMAIN work, TryWindow(k)
  PROVE  HashInv'
<1> DEFINE l == Lengths(call)[k]
           w == work[k]
           o == w.next
           v == [next |-> o + 1,
                 found |-> IF <<call.algos[ai], l, o>> \in call.match
                           THEN Append(w.found, o) ELSE w.found]
<1>1. /\ pc = "pass" /\ o \in 0 .. WindowsOf(call, l) - 1 /\ tried' = tried + 1
      /\ work' = [work EXCEPT ![k] = v] /\ UNCHANGED <<call, pc, ai, hits>>
  BY DEF TryWindow
<1>2. /\ CallInv /\ TypeInv /\ LoopInv /\ call \in Calls /\ ai \in DOMAIN call.algos
      /\ DOMAIN work = DOMAIN Lengths(call)
      /\ \A m \in DOMAIN work :
           /\ Lengths(call)[m] \in Nat
           /\ LengthDone(call, ai, Lengths(call)[m], work[m])
      /\ tried = PassSize(call) * (ai - 1) + Cardinality(TriedWindows(call, work))
  BY <1>1, ThreadFacts
<1>3. LengthDone(call, ai, l, v)
  <2>1. l \in Nat /\ LengthDone(call, ai, l, w) /\ w.next \in 0 .. WindowsOf(call, l) - 1
    BY <1>1, <1>2
  <2> HIDE DEF l, w
  <2> QED
    BY <1>2, <2>1, TryDone
<1>4. o \in 0 .. call.dump /\ v.next = o + 1
  <2>1. l \in Nat
    BY <1>2
  <2> HIDE DEF l, w
  <2>2. WindowsOf(call, l) \in 0 .. call.dump + 1 /\ call.dump \in Nat
    BY <1>2, <2>1, WindowsFacts, CallFacts
  <2> QED
    BY <1>1, <2>2
<1> HIDE DEF v
<1>5. /\ DOMAIN work' = DOMAIN work /\ work' = [m \in DOMAIN work |-> work'[m]]
      /\ work'[k] = v /\ \A m \in DOMAIN work \ {k} : work'[m] = work[m]
  BY <1>1
<1>6. PassDone(call, ai, work')
  BY <1>2, <1>3, <1>5 DEF PassDone
<1>7. Cardinality(TriedWindows(call, work')) = Cardinality(TriedWindows(call, work)) + 1
  <2>1. work[k].next \in 0 .. call.dump /\ work'[k].next = work[k].next + 1
    BY <1>4, <1>5
  <2> QED
    BY <1>2, <1>5, <2>1, TriedNext
<1>8. tried' = PassSize(call) * (ai - 1) + Cardinality(TriedWindows(call, work')) /\ tried' \in Nat
  <2> DEFINE a == PassSize(call) * (ai - 1)
             b == Cardinality(TriedWindows(call, work))
  <2>1. PassSize(call) \in Nat /\ b \in Nat /\ ai - 1 \in Nat
    <3>1. PassSize(call) \in Nat /\ b \in Nat
      BY <1>2, WindowsFinite
    <3>2. ai \in Nat \ {0}
      BY <1>2, CallFacts
    <3> QED
      BY <3>1, <3>2
  <2>2. a \in Nat
    BY <2>1
  <2> HIDE DEF a, b
  <2>3. a + b + 1 = a + (b + 1)
    BY <2>1, <2>2
  <2> QED
    BY <1>1, <1>2, <1>7, <2>1, <2>2, <2>3 DEF a, b
<1>9. CallInv' /\ TypeInv' /\ LoopInv' /\ CountInv' /\ WorkInv'
  BY <1>1, <1>2, <1>6, <1>8 DEF CallInv, TypeInv, LoopInv, CountInv, WorkInv
<1>10. HashAnswerExact' /\ HashTriedExact'
  BY <1>1 DEF HashAnswerExact, HashTriedExact
<1> QED
  BY <1>9, <1>10 DEF HashInv
\* The end of a pass.
LEMMA CollectKeeps == HashInv /\ Collect => HashInv'
<1> SUFFICES ASSUME HashInv, Collect PROVE HashInv'
  OBVIOUS
<1> DEFINE all == hits \o Collected
           cut == Cut(call, all)
<1>1. /\ pc = "pass" /\ PassOver
      /\ hits' = IF cut THEN SubSeq(all, 1, call.maxHits) ELSE all
      /\ pc' = IF cut THEN "ok" ELSE "algo"
      /\ ai' = ai + 1 /\ work' = <<>> /\ UNCHANGED <<call, tried>>
  BY DEF Collect, Cut, Limited
<1>2. /\ CallInv /\ TypeInv /\ LoopInv /\ call \in Calls /\ ai \in DOMAIN call.algos
      /\ PassDone(call, ai, work) /\ DOMAIN work = DOMAIN Lengths(call)
      /\ tried = PassSize(call) * (ai - 1) + Cardinality(TriedWindows(call, work))
  BY <1>1, ThreadFacts
<1>3. /\ ~(call.kind = "preimage" /\ call.digest = 0)
      /\ \A i \in 1 .. ai - 1 : Fits(call, i)
      /\ \A i \in 1 .. ai : Gets(call, i)
      /\ ListsHits(call, hits, ai - 1) /\ Fits(call, ai)
  BY <1>1, <1>2 DEF LoopInv
<1>4. /\ ai \in Nat \ {0} /\ ai \in 1 .. Len(call.algos) /\ Len(call.algos) \in Nat
      /\ (ai + 1) - 1 = ai
  BY <1>2, CallFacts
<1>5. /\ Collected \in Seq(Triple) /\ InOrder(Collected, Order(call))
      /\ ToSet(Collected) = HitsOf(call, ai) /\ 0 \notin LengthSet(call)
  BY <1>1, <1>2, CollectedFacts
<1>6. ListsHits(call, all, ai)
  <2> DEFINE u == Collected
  <2>1. u \in Seq(Triple) /\ InOrder(u, Order(call)) /\ ToSet(u) = HitsOf(call, ai)
    BY <1>5
  <2> HIDE DEF u
  <2>2. ListsHits(call, hits \o u, ai)
    BY <1>2, <1>3, <2>1, HitsMore
  <2> QED
    BY <2>2 DEF u
<1> HIDE DEF all
<1>7. Len(all) \in Nat /\ Len(all) = Cardinality(HitSet(call, ai)) /\ all \in Seq(Triple)
  <2>1. ai \in Nat
    BY <1>4
  <2>2. Len(all) \in Nat /\ Len(all) = Cardinality(HitSet(call, ai))
    BY <1>2, <1>6, <2>1, ListSize
  <2> QED
    BY <1>6, <2>2 DEF ListsHits
<1>8. \A i \in 1 .. ai : Fits(call, i) /\ Gets(call, i)
  <2>1. \A i \in 1 .. ai : i \in 1 .. ai - 1 \/ i = ai
    BY <1>4
  <2> QED
    BY <1>3, <2>1
<1>9. tried = PassSize(call) * ai
  <2> DEFINE P == PassSize(call)
  <2>1. P \in Nat
    BY <1>2, WindowsFinite
  <2>2. Cardinality(TriedWindows(call, work)) = P
    BY <1>1, <1>2, TriedAll DEF PassOver
  <2> HIDE DEF P
  <2>3. P * (ai - 1) + P = P * ai
    BY <1>4, <2>1
  <2> QED
    BY <1>2, <2>2, <2>3 DEF P
<1>10. CallInv' /\ WorkInv'
  BY <1>1, <1>2 DEF CallInv, WorkInv
<1>11. hits' \in Seq(Triple)
  <2>1. call.maxHits \in Nat
    BY <1>2, CallFacts
  <2>2. cut => call.maxHits <= Len(all)
    BY <1>7, <2>1 DEF Cut
  <2> HIDE DEF cut
  <2> QED
    BY <1>1, <1>7, <2>1, <2>2
<1>12. TypeInv'
  <2>1. ai' \in 1 .. Len(call.algos) + 1
    BY <1>1, <1>4
  <2> QED
    BY <1>1, <1>2, <1>11, <2>1 DEF TypeInv
<1>13. CASE cut
  <2>1. /\ ~Refused(call)
        /\ ListsFirst(call, SubSeq(all, 1, call.maxHits),
                      HitSet(call, Len(call.algos)), Limit(call))
        /\ Cardinality({i \in DOMAIN call.algos : Gets(call, i)}) = ai
    <3> DEFINE n == ai
    <3>1. /\ n \in 0 .. Len(call.algos) /\ ListsHits(call, all, n)
          /\ ~(call.kind = "preimage" /\ call.digest = 0)
          /\ \A i \in 1 .. n : Fits(call, i) /\ Gets(call, i)
          /\ Cut(call, all)
      BY <1>3, <1>4, <1>6, <1>8, <1>13
    <3> HIDE DEF n, cut
    <3>2. /\ ~Refused(call)
          /\ ListsFirst(call, IF Cut(call, all) THEN SubSeq(all, 1, call.maxHits) ELSE all,
                        HitSet(call, Len(call.algos)), Limit(call))
          /\ Cardinality({i \in DOMAIN call.algos : Gets(call, i)}) = n
      BY Zenon, <1>2, <3>1, AnswerFacts
    <3>3. Cut(call, all)
      BY <1>13 DEF cut
    <3> QED
      BY <3>2, <3>3 DEF n
  <2>2. pc' = "ok" /\ hits' = SubSeq(all, 1, call.maxHits)
    BY <1>1, <1>13
  <2>3. HashAnswerExact' /\ HashTriedExact'
    BY <1>1, <1>5, <1>9, <2>1, <2>2 DEF HashAnswerExact, HashTriedExact
  <2>4. LoopInv' /\ CountInv'
    BY <2>2 DEF LoopInv, CountInv
  <2> QED
    BY <1>10, <1>12, <2>3, <2>4 DEF HashInv
<1>14. CASE ~cut
  <2>1. pc' = "algo" /\ hits' = all
    BY <1>1, <1>14
  <2>2. Gets(call, ai + 1)
    <3>1. call.kind \in {"preimage", "hmac"} /\ call.maxHits \in Nat
      BY <1>2, CallFacts
    <3>2. \/ call.kind = "hmac" \/ call.maxHits = 0
          \/ Cardinality(HitSet(call, ai)) < call.maxHits
      BY <1>7, <1>14, <3>1 DEF Cut
    <3> QED
      BY <1>4, <3>2 DEF Gets
  <2>3. \A i \in 1 .. ai + 1 : Gets(call, i)
    <3>1. \A i \in 1 .. ai + 1 : i \in 1 .. ai \/ i = ai + 1
      BY <1>4
    <3> QED
      BY <1>8, <2>2, <3>1
  <2>4. LoopInv'
    <3>1. \A i \in 1 .. (ai + 1) - 1 : Fits(call, i)
      BY <1>4, <1>8
    <3>2. ListsHits(call, all, (ai + 1) - 1)
      BY <1>4, <1>6
    <3> QED
      BY <1>1, <1>3, <1>5, <2>1, <2>3, <3>1, <3>2 DEF LoopInv
  <2>5. CountInv'
    BY <1>1, <1>4, <1>9, <2>1 DEF CountInv
  <2>6. HashAnswerExact' /\ HashTriedExact'
    BY <2>1 DEF HashAnswerExact, HashTriedExact
  <2> QED
    BY <1>10, <1>12, <2>4, <2>5, <2>6 DEF HashInv
<1> QED
  BY <1>13, <1>14

\* The end of the loop.
LEMMA ReturnKeeps == HashInv /\ Return => HashInv'
<1> SUFFICES ASSUME HashInv, Return PROVE HashInv'
  OBVIOUS
<1>1. /\ pc = "algo" /\ ai \notin DOMAIN call.algos /\ pc' = "ok"
      /\ UNCHANGED <<call, ai, work, tried, hits>>
  BY DEF Return
<1>2. /\ CallInv /\ TypeInv /\ LoopInv /\ call \in Calls /\ call.algos # <<>>
      /\ tried = PassSize(call) * (ai - 1) /\ work = <<>>
  BY <1>1 DEF HashInv, CallInv, CountInv, WorkInv
<1> DEFINE n == Len(call.algos)
<1>3. n \in Nat /\ n # 0 /\ ai = n + 1 /\ ai - 1 = n /\ ai > 1
  <2>1. n \in Nat /\ DOMAIN call.algos = 1 .. n /\ call.algos \in Seq(Algos)
    BY <1>2, CallFacts
  <2>2. n # 0
    BY <1>2, <2>1
  <2>3. ai \in 1 .. n + 1 /\ ai \notin 1 .. n
    BY <1>1, <1>2, <2>1 DEF TypeInv
  <2> HIDE DEF n
  <2> QED
    BY <2>1, <2>2, <2>3
<1>4. /\ ~(call.kind = "preimage" /\ call.digest = 0)
      /\ \A i \in 1 .. n : Fits(call, i)
      /\ \A i \in 1 .. n + 1 : Gets(call, i)
      /\ 0 \notin LengthSet(call) /\ ListsHits(call, hits, n)
  <2> HIDE DEF n
  <2> QED
    BY <1>1, <1>2, <1>3 DEF LoopInv
<1>5. ~Cut(call, hits)
  <2>1. Gets(call, n + 1) /\ (n + 1) - 1 = n
    BY <1>3, <1>4
  <2>2. Len(hits) \in Nat /\ Len(hits) = Cardinality(HitSet(call, n))
    BY <1>2, <1>3, <1>4, ListSize
  <2>3. call.maxHits \in Nat
    BY <1>2, CallFacts
  <2> HIDE DEF n
  <2> QED
    BY <2>1, <2>2, <2>3 DEF Gets, Cut
<1>6. /\ ~Refused(call)
      /\ ListsFirst(call, hits, HitSet(call, n), Limit(call))
      /\ Cardinality({i \in DOMAIN call.algos : Gets(call, i)}) = n
  <2>1. /\ n \in 0 .. Len(call.algos) /\ ListsHits(call, hits, n)
        /\ ~(call.kind = "preimage" /\ call.digest = 0)
        /\ \A i \in 1 .. n : Fits(call, i) /\ Gets(call, i)
        /\ n = Len(call.algos) /\ Gets(call, n + 1)
    BY <1>3, <1>4
  <2>2. /\ ~Refused(call)
        /\ ListsFirst(call, IF Cut(call, hits) THEN SubSeq(hits, 1, call.maxHits) ELSE hits,
                      HitSet(call, Len(call.algos)), Limit(call))
        /\ Cardinality({i \in DOMAIN call.algos : Gets(call, i)}) = n
    <3> HIDE DEF n
    <3> QED
      BY <1>2, <2>1, AnswerFacts
  <2> QED
    BY <1>5, <2>2
<1>7. HashAnswerExact' /\ HashTriedExact'
  BY <1>1, <1>2, <1>3, <1>4, <1>6 DEF HashAnswerExact, HashTriedExact
<1>8. CallInv' /\ TypeInv' /\ LoopInv' /\ CountInv' /\ WorkInv'
  BY <1>1, <1>2 DEF CallInv, TypeInv, LoopInv, CountInv, WorkInv
<1> QED
  BY <1>7, <1>8 DEF HashInv

\* Every step of a search keeps its invariant.
LEMMA HashStepKeeps == HashInv /\ HashStep => HashInv'
  BY BeginKeeps, MismatchKeeps, BeginPassKeeps, StartLengthKeeps, StartZeroKeeps,
     TryWindowKeeps, CollectKeeps, ReturnKeeps
     DEF HashStep
-----------------------------------------------------------------------------
(* The callers. *)

\* What a use is made of.
LEMMA UseFacts ==
  ASSUME NEW u \in Uses
  PROVE  /\ u \in [by : {"cli", "mcp"}, kind : {"preimage", "hmac"},
                  algos : Seq(Algos \cup {"other"}), readable : BOOLEAN, digest : Nat,
                  min : Nat, max : Nat, maxHits : Nat, dump : Nat,
                  match : SUBSET (Algos \X Nat \X Nat)]
         /\ CallOf(u) # u
         /\ CallOf(u).min = u.min /\ CallOf(u).max = u.max
<1> DEFINE c == CallOf(u)
<1>1. /\ u \in [by : {"cli", "mcp"}, kind : {"preimage", "hmac"},
               algos : Seq(Algos \cup {"other"}), readable : BOOLEAN, digest : Nat,
               min : Nat, max : Nat, maxHits : Nat, dump : Nat,
               match : SUBSET (Algos \X Nat \X Nat)]
  BY UsesAssumption
<1>2. "by" \in DOMAIN u
  BY <1>1
<1>3. /\ DOMAIN c = {"kind", "algos", "digest", "min", "max", "maxHits", "dump", "match"}
      /\ c.min = u.min /\ c.max = u.max
  BY DEF CallOf
<1>4. "by" \notin DOMAIN c
  BY <1>3
<1> HIDE DEF c
<1>5. c # u
  BY Zenon, <1>2, <1>4
<1> QED
  BY <1>1, <1>3, <1>5 DEF c

\* What passes the checks of the caller is a call with an algorithm, and with
\* one for a key search.
LEMMA CallPasses ==
  ASSUME NEW u \in Uses, Passes(u)
  PROVE  /\ CallOf(u) \in Calls /\ CallOf(u).algos # <<>>
         /\ CallOf(u).kind = "hmac" => Len(CallOf(u).algos) = 1
<1> DEFINE c == CallOf(u)
           s == AlgosOf(u)
<1>1. /\ u.by \in {"cli", "mcp"} /\ u.kind \in {"preimage", "hmac"}
      /\ u.algos \in Seq(Algos \cup {"other"})
      /\ u.digest \in Nat /\ u.min \in Nat /\ u.max \in Nat /\ u.maxHits \in Nat
      /\ u.dump \in Nat /\ u.match \in SUBSET (Algos \X Nat \X Nat)
  BY UseFacts
<1>2. s \in Seq(Algos) /\ s # <<>>
  <2>1. s # <<>> /\ \A k \in DOMAIN s : s[k] \in Algos
    BY DEF Passes, ListPasses, ToSet
  <2>2. s = u.algos \/ s = DefaultAlgos
    BY DEF AlgosOf
  <2>3. DefaultAlgos \in Seq(Algos)
    BY DEF DefaultAlgos, Algos
  <2>4. CASE s = u.algos
    <3> HIDE DEF s
    <3>1. s \in Seq(Algos \cup {"other"})
      BY <1>1, <2>4
    <3>2. Len(s) \in Nat /\ DOMAIN s = 1 .. Len(s) /\ s \in [1 .. Len(s) -> Algos]
      BY <2>1, <3>1
    <3> QED
      BY <2>1, <3>2
  <2> QED
    BY <2>1, <2>2, <2>3, <2>4
<1> HIDE DEF s
<1> DEFINE t == IF u.kind = "hmac" THEN <<s[1]>> ELSE s
           m == IF u.by = "cli" THEN 0 ELSE u.maxHits
<1>3. t \in Seq(Algos) /\ t # <<>> /\ (u.kind = "hmac" => Len(t) = 1)
  <2>1. s[1] \in Algos
    BY <1>2
  <2> QED
    BY <1>2, <2>1
<1>4. m \in Nat
  BY <1>1
<1>5. c = [kind |-> u.kind, algos |-> t, digest |-> u.digest, min |-> u.min, max |-> u.max,
           maxHits |-> m, dump |-> u.dump, match |-> u.match]
  BY DEF CallOf, s
<1> HIDE DEF c, t, m
<1>6. c \in Calls /\ c.kind = u.kind /\ c.algos = t
  BY <1>1, <1>3, <1>4, <1>5 DEF Calls
<1> QED
  BY <1>3, <1>6 DEF c

\* A use that waits satisfies the invariant.
LEMMA InitToolInv == ToolInit => ToolInv
  BY DEF ToolInit, ToolInv

\* A search that the caller starts satisfies the invariant.
LEMMA CallSearchKeeps == ToolInv /\ CallSearch => ToolInv'
<1> SUFFICES ASSUME ToolInv, CallSearch PROVE ToolInv'
  OBVIOUS
<1>1. /\ pc = "idle" /\ Passes(use) /\ call' = CallOf(use) /\ pc' = "start"
      /\ UNCHANGED <<use, end, ai, work, tried, hits>>
  BY DEF CallSearch, toolVars
<1>2. /\ use \in Uses /\ end \in {"none", "0", "1", "2", "101", "isError", "result"}
      /\ ai = 1 /\ work = <<>> /\ tried = 0 /\ hits = <<>>
  BY <1>1 DEF ToolInv, HashInv, TypeInv
<1>3. /\ CallOf(use) \in Calls /\ CallOf(use).algos # <<>>
      /\ CallOf(use).kind = "hmac" => Len(CallOf(use).algos) = 1
  BY <1>1, <1>2, CallPasses
<1>4. CallInv'
  BY <1>1, <1>3 DEF CallInv
<1>5. TypeInv'
  <2>1. Len(CallOf(use).algos) \in Nat
    BY <1>3, CallFacts
  <2> QED
    BY <1>1, <1>2, <2>1 DEF TypeInv
<1>6. CountInv'
  <2>1. PassSize(CallOf(use)) \in Nat
    BY <1>3, WindowsFinite
  <2>2. 0 = PassSize(CallOf(use)) * (1 - 1)
    BY <2>1
  <2>3. tried' = PassSize(call') * (ai' - 1)
    BY <1>1, <1>2, <2>2
  <2> QED
    BY <1>1, <2>3 DEF CountInv
<1>7. WorkInv' /\ LoopInv' /\ HashAnswerExact' /\ HashTriedExact'
  BY <1>1, <1>2 DEF WorkInv, LoopInv, HashAnswerExact, HashTriedExact
<1> QED
  BY <1>1, <1>2, <1>4, <1>5, <1>6, <1>7 DEF ToolInv, HashInv

\* Every step keeps the invariant.
LEMMA NextToolInv == ToolInv /\ [ToolNext]_<<toolVars, hashVars>> => ToolInv'
<1> SUFFICES ASSUME ToolInv, [ToolNext]_<<toolVars, hashVars>> PROVE ToolInv'
  OBVIOUS
<1>1. use \in Uses /\ end \in {"none", "0", "1", "2", "101", "isError", "result"}
  BY DEF ToolInv
<1>2. CASE Refuse
  <2>1. /\ pc = "idle" /\ ~Passes(use) /\ pc' = "err"
        /\ UNCHANGED <<use, end, call, ai, work, tried, hits>>
    BY <1>2 DEF Refuse, toolVars
  <2>2. call = use /\ work = <<>>
    BY <2>1 DEF ToolInv
  <2> QED
    BY <1>1, <2>1, <2>2 DEF ToolInv
<1>3. CASE CallSearch
  BY <1>3, CallSearchKeeps
<1>4. CASE SearchStep
  <2>1. HashStep /\ UNCHANGED <<use, end>>
    BY <1>4 DEF SearchStep, toolVars
  <2>2. pc \in {"start", "algo", "pass"} /\ call' = call
    BY <2>1 DEF HashStep, Begin, Mismatch, BeginPass, AtAlgo, StartLength, StartZero,
                TryWindow, Collect, Return
  <2>3. Passes(use) /\ call = CallOf(use) /\ HashInv
    BY <2>2 DEF ToolInv
  <2>4. HashInv'
    BY <2>1, <2>3, HashStepKeeps
  <2> QED
    BY <1>1, <2>1, <2>2, <2>3, <2>4 DEF ToolInv
<1>5. CASE Finish
  <2>1. /\ pc \in {"ok", "err", "panic"} /\ end' \in Ends(use)
        /\ UNCHANGED <<use, call, pc, ai, work, tried, hits>>
    BY <1>5 DEF Finish, hashVars
  <2>2. use.by \in {"cli", "mcp"}
    BY <1>1, UseFacts
  <2>3. Ends(use) \subseteq {"none", "0", "1", "2", "101", "isError", "result"}
    <3>1. CASE pc = "panic"
      BY <3>1 DEF Ends
    <3>2. CASE pc = "err" /\ use.by = "cli"
      BY <3>2 DEF Ends
    <3>3. CASE pc = "ok" /\ use.by = "cli"
      BY <3>3 DEF Ends
    <3>4. CASE pc = "err" /\ use.by = "mcp"
      BY <3>4 DEF Ends
    <3>5. CASE pc = "ok" /\ use.by = "mcp"
      BY <3>5 DEF Ends
    <3> QED
      BY <2>1, <2>2, <3>1, <3>2, <3>3, <3>4, <3>5
  <2>4. end' \in {"none", "0", "1", "2", "101", "isError", "result"}
    BY <2>1, <2>3
  <2>5. HashInv => HashInv'
    BY <2>1 DEF HashInv, CallInv, TypeInv, WorkInv, LoopInv, CountInv, HashAnswerExact,
                HashTriedExact
  <2> QED
    BY <1>1, <2>1, <2>4, <2>5 DEF ToolInv
<1>6. CASE UNCHANGED <<toolVars, hashVars>>
  <2>1. UNCHANGED <<use, end, call, pc, ai, work, tried, hits>>
    BY <1>6 DEF toolVars, hashVars
  <2>2. HashInv => HashInv'
    BY <2>1 DEF HashInv, CallInv, TypeInv, WorkInv, LoopInv, CountInv, HashAnswerExact,
                HashTriedExact
  <2> QED
    BY <1>1, <2>1, <2>2 DEF ToolInv
<1> QED
  BY <1>2, <1>3, <1>4, <1>5, <1>6 DEF ToolNext, Finished

\* The invariant holds of every run of both callers, for every set of uses,
\* whatever the dumps, the digests and the lengths.
THEOREM ToolInvariant == ToolSpec => []ToolInv
  BY InitToolInv, NextToolInv, PTL DEF ToolSpec

-----------------------------------------------------------------------------
(* What the runs check. *)

\* The invariant has the properties of the runs.
LEMMA ToolInvProperties ==
  ASSUME ToolInv
  PROVE  ToolTypeOK /\ ToolAnswerExact /\ ToolTriedExact /\ ToolNeverPanics
<1>1. /\ use \in Uses /\ end \in {"none", "0", "1", "2", "101", "isError", "result"}
      /\ CallOf(use) # use
  BY UseFacts DEF ToolInv
<1>2. CASE pc = "idle" /\ call = use
  <2>1. ToolTypeOK /\ ToolTriedExact /\ ToolNeverPanics /\ ToolAnswerExact
    BY <1>1, <1>2 DEF ToolTypeOK, ToolTriedExact, HashTriedExact, ToolNeverPanics,
                      ToolAnswerExact
  <2> QED
    BY <2>1
<1>3. CASE pc = "err" /\ call = use /\ ~Passes(use)
  BY <1>1, <1>3 DEF ToolTypeOK, ToolTriedExact, HashTriedExact, ToolNeverPanics,
                    ToolAnswerExact
<1>4. CASE Passes(use) /\ call = CallOf(use) /\ HashInv
  <2>1. /\ call \in Calls /\ TypeInv /\ WorkInv /\ HashAnswerExact /\ HashTriedExact
    BY <1>4 DEF HashInv, CallInv
  <2>2. \A k \in DOMAIN work : /\ work[k].next \in None .. WindowsOf(call, Lengths(call)[k])
                               /\ work[k].found \in Seq(0 .. call.dump)
    <3>1. CASE pc \in {"pass", "panic"}
      <4>1. \A k \in DOMAIN work : LengthDone(call, ai, Lengths(call)[k], work[k])
        BY <2>1, <3>1 DEF WorkInv, PassDone
      <4> QED
        BY <4>1 DEF LengthDone
    <3>2. CASE pc \notin {"pass", "panic"}
      <4>1. work = <<>>
        BY <2>1, <3>2 DEF WorkInv
      <4> QED
        BY <4>1
    <3> QED
      BY <3>1, <3>2
  <2>3. HashTypeOK
    BY <2>1, <2>2 DEF HashTypeOK, TypeInv, Triple
  <2>4. ToolNeverPanics
    <3> SUFFICES ASSUME use.by = "mcp", pc = "panic" PROVE FALSE
      BY DEF ToolNeverPanics
    <3>1. 0 \in LengthSet(call)
      BY <2>1 DEF HashAnswerExact
    <3>2. use.min >= 1 /\ call.min = use.min /\ call.max = use.max
      BY <1>1, <1>4, UseFacts DEF Passes, RangePasses
    <3>3. use.min \in Nat /\ use.max \in Nat
      BY <1>1, UseFacts
    <3>4. 0 \notin ToSet(FixedLens)
      BY FixedLensAssumption DEF ToSet
    <3> QED
      BY <3>1, <3>2, <3>3, <3>4 DEF LengthSet
  <2> QED
    BY <1>1, <1>4, <2>1, <2>3, <2>4 DEF ToolTypeOK, ToolAnswerExact, ToolTriedExact
<1> QED
  BY <1>2, <1>3, <1>4 DEF ToolInv

\* Every variable always has its type, those of the search included.
THEOREM ToolTypeCorrect == ToolSpec => []ToolTypeOK
  BY ToolInvariant, ToolInvProperties, PTL

\* Whatever threads run the lengths and in whatever order they end, the answer
\* is the one that the call determines.
THEOREM ToolAnswerExactAlways == ToolSpec => []ToolAnswerExact
  BY ToolInvariant, ToolInvProperties, PTL

\* The shared counter ends at the windows of the lengths, once for each
\* algorithm the loop gets to.
THEOREM ToolTriedExactAlways == ToolSpec => []ToolTriedExact
  BY ToolInvariant, ToolInvProperties, PTL

\* No call of the server makes a worker thread panic.
THEOREM ToolNeverPanicsAlways == ToolSpec => []ToolNeverPanics
  BY ToolInvariant, ToolInvProperties, PTL
==============================================================================
