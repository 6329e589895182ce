---------------------------- MODULE CommonLemmas ----------------------------
(***************************************************************************)
(* Facts that the other proofs cite: induction in the form of a set that   *)
(* is closed under successor, division and remainders, the list of a       *)
(* finite set by rank, and the existence of recursive functions.           *)
(***************************************************************************)
EXTENDS FiniteSetTheorems, FunctionTheorems, TLAPS

\* Every nonempty set of naturals has a least element.
LEMMA LeastNat ==
  ASSUME NEW S, S \subseteq Nat, S # {}
  PROVE  \E m \in S : \A n \in S : m <= n
  <1> DEFINE R == StrictSubsetOrdering(Nat)
             T == {U \in FiniteSubsetsOf(Nat) : \E n \in S : U = 1 .. n}
  <1>1. IsWellFoundedOn(R, FiniteSubsetsOf(Nat))
    BY FS_StrictSubsetOrderingWellFounded
  <1>2. ASSUME NEW n \in S PROVE 1 .. n \in T
    <2>1. IsFiniteSet(1 .. n) /\ 1 .. n \subseteq Nat
      BY FS_Interval
    <2> QED BY <2>1 DEF FiniteSubsetsOf
  <1>3. T # {} /\ T \subseteq FiniteSubsetsOf(Nat)
    BY <1>2
  <1> HIDE DEF R
  <1>4. PICK U \in T : \A V \in T : <<V, U>> \notin R
    <2> HIDE DEF T
    <2> QED BY <1>1, <1>3, WFMin
  <1>5. PICK m \in S : U = 1 .. m
    OBVIOUS
  <1>6. ASSUME NEW n \in S, n < m PROVE FALSE
    <2>1. 1 .. n \subseteq 1 .. m /\ 1 .. n # 1 .. m /\ 1 .. n \subseteq Nat /\ 1 .. m \subseteq Nat
      <3>1. m \in 1 .. m /\ m \notin 1 .. n
        BY <1>6
      <3> QED BY <1>6, <3>1
    <2>2. <<1 .. n, 1 .. m>> \in R
      BY <2>1 DEF R, StrictSubsetOrdering
    <2> QED BY <1>2, <1>4, <1>5, <2>2
  <1> QED BY <1>6

\* A set that has 0 and, with each number, the next one, has all naturals.
LEMMA SetInduction ==
  ASSUME NEW S, 0 \in S, \A n \in Nat : n \in S => n + 1 \in S
  PROVE  Nat \subseteq S
  <1> SUFFICES ASSUME Nat \ S # {} PROVE FALSE
    OBVIOUS
  <1>1. PICK m \in Nat \ S : \A n \in Nat \ S : m <= n
    BY LeastNat
  <1>2. m - 1 \in Nat /\ m - 1 \in S
    BY <1>1
  <1> QED BY <1>1, <1>2

-----------------------------------------------------------------------------
(* Division. *)

\* Quotient and remainder.
LEMMA DivMod ==
  ASSUME NEW a \in Nat, NEW n \in Nat \ {0}
  PROVE  /\ a \div n \in Nat /\ a % n \in 0 .. n - 1
         /\ a = (a \div n) * n + (a % n)
  OBVIOUS

\* The product of a greater factor is greater by at least the other.
LEMMA TimesGap ==
  ASSUME NEW p \in Nat, NEW q \in Nat, NEW n \in Nat, p < q
  PROVE  p * n + n <= q * n
  <1>1. PICK d \in Nat : q = p + 1 + d
    <2>1. q - p - 1 \in Nat /\ q = p + 1 + (q - p - 1)
      OBVIOUS
    <2> QED BY <2>1
  <1>2. q * n = p * n + n + d * n
    BY <1>1
  <1>3. d * n \in Nat /\ p * n \in Nat
    OBVIOUS
  <1> QED BY <1>2, <1>3

\* Quotient and remainder are unique.
LEMMA DivModUnique ==
  ASSUME NEW q \in Nat, NEW n \in Nat \ {0}, NEW r \in 0 .. n - 1
  PROVE  (q * n + r) \div n = q /\ (q * n + r) % n = r
  <1> DEFINE a == q * n + r
             p == a \div n
             s == a % n
  <1>1. a \in Nat
    OBVIOUS
  <1>2. p \in Nat /\ s \in 0 .. n - 1 /\ a = p * n + s
    <2> HIDE DEF a
    <2> QED BY <1>1, DivMod
  <1>3. p * n \in Nat /\ q * n \in Nat
    <2> HIDE DEF p
    <2> QED BY <1>2
  <1> HIDE DEF p, s
  <1>4. ~(p < q)
    <2> SUFFICES ASSUME p < q PROVE FALSE
      OBVIOUS
    <2>1. p * n + n <= q * n
      BY <1>2, TimesGap
    <2> QED BY <1>2, <1>3, <2>1
  <1>5. ~(q < p)
    <2> SUFFICES ASSUME q < p PROVE FALSE
      OBVIOUS
    <2>1. q * n + n <= p * n
      BY <1>2, TimesGap
    <2> QED BY <1>2, <1>3, <2>1
  <1>6. p = q
    BY <1>2, <1>4, <1>5
  <1>7. s = r
    BY <1>2, <1>3, <1>6
  <1> QED BY <1>6, <1>7 DEF p, s

\* Multiples of the modulus do not count.
LEMMA ModPlus ==
  ASSUME NEW q \in Nat, NEW n \in Nat \ {0}, NEW a \in Nat
  PROVE  (q * n + a) % n = a % n
  <1> DEFINE p == a \div n
             r == a % n
  <1>1. p \in Nat /\ r \in 0 .. n - 1 /\ a = p * n + r
    BY DivMod
  <1> HIDE DEF p, r
  <1>2. q + p \in Nat /\ q * n + a = (q + p) * n + r
    BY <1>1
  <1>3. ((q + p) * n + r) % n = r
    BY <1>1, <1>2, DivModUnique
  <1> QED BY <1>2, <1>3 DEF r

\* A sum may be reduced before it is.
LEMMA ModSum ==
  ASSUME NEW a \in Nat, NEW b \in Nat, NEW n \in Nat \ {0}
  PROVE  ((a % n) + b) % n = (a + b) % n
  <1> DEFINE p == a \div n
             r == a % n
  <1>1. p \in Nat /\ r \in 0 .. n - 1 /\ a = p * n + r
    BY DivMod
  <1> HIDE DEF p, r
  <1>2. r + b \in Nat /\ a + b = p * n + (r + b)
    BY <1>1
  <1>3. (p * n + (r + b)) % n = (r + b) % n
    BY ZenonT(40), <1>1, <1>2, ModPlus
  <1> QED BY <1>2, <1>3 DEF r

\* A number below the modulus is its own remainder.
LEMMA ModSmall ==
  ASSUME NEW n \in Nat \ {0}, NEW a \in 0 .. n - 1
  PROVE  a % n = a
  OBVIOUS

\* Division keeps the order.
LEMMA DivMonotone ==
  ASSUME NEW a \in Nat, NEW b \in Nat, NEW n \in Nat \ {0}, a <= b
  PROVE  a \div n <= b \div n
  <1>1. /\ a \div n \in Nat /\ a % n \in 0 .. n - 1 /\ a = (a \div n) * n + (a % n)
        /\ b \div n \in Nat /\ b % n \in 0 .. n - 1 /\ b = (b \div n) * n + (b % n)
    BY DivMod
  <1> SUFFICES ASSUME b \div n < a \div n PROVE FALSE
    BY <1>1
  <1>2. (b \div n) * n + n <= (a \div n) * n
    BY <1>1, TimesGap
  <1>3. (a \div n) * n \in Nat /\ (b \div n) * n \in Nat
    BY <1>1
  <1> QED BY <1>1, <1>2, <1>3

-----------------------------------------------------------------------------
(* Ranks. *)

\* R is a strict total order of S.
Orders(R, S) ==
  /\ \A x, y \in S : x # y => <<x, y>> \in R \/ <<y, x>> \in R
  /\ \A x, y \in S : ~(<<x, y>> \in R /\ <<y, x>> \in R)
  /\ \A x, y, z \in S : <<x, y>> \in R /\ <<y, z>> \in R => <<x, z>> \in R

\* The n-th element of L is the one with n - 1 elements of S before it.
Ranks(L, R, S) ==
  L = [n \in 1 .. Cardinality(S) |->
        CHOOSE c \in S : Cardinality({d \in S : <<d, c>> \in R}) = n - 1]

\* In a finite set with a strict total order, the list of ranks has every
\* element once, in order.
LEMMA RankList ==
  ASSUME NEW S, IsFiniteSet(S), NEW R, Orders(R, S), NEW L, Ranks(L, R, S)
  PROVE  /\ Cardinality(S) \in Nat
         /\ L \in [1 .. Cardinality(S) -> S]
         /\ \A m, n \in 1 .. Cardinality(S) : m < n => <<L[m], L[n]>> \in R
         /\ \A c \in S : \E n \in 1 .. Cardinality(S) : L[n] = c
  <1> DEFINE N == Cardinality(S)
             Pre(c) == {d \in S : <<d, c>> \in R}
             r == [c \in S |-> Cardinality(Pre(c))]
             f == [c \in S |-> r[c] + 1]
  <1>1. N \in Nat
    BY FS_CardinalityType
  <1>2. \A c \in S : Pre(c) \in SUBSET S /\ c \notin Pre(c)
    BY DEF Orders
  <1>0. /\ \A x, y \in S : x # y => <<x, y>> \in R \/ <<y, x>> \in R
        /\ \A x, y \in S : ~(<<x, y>> \in R /\ <<y, x>> \in R)
        /\ \A x, y, z \in S : <<x, y>> \in R /\ <<y, z>> \in R => <<x, z>> \in R
    BY DEF Orders
  <1>3. \A c, d \in S : <<c, d>> \in R => Pre(c) \in SUBSET Pre(d) /\ Pre(c) # Pre(d)
    BY <1>0
  <1>4. /\ L = [n \in 1 .. N |-> CHOOSE c \in S : Cardinality(Pre(c)) = n - 1]
        /\ \A c \in S : r[c] = Cardinality(Pre(c))
    BY DEF Ranks
  <1> HIDE DEF Pre, r
  <1>5. ASSUME NEW c \in S
        PROVE  IsFiniteSet(Pre(c)) /\ r[c] \in 0 .. N - 1
    <2>1. /\ IsFiniteSet(Pre(c)) /\ Cardinality(Pre(c)) <= N
          /\ Cardinality(Pre(c)) # N
      BY <1>2, FS_Subset
    <2>2. Cardinality(Pre(c)) \in Nat
      BY <2>1, FS_CardinalityType
    <2> HIDE DEF N
    <2> QED BY <1>1, <1>4, <2>1, <2>2
  <1> HIDE DEF N
  <1>6. ASSUME NEW c \in S, NEW d \in S, <<c, d>> \in R
        PROVE  r[c] < r[d]
    <2>1. Pre(c) \in SUBSET Pre(d) /\ Pre(c) # Pre(d) /\ IsFiniteSet(Pre(d))
      BY <1>3, <1>5, <1>6
    <2>2. Cardinality(Pre(c)) <= Cardinality(Pre(d)) /\ Cardinality(Pre(c)) # Cardinality(Pre(d))
      BY <2>1, FS_Subset
    <2>3. r[c] <= r[d] /\ r[c] # r[d]
      BY <1>4, <2>2
    <2>4. r[c] \in Nat /\ r[d] \in Nat
      BY <1>1, <1>5
    <2> QED BY <2>3, <2>4
  <1>7. f \in [S -> 1 .. N]
    BY <1>1, <1>5
  <1>8. ASSUME NEW c \in S, NEW d \in S, r[c] = r[d] PROVE c = d
    <2>1. r[c] \in Nat /\ r[d] \in Nat
      BY <1>1, <1>5
    <2>2. ~(<<c, d>> \in R) /\ ~(<<d, c>> \in R)
      BY <1>6, <1>8, <2>1
    <2> QED BY <1>0, <2>2
  <1>9. \A c, d \in S : f[c] = f[d] => c = d
    <2>1. \A c \in S : f[c] = r[c] + 1 /\ r[c] \in Nat
      BY <1>1, <1>5
    <2> HIDE DEF f
    <2>2. \A c, d \in S : f[c] = f[d] => r[c] = r[d]
      BY <2>1
    <2> QED BY <1>8, <2>2
  <1>10. \A n \in 1 .. N : \E c \in S : r[c] = n - 1
    <2>1. f \in Injection(S, 1 .. N)
      <3> HIDE DEF f
      <3> QED BY <1>7, <1>9, Fun_IsInj
    <2>2. IsFiniteSet(1 .. N) /\ Cardinality(1 .. N) = N
      <3>1. N \in Int /\ 1 \in Int
        BY <1>1
      <3>2. /\ IsFiniteSet(1 .. N)
            /\ Cardinality(1 .. N) = IF 1 > N THEN 0 ELSE N - 1 + 1
        BY <3>1, FS_Interval
      <3> QED BY <1>1, <3>2
    <2>3. f \in Surjection(S, 1 .. N)
      <3> HIDE DEF f
      <3> QED BY <2>1, <2>2, FS_Injection DEF N
    <2>4. \A n \in 1 .. N : \E c \in S : f[c] = n
      BY <2>3 DEF Surjection
    <2>5. \A c \in S : f[c] = r[c] + 1 /\ r[c] \in Nat
      BY <1>1, <1>5
    <2> HIDE DEF f
    <2> SUFFICES ASSUME NEW n \in 1 .. N PROVE \E c \in S : r[c] = n - 1
      OBVIOUS
    <2>6. PICK c \in S : f[c] = n
      BY <2>4
    <2>7. r[c] = n - 1
      BY <1>1, <2>5, <2>6
    <2> QED BY <2>7
  <1>11. ASSUME NEW n \in 1 .. N
         PROVE  L[n] \in S /\ r[L[n]] = n - 1
    <2>1. L[n] = CHOOSE c \in S : Cardinality(Pre(c)) = n - 1
      BY <1>4
    <2>2. \E c \in S : Cardinality(Pre(c)) = n - 1
      BY <1>4, <1>10
    <2>3. L[n] \in S /\ Cardinality(Pre(L[n])) = n - 1
      BY <2>1, <2>2
    <2> QED BY <1>4, <2>3
  <1>12. L \in [1 .. N -> S]
    BY <1>4, <1>11
  <1>13. ASSUME NEW m \in 1 .. N, NEW n \in 1 .. N, m < n
         PROVE  <<L[m], L[n]>> \in R
    <2>1. L[m] \in S /\ L[n] \in S /\ r[L[m]] = m - 1 /\ r[L[n]] = n - 1
      BY <1>11
    <2>2. r[L[m]] < r[L[n]] /\ ~(r[L[n]] < r[L[m]])
      BY <1>1, <1>13, <2>1
    <2>3. L[m] # L[n]
      BY <2>2
    <2>4. ~(<<L[n], L[m]>> \in R)
      BY <1>6, <2>1, <2>2
    <2> QED BY <1>0, <2>1, <2>3, <2>4
  <1>14. ASSUME NEW c \in S PROVE \E n \in 1 .. N : L[n] = c
    <2> DEFINE n == r[c] + 1
    <2>1. n \in 1 .. N /\ n - 1 = r[c]
      BY <1>1, <1>5
    <2> HIDE DEF n
    <2>2. L[n] = c
      BY <1>8, <1>11, <2>1
    <2> QED BY <2>1, <2>2
  <1> QED BY <1>1, <1>12, <1>13, <1>14 DEF N

-----------------------------------------------------------------------------
(* Recursive functions. *)

\* The steps that take a value to the next one.
Steps(N, S) == [1 .. N -> [S -> S]]

\* f has the values that the steps h make of a.
Iterated(f, N, a, h) == f[0] = a /\ \A n \in 1 .. N : f[n] = h[n][f[n - 1]]

\* A function given by its first value and its next ones exists.
LEMMA Iterates ==
  ASSUME NEW N \in Nat, NEW S, NEW a \in S, NEW h \in Steps(N, S)
  PROVE  \E f \in [0 .. N -> S] : Iterated(f, N, a, h)
<1> USE DEF Steps, Iterated
<1> DEFINE Good(f, m) == f[0] = a /\ \A n \in 1 .. m : f[n] = h[n][f[n - 1]]
           T == {m \in Nat : m <= N => \E f \in [0 .. m -> S] : Good(f, m)}
<1>1. 0 \in T
  <2> DEFINE f == [n \in 0 .. 0 |-> a]
  <2>1. f \in [0 .. 0 -> S] /\ Good(f, 0)
    OBVIOUS
  <2> QED
    BY <2>1
<1>2. \A m \in Nat : m \in T => m + 1 \in T
  <2> SUFFICES ASSUME NEW m \in Nat, m \in T, m + 1 <= N
               PROVE  \E f \in [0 .. m + 1 -> S] : Good(f, m + 1)
    <3> HIDE DEF Good
    <3> QED
      OBVIOUS
  <2>1. PICK f \in [0 .. m -> S] : Good(f, m)
    <3> HIDE DEF Good
    <3> QED
      OBVIOUS
  <2>2. /\ f[m] \in S /\ m + 1 \in 1 .. N /\ f[0] = a
        /\ \A n \in 1 .. m : f[n] = h[n][f[n - 1]]
    BY <2>1
  <2> DEFINE b == h[m + 1][f[m]]
             g == [n \in 0 .. m + 1 |-> IF n = m + 1 THEN b ELSE f[n]]
  <2>3. b \in S
    BY <2>2
  <2> HIDE DEF b
  <2>4. g \in [0 .. m + 1 -> S]
    BY <2>1, <2>3
  <2>5. g[0] = a /\ g[m + 1] = b /\ \A n \in 0 .. m : g[n] = f[n]
    BY <2>2
  <2> HIDE DEF g
  <2>6. \A n \in 1 .. m + 1 : g[n] = h[n][g[n - 1]]
    <3> SUFFICES ASSUME NEW n \in 1 .. m + 1 PROVE g[n] = h[n][g[n - 1]]
      OBVIOUS
    <3>1. CASE n = m + 1
      <4>1. g[n - 1] = f[m]
        BY <3>1, <2>5
      <4> QED
        BY <3>1, <4>1, <2>5 DEF b
    <3>2. CASE n # m + 1
      <4>1. n \in 1 .. m /\ n \in 0 .. m /\ n - 1 \in 0 .. m
        BY <3>2
      <4> QED
        BY <4>1, <2>2, <2>5
    <3> QED
      BY <3>1, <3>2
  <2> QED
    BY <2>4, <2>5, <2>6
<1> HIDE DEF T
<1>3. N \in T
  BY <1>1, <1>2, SetInduction
<1> QED
  BY <1>3 DEF T
=============================================================================
