-------------------------- MODULE ScanCommandProofs --------------------------
(***************************************************************************)
(* What holds of the command `scan` for every invocation, schedule and     *)
(* moment at which the reader goes away: the parser against the meaning of *)
(* its list, and the exit code and the printed hits against the contract   *)
(* of the scan.                                                            *)
(***************************************************************************)
EXTENDS ScanCommand, ScanEngineProofs, CommonLemmas, TLAPS

-----------------------------------------------------------------------------
(* The parser. *)

\* What the loop can hold.
ParseStates ==
  [mode : Modes \cup {NoMode}, out : SUBSET Ciphers, err : BOOLEAN]

\* A name adds ciphers.
LEMMA ExpandType ==
  ASSUME NEW t \in Tokens, ~Unknown(t)
  PROVE  Expand(t.name) \in SUBSET Ciphers /\ Expand(t.name) # {}
  BY DEF Tokens, TokenNames, PlainNames, PolyNames, BlockNames, Unknown, Expand,
         Ciphers, BlockCiphers, StreamCiphers, AesCiphers

\* A turn of the loop, field by field.
LEMMA TurnFacts ==
  ASSUME NEW s \in ParseStates, NEW t \in Tokens
  PROVE  LET u == ParseToken(s, t)
         IN  /\ u \in ParseStates
             /\ u.err <=> s.err \/ s.mode \notin {NoMode, t.suffix} \/ Unknown(t)
             /\ ~u.err => /\ u.mode = IF t.name \in PolyNames THEN "gcm" ELSE t.suffix
                          /\ u.out = s.out \cup Expand(t.name)
<1> DEFINE bad == s.err \/ s.mode \notin {NoMode, t.suffix} \/ Unknown(t)
           m == IF t.name \in PolyNames THEN "gcm" ELSE t.suffix
           v == [s EXCEPT !.mode = m, !.out = @ \cup Expand(t.name)]
<1>1. CASE bad
  <2>1. ParseToken(s, t) = [s EXCEPT !.err = TRUE]
    BY <1>1 DEF ParseToken
  <2>2. [s EXCEPT !.err = TRUE] \in ParseStates /\ [s EXCEPT !.err = TRUE].err
    BY DEF ParseStates
  <2> QED
    BY <1>1, <2>1, <2>2
<1>2. CASE ~bad
  <2>1. ParseToken(s, t) = v
    BY <1>2 DEF ParseToken
  <2>2. s.err = FALSE /\ Expand(t.name) \in SUBSET Ciphers
    BY <1>2, ExpandType DEF ParseStates
  <2>3. m \in Modes
    BY DEF Tokens, Modes
  <2> HIDE DEF m
  <2>4. v \in ParseStates /\ v.err = FALSE /\ v.mode = m /\ v.out = s.out \cup Expand(t.name)
    BY <2>2, <2>3 DEF ParseStates
  <2> QED
    BY <1>2, <2>1, <2>4 DEF m
<1> QED
  BY <1>1, <1>2

\* The loop of the parser is one turn after the other.
LEMMA LoopExists ==
  ASSUME NEW ts \in Seq(Tokens)
  PROVE  \E f : /\ f[0] = ParseStart
                /\ \A n \in 1 .. Len(ts) : f[n] = ParseToken(f[n - 1], ts[n])
                /\ EndOfLoop(ts) = f[Len(ts)]
<1> DEFINE N == Len(ts)
           h == [n \in 1 .. N |-> [s \in ParseStates |-> ParseToken(s, ts[n])]]
           Body(f) == [n \in 0 .. N |->
                         IF n = 0 THEN ParseStart ELSE ParseToken(f[n - 1], ts[n])]
<1>1. N \in Nat /\ \A n \in 1 .. N : ts[n] \in Tokens
  OBVIOUS
<1>2. \A n \in 1 .. N, s \in ParseStates : ParseToken(s, ts[n]) \in ParseStates
  BY <1>1, TurnFacts
<1>3. \A n \in 1 .. N, s \in ParseStates : h[n][s] = ParseToken(s, ts[n])
  OBVIOUS
<1>4. h \in Steps(N, ParseStates)
  BY <1>2 DEF Steps
<1> HIDE DEF h
<1>5. ParseStart \in ParseStates
  BY DEF ParseStart, ParseStates
<1>6. PICK f \in [0 .. N -> ParseStates] : Iterated(f, N, ParseStart, h)
  <2> HIDE DEF N
  <2> QED
    BY <1>1, <1>4, <1>5, Iterates
<1>7. f = Body(f)
  <2> HIDE DEF N
  <2>1. ASSUME NEW n \in 1 .. N PROVE f[n] = ParseToken(f[n - 1], ts[n])
    <3>1. n - 1 \in 0 .. N
      BY <1>1
    <3>2. f[n - 1] \in ParseStates /\ f[n] = h[n][f[n - 1]]
      BY <1>6, <3>1 DEF Iterated
    <3> QED
      BY <1>3, <3>2
  <2>2. \A n \in 0 .. N :
          f[n] = IF n = 0 THEN ParseStart ELSE ParseToken(f[n - 1], ts[n])
    BY <1>1, <1>6, <2>1 DEF Iterated
  <2> QED
    BY <2>2
<1> DEFINE p == CHOOSE g : g = Body(g)
<1>8. p = Body(p)
  <2>1. \E g : g = Body(g)
    BY <1>7
  <2> HIDE DEF Body
  <2> QED
    BY Zenon, <2>1
<1>9. EndOfLoop(ts) = p[N]
  BY Zenon DEF EndOfLoop
<1> HIDE DEF p
<1>10. p[0] = ParseStart /\ \A n \in 1 .. N : p[n] = ParseToken(p[n - 1], ts[n])
  <2> DEFINE q == Body(p)
  <2>1. p = q
    BY <1>8
  <2>2. q[0] = ParseStart /\ \A n \in 1 .. N : q[n] = ParseToken(p[n - 1], ts[n])
    BY <1>1
  <2> HIDE DEF q
  <2> QED
    BY Zenon, <2>1, <2>2
<1> QED
  BY Zenon, <1>9, <1>10

\* What the loop holds after n tokens: an error unless the n tokens have one
\* suffix, names that exist with it and none of them a poly1305 name; without an
\* error the ciphers of the n names, and GCM from the first poly1305 name on.
Parsed(s, ts, n) ==
  /\ s \in ParseStates
  /\ s.err => \A m \in Modes : \E i \in 1 .. n :
                 ts[i].suffix # m \/ Unknown(ts[i]) \/ ts[i].name \in PolyNames
  /\ ~s.err =>
       /\ s.out = UNION {Expand(ts[i].name) : i \in 1 .. n}
       /\ \A i \in 1 .. n : ~Unknown(ts[i])
       /\ \/ n = 0 /\ s.mode = NoMode
          \/ s.mode = "gcm" /\ \E i \in 1 .. n : ts[i].name \in PolyNames
          \/ /\ n > 0
             /\ \A i \in 1 .. n : ts[i].name \notin PolyNames /\ ts[i].suffix = s.mode

\* A turn takes n tokens to n + 1.
LEMMA TurnParses ==
  ASSUME NEW ts \in Seq(Tokens), NEW n \in Nat, n + 1 <= Len(ts), NEW s, Parsed(s, ts, n)
  PROVE  Parsed(ParseToken(s, ts[n + 1]), ts, n + 1)
<1> DEFINE t == ts[n + 1]
           u == ParseToken(s, t)
<1>1. t \in Tokens /\ s \in ParseStates
  <2>1. n + 1 \in 1 .. Len(ts)
    OBVIOUS
  <2> QED
    BY <2>1 DEF Parsed
<1>2. /\ u \in ParseStates
      /\ u.err <=> s.err \/ s.mode \notin {NoMode, t.suffix} \/ Unknown(t)
      /\ ~u.err => /\ u.mode = IF t.name \in PolyNames THEN "gcm" ELSE t.suffix
                   /\ u.out = s.out \cup Expand(t.name)
  <2> HIDE DEF t
  <2> QED
    BY <1>1, TurnFacts
<1>3. \A i : i \in 1 .. n + 1 <=> i \in 1 .. n \/ i = n + 1
  OBVIOUS
<1> HIDE DEF u
<1>4. ASSUME u.err
      PROVE  \A m \in Modes : \E i \in 1 .. n + 1 :
                ts[i].suffix # m \/ Unknown(ts[i]) \/ ts[i].name \in PolyNames
  <2> SUFFICES ASSUME NEW m \in Modes,
                      \A i \in 1 .. n + 1 : /\ ts[i].suffix = m /\ ~Unknown(ts[i])
                                            /\ ts[i].name \notin PolyNames
               PROVE  FALSE
    OBVIOUS
  <2>1. \A i \in 1 .. n : /\ ts[i].suffix = m /\ ~Unknown(ts[i])
                          /\ ts[i].name \notin PolyNames
    BY <1>3
  <2>2. t.suffix = m /\ ~Unknown(t)
    BY <1>3
  <2>3. ~s.err
    BY <2>1 DEF Parsed
  <2>4. s.mode \in {NoMode, m}
    <3>1. CASE n = 0 /\ s.mode = NoMode
      BY <3>1
    <3>2. CASE n > 0 /\ \A i \in 1 .. n : ts[i].suffix = s.mode
      <4>1. 1 \in 1 .. n
        BY <3>2
      <4> QED
        BY <2>1, <3>2, <4>1
    <3> QED
      BY <2>1, <2>3, <3>1, <3>2 DEF Parsed
  <2> QED
    BY <1>2, <1>4, <2>2, <2>3, <2>4
<1>5. ASSUME ~u.err
      PROVE  /\ u.out = UNION {Expand(ts[i].name) : i \in 1 .. n + 1}
             /\ \A i \in 1 .. n + 1 : ~Unknown(ts[i])
  <2>1. ~s.err /\ ~Unknown(t) /\ u.out = s.out \cup Expand(t.name)
    BY <1>2, <1>5
  <2>2. s.out = UNION {Expand(ts[i].name) : i \in 1 .. n} /\ \A i \in 1 .. n : ~Unknown(ts[i])
    BY <2>1 DEF Parsed
  <2>3. {Expand(ts[i].name) : i \in 1 .. n + 1}
          = {Expand(ts[i].name) : i \in 1 .. n} \cup {Expand(t.name)}
    BY <1>3
  <2> QED
    BY <1>3, <2>1, <2>2, <2>3
<1>6. ASSUME ~u.err
      PROVE  \/ u.mode = "gcm" /\ \E i \in 1 .. n + 1 : ts[i].name \in PolyNames
             \/ \A i \in 1 .. n + 1 : ts[i].name \notin PolyNames /\ ts[i].suffix = u.mode
  <2>1. /\ ~s.err /\ s.mode \in {NoMode, t.suffix}
        /\ u.mode = IF t.name \in PolyNames THEN "gcm" ELSE t.suffix
    BY <1>2, <1>6
  <2>2. CASE t.name \in PolyNames
    BY <1>3, <2>1, <2>2
  <2>3. CASE t.name \notin PolyNames /\ n = 0
    BY <1>3, <2>1, <2>3
  <2>4. CASE /\ t.name \notin PolyNames
             /\ s.mode = "gcm" /\ \E i \in 1 .. n : ts[i].name \in PolyNames
    <3>1. u.mode = "gcm"
      BY <2>1, <2>4 DEF NoMode
    <3> QED
      BY <1>3, <2>4, <3>1
  <2>5. CASE /\ t.name \notin PolyNames /\ n > 0
             /\ \A i \in 1 .. n : ts[i].name \notin PolyNames /\ ts[i].suffix = s.mode
    <3>1. ts[1] \in Tokens /\ ts[1].suffix = s.mode
      BY <2>5
    <3>2. s.mode # NoMode
      BY <3>1 DEF Tokens, Modes, NoMode
    <3> QED
      BY <1>3, <2>1, <2>5, <3>2
  <2> QED
    BY <2>1, <2>2, <2>3, <2>4, <2>5 DEF Parsed
<1>7. n + 1 > 0
  OBVIOUS
<1> QED
  BY <1>2, <1>4, <1>5, <1>6, <1>7 DEF Parsed, u

\* The loop holds at its end what the list says.
LEMMA LoopParses ==
  ASSUME NEW ts \in Seq(Tokens)
  PROVE  Parsed(EndOfLoop(ts), ts, Len(ts))
<1>1. PICK f : /\ f[0] = ParseStart
               /\ \A n \in 1 .. Len(ts) : f[n] = ParseToken(f[n - 1], ts[n])
               /\ EndOfLoop(ts) = f[Len(ts)]
  BY LoopExists
<1> DEFINE T == {n \in Nat : n <= Len(ts) => Parsed(f[n], ts, n)}
<1>2. 0 \in T
  <2>1. Parsed(ParseStart, ts, 0)
    <3>1. /\ ParseStart \in ParseStates /\ ~ParseStart.err
          /\ ParseStart.out = {} /\ ParseStart.mode = NoMode
      BY DEF ParseStart, ParseStates
    <3>2. 1 .. 0 = {}
      OBVIOUS
    <3>3. UNION {Expand(ts[i].name) : i \in 1 .. 0} = {}
      BY <3>2
    <3> QED
      BY <3>1, <3>2, <3>3 DEF Parsed
  <2> QED
    BY <1>1, <2>1
<1>3. \A n \in Nat : n \in T => n + 1 \in T
  <2> SUFFICES ASSUME NEW n \in Nat, n \in T, n + 1 <= Len(ts)
               PROVE  Parsed(f[n + 1], ts, n + 1)
    OBVIOUS
  <2>1. n <= Len(ts) /\ n + 1 \in 1 .. Len(ts) /\ (n + 1) - 1 = n
    OBVIOUS
  <2>2. Parsed(f[n], ts, n)
    BY <2>1
  <2>3. f[n + 1] = ParseToken(f[n], ts[n + 1])
    BY <1>1, <2>1
  <2> QED
    BY <2>2, <2>3, TurnParses
<1> HIDE DEF T
<1>4. Nat \subseteq T
  BY <1>2, <1>3, SetInduction
<1>5. Len(ts) \in Nat
  OBVIOUS
<1> QED
  BY <1>1, <1>4, <1>5 DEF T

-----------------------------------------------------------------------------
(* The selection. *)

\* The order of the ciphers is a list of all of them, each once.
LEMMA PlaceFacts ==
  /\ \A c \in Ciphers : Place(c) \in 1 .. 8 /\ CipherOrder[Place(c)] = c
  /\ IsFiniteSet(Ciphers)
<1>1. DOMAIN CipherOrder = 1 .. 8
  BY DEF CipherOrder
<1>2. /\ CipherOrder[1] = "aes128" /\ CipherOrder[2] = "aes192"
      /\ CipherOrder[3] = "aes256" /\ CipherOrder[4] = "des" /\ CipherOrder[5] = "tdes"
      /\ CipherOrder[6] = "sm4" /\ CipherOrder[7] = "chacha20"
      /\ CipherOrder[8] = "xchacha20"
  BY DEF CipherOrder
<1> DEFINE o == [n \in 1 .. 8 |-> CipherOrder[n]]
<1>3. \A c \in Ciphers : \E n \in 1 .. 8 : CipherOrder[n] = c
  <2> SUFFICES ASSUME NEW c \in Ciphers PROVE \E n \in 1 .. 8 : CipherOrder[n] = c
    OBVIOUS
  <2>1. /\ 1 \in 1 .. 8 /\ 2 \in 1 .. 8 /\ 3 \in 1 .. 8 /\ 4 \in 1 .. 8
        /\ 5 \in 1 .. 8 /\ 6 \in 1 .. 8 /\ 7 \in 1 .. 8 /\ 8 \in 1 .. 8
    OBVIOUS
  <2>2. \/ c = "aes128" \/ c = "aes192" \/ c = "aes256" \/ c = "des" \/ c = "tdes"
        \/ c = "sm4" \/ c = "chacha20" \/ c = "xchacha20"
    BY DEF Ciphers, BlockCiphers, AesCiphers, StreamCiphers
  <2> QED
    BY Zenon, <1>2, <2>1, <2>2
<1>4. \A c \in Ciphers : Place(c) \in 1 .. 8 /\ CipherOrder[Place(c)] = c
  BY <1>1, <1>3 DEF Place
<1>5. IsFiniteSet(Ciphers)
  <2>1. IsFiniteSet(1 .. 8)
    <3>1. 1 \in Int /\ 8 \in Int
      OBVIOUS
    <3> QED
      BY Zenon, <3>1, FS_Interval
  <2>2. o \in [1 .. 8 -> Ciphers \cup {CipherOrder[n] : n \in 1 .. 8}]
    OBVIOUS
  <2> DEFINE U == {CipherOrder[n] : n \in 1 .. 8}
  <2>3. o \in Surjection(1 .. 8, U)
    BY DEF Surjection
  <2>4. IsFiniteSet(U)
    <3> HIDE DEF o, U
    <3> QED
      BY <2>1, <2>3, FS_Surjection
  <2>5. Ciphers \subseteq U
    BY <1>3
  <2> QED
    BY <2>4, <2>5, FS_Subset
<1> QED
  BY <1>4, <1>5

\* The sorted selection has the ciphers of the set, each once.
LEMMA SortedFacts ==
  ASSUME NEW out \in SUBSET Ciphers
  PROVE  {Sorted(out)[k] : k \in DOMAIN Sorted(out)} = out
<1> DEFINE R == {p \in out \X out : Place(p[1]) < Place(p[2])}
<1>1. IsFiniteSet(out)
  BY PlaceFacts, FS_Subset
<1>2. \A c \in out : Place(c) \in Nat /\ CipherOrder[Place(c)] = c
  BY PlaceFacts
<1>3. \A c, d \in out : <<c, d>> \in R <=> Place(c) < Place(d)
  OBVIOUS
<1>4. \A c, d \in out : Place(c) = Place(d) => c = d
  BY <1>2
<1> HIDE DEF R
<1>5. Orders(R, out)
  BY <1>2, <1>3, <1>4 DEF Orders
<1>6. Ranks(Sorted(out), R, out)
  <2>1. \A c \in out : {d \in out : <<d, c>> \in R} = {d \in out : Place(d) < Place(c)}
    BY <1>3
  <2> DEFINE A(k) == CHOOSE c \in out : Cardinality({d \in out : Place(d) < Place(c)}) = k - 1
             B(k) == CHOOSE c \in out : Cardinality({d \in out : <<d, c>> \in R}) = k - 1
  <2>2. ASSUME NEW k PROVE A(k) = B(k)
    <3>1. \A c : c \in out /\ Cardinality({d \in out : Place(d) < Place(c)}) = k - 1
                   <=> c \in out /\ Cardinality({d \in out : <<d, c>> \in R}) = k - 1
      BY <2>1
    <3> QED
      BY <3>1
  <2>3. Sorted(out) = [k \in 1 .. Cardinality(out) |-> A(k)]
    BY Zenon DEF Sorted
  <2>4. Ranks(Sorted(out), R, out) <=> Sorted(out) = [k \in 1 .. Cardinality(out) |-> B(k)]
    BY Zenon DEF Ranks
  <2> HIDE DEF A, B
  <2> QED
    BY <2>2, <2>3, <2>4
<1> DEFINE L == Sorted(out)
<1>7. /\ Cardinality(out) \in Nat
      /\ L \in [1 .. Cardinality(out) -> out]
      /\ \A c \in out : \E k \in 1 .. Cardinality(out) : L[k] = c
  <2> HIDE DEF L
  <2>1. Ranks(L, R, out)
    BY <1>6 DEF L
  <2> QED
    BY <1>1, <1>5, <2>1, RankList
<1> HIDE DEF L
<1> QED
  BY <1>7 DEF L

\* Of the names that are no poly1305 names, only those of AES are names of AES
\* ciphers alone, and those take every suffix.
LEMMA AesNames ==
  ASSUME NEW t \in Tokens, t.name \notin PolyNames \cup {"other"},
         t.suffix = "block" \/ Expand(t.name) \subseteq AesCiphers
  PROVE  ~Unknown(t)
  BY DEF Tokens, TokenNames, PolyNames, PlainNames, BlockNames, Unknown, Expand,
         AesCiphers, Ciphers, BlockCiphers, StreamCiphers

\* The parser accepts exactly the acceptable lists, and selects what they name,
\* whatever the order of the tokens.
LEMMA ParseListFacts ==
  ASSUME NEW ts \in Seq(Tokens)
  PROVE  LET selection == ParseList(ts)
         IN  /\ selection.ok <=> Acceptable(ts)
             /\ selection.ok =>
                  /\ selection.mode = ts[1].suffix
                  /\ {selection.ciphers[i] : i \in DOMAIN selection.ciphers} = Selected(ts)
<1> DEFINE s == EndOfLoop(ts)
           N == Len(ts)
           ok == ~s.err /\ s.out # {} /\ (s.mode = "block" \/ s.out \subseteq AesCiphers)
<1>1. /\ N \in Nat /\ DOMAIN ts = 1 .. N /\ (ts # <<>> <=> N > 0)
      /\ \A i \in 1 .. N : ts[i] \in Tokens /\ ts[i].suffix \in Modes
  <2>1. N \in Nat /\ DOMAIN ts = 1 .. N /\ (ts # <<>> <=> N > 0)
    OBVIOUS
  <2>2. \A i \in 1 .. N : ts[i] \in Tokens
    OBVIOUS
  <2>3. \A t \in Tokens : t.suffix \in Modes
    BY DEF Tokens
  <2> QED
    BY <2>1, <2>2, <2>3
<1>2. /\ ParseList(ts).ok <=> ok
      /\ ParseList(ts).mode = s.mode
      /\ ParseList(ts).ciphers = Sorted(s.out)
  BY DEF ParseList
<1>3. Parsed(s, ts, N) /\ s \in ParseStates
  BY LoopParses DEF Parsed
<1> HIDE DEF s, N
<1>4. s.out \in SUBSET Ciphers /\ s.err \in BOOLEAN
  BY <1>3 DEF ParseStates
<1>5. Selected(ts) = UNION {Expand(ts[i].name) : i \in 1 .. N}
  BY <1>1 DEF Selected
<1>6. ~s.err => s.out = Selected(ts) /\ \A i \in 1 .. N : ~Unknown(ts[i])
  BY <1>3, <1>5 DEF Parsed
<1>7. \A i \in 1 .. N : Expand(ts[i].name) \subseteq Selected(ts)
  BY <1>5
<1>8. ASSUME ok
      PROVE  Acceptable(ts) /\ s.mode = ts[1].suffix
  <2>1. N > 0
    <3>1. N = 0 => Selected(ts) = {}
      BY <1>5
    <3> QED
      BY <1>1, <1>6, <1>8, <3>1
  <2>2. \A i \in 1 .. N : ts[i].name \notin PolyNames /\ ts[i].suffix = s.mode
    <3>1. \A i \in 1 .. N : ts[i].name \notin PolyNames
      <4> SUFFICES ASSUME NEW i \in 1 .. N, ts[i].name \in PolyNames PROVE FALSE
        OBVIOUS
      <4>1. Expand(ts[i].name) \subseteq s.out /\ ~(Expand(ts[i].name) \subseteq AesCiphers)
        <5>1. ~(Expand(ts[i].name) \subseteq AesCiphers)
          BY DEF PolyNames, Expand, AesCiphers
        <5> QED
          BY <1>6, <1>7, <1>8, <5>1
      <4>2. s.mode = "gcm"
        BY <1>3, <1>8, <2>1 DEF Parsed
      <4> QED
        BY <1>8, <4>1, <4>2
    <3> QED
      BY <1>3, <1>8, <2>1, <3>1 DEF Parsed
  <2>3. 1 \in 1 .. N /\ s.mode \in Modes /\ s.mode = ts[1].suffix
    BY <1>1, <2>1, <2>2
  <2>4. \A i \in 1 .. N : ts[i].name # "other"
    BY <1>6, <1>8 DEF Unknown
  <2>5. \A i \in 1 .. N : s.mode = "block" \/ Expand(ts[i].name) \subseteq AesCiphers
    BY <1>6, <1>7, <1>8
  <2> QED
    BY <1>1, <2>1, <2>2, <2>3, <2>4, <2>5 DEF Acceptable
<1>9. ASSUME Acceptable(ts)
      PROVE  ok
  <2>1. N > 0
    BY <1>1, <1>9 DEF Acceptable
  <2>2. PICK m \in Modes :
          \A i \in 1 .. N : /\ ts[i].suffix = m
                            /\ ts[i].name \notin PolyNames \cup {"other"}
                            /\ m = "block" \/ Expand(ts[i].name) \subseteq AesCiphers
    BY <1>1, <1>9 DEF Acceptable
  <2>3. \A i \in 1 .. N : ~Unknown(ts[i])
    <3> SUFFICES ASSUME NEW i \in 1 .. N PROVE ~Unknown(ts[i])
      OBVIOUS
    <3> DEFINE t == ts[i]
    <3>1. /\ t \in Tokens /\ t.name \notin PolyNames \cup {"other"}
          /\ t.suffix = "block" \/ Expand(t.name) \subseteq AesCiphers
      BY <1>1, <2>2
    <3> HIDE DEF t
    <3>2. ~Unknown(t)
      BY <3>1, AesNames
    <3> QED
      BY <3>2 DEF t
  <2>4. ~s.err
    BY <1>3, <2>2, <2>3 DEF Parsed
  <2>5. 1 \in 1 .. N
    BY <1>1, <2>1
  <2>6. s.mode = m
    BY <1>3, <2>1, <2>2, <2>4, <2>5 DEF Parsed
  <2>7. s.out # {}
    <3>1. Expand(ts[1].name) # {}
      BY <1>1, <2>3, <2>5, ExpandType
    <3> QED
      BY <1>6, <1>7, <2>4, <2>5, <3>1
  <2>8. m = "block" \/ s.out \subseteq AesCiphers
    <3>1. CASE m # "block"
      <4>1. \A i \in 1 .. N : Expand(ts[i].name) \subseteq AesCiphers
        BY <2>2, <3>1
      <4> QED
        BY <1>5, <1>6, <2>4, <4>1
    <3> QED
      BY <3>1
  <2> QED
    BY <2>4, <2>6, <2>7, <2>8
<1>10. {Sorted(s.out)[i] : i \in DOMAIN Sorted(s.out)} = s.out
  BY <1>4, SortedFacts
<1> QED
  BY <1>2, <1>6, <1>8, <1>9, <1>10

-----------------------------------------------------------------------------
(* The command. *)

allVars == <<cmdVars, vars>>

\* The inductive invariant: before the call of scan its variables are those of a
\* call that has not begun; from the call on they are those of the request that the
\* arguments make; nothing is printed before the call has returned; and every hit
\* behind the cursor was delivered while the reader was there, and always when a
\* failed write stops the output.
CmdInv ==
  /\ inv \in Invocations /\ CmdTypeOK
  /\ stage = "args" => pc = "idle" /\ ci = 1 /\ jobs = {} /\ tried = 0
                       /\ stop = FALSE /\ hits = <<>>
  /\ stage \in {"args", "scan"} => cursor = 1
  /\ stage \in {"scan", "print"} => ArgsPass(inv) /\ LoopInv
  /\ stage = "print" => pc = "ok"
  /\ stdout = "open" \/ inv.json => delivered = cursor - 1
  /\ stage = "exit" => ExitTellsOutcome /\ JsonZeroIsComplete

\* A list of hits is empty just when the ciphers that the loop gets to have none.
LEMMA HitsTellKey ==
  ASSUME LoopInv, pc = "ok"
  PROVE  /\ ~Contract!Fails(req)
         /\ Len(hits) \in Nat
         /\ Len(hits) = 0 <=> Contract!AllHits(req, Contract!Reached(req)) = {}
<1> DEFINE A == Contract!AllHits(req, Contract!Reached(req))
           D == Contract!AllHits(req, DOMAIN req.ciphers)
<1>1. /\ req \in Requests /\ hits \in Seq(HitType) /\ HitsInv
      /\ ci \in 1 .. Len(req.ciphers) + 1
  BY DEF LoopInv, HitsInv, PassInv, TypeOK
<1>2. Contract!Reached(req) = 1 .. ci - 1
  BY ReachedAtEnd
<1>3. Contract!Answers(req, Answer) /\ Answer = [st |-> "ok", hits |-> hits, tried |-> tried]
  <2>1. AnswerRight
    BY LoopInvAnswers
  <2>2. Answer = [st |-> "ok", hits |-> hits, tried |-> tried]
    BY DEF Answer
  <2> QED
    BY <2>1, <2>2 DEF AnswerRight
<1>4. ~Contract!Fails(req) /\ Contract!AsLong(req, hits)
  <2>1. Answer.st = "ok" /\ Answer.hits = hits
    BY <1>3
  <2>2. Answer # Contract!Error
    BY <2>1 DEF Contract!Error
  <2> QED
    BY Zenon, <1>3, <2>1, <2>2 DEF Contract!Answers
<1>5. /\ IsFiniteSet(A) /\ Cardinality(A) \in Nat /\ Len(hits) <= Cardinality(A)
  BY <1>1, <1>2, HitsCounted
<1>6. Len(hits) \in Nat
  BY <1>1
<1>7. ASSUME A = {} PROVE Len(hits) = 0
  BY <1>5, <1>6, <1>7, FS_EmptySet
<1>8. ASSUME Len(hits) = 0 PROVE A = {}
  <2>1. D = {}
    <3>1. DOMAIN hits = {} /\ req.maxHits \in Nat
      BY <1>1, <1>8, RequestShape
    <3> HIDE DEF D
    <3>2. \A w \in D : \E n \in DOMAIN hits : Contract!At(hits[n]) = w
      BY <1>4, <1>8, <3>1 DEF Contract!AsLong, D
    <3> QED
      BY <3>1, <3>2
  <2>2. A \subseteq D
    BY DEF Contract!AllHits, Contract!WindowsOf, Contract!Reached
  <2> QED
    BY <2>1, <2>2
<1> QED
  BY <1>4, <1>6, <1>7, <1>8

\* A call that ends in an error is one that fails.
LEMMA ErrorTellsFailure ==
  ASSUME LoopInv, pc = "err"
  PROVE  Contract!Fails(req)
  BY LoopInvAnswers DEF AnswerRight

\* A call begins as ScanEngine does.
LEMMA BeginLoopInv == Init' => LoopInv'
  BY InitLoopInv, PTL

\* Refused arguments end the command.
LEMMA BadArgsKeeps ==
  ASSUME CmdInv, BadArgs
  PROVE  CmdInv'
<1>1. /\ stage = "args" /\ ~ArgsPass(inv) /\ stage' = "exit" /\ exit' = 2
      /\ inv' = inv /\ stdout' = stdout /\ cursor' = cursor /\ delivered' = delivered
      /\ req' = req /\ hits' = hits /\ pc' = pc
  BY DEF BadArgs, Exit, vars
<1>2. CmdTypeOK'
  BY <1>1 DEF CmdInv, CmdTypeOK, None
<1>3. ExitTellsOutcome'
  BY <1>1 DEF ExitTellsOutcome
<1>4. JsonZeroIsComplete'
  BY <1>1 DEF JsonZeroIsComplete
<1> QED
  BY <1>1, <1>2, <1>3, <1>4 DEF CmdInv

\* The call of scan begins with the request that the arguments make.
LEMMA CallKeeps ==
  ASSUME CmdInv, CallScan
  PROVE  CmdInv'
<1>1. /\ stage = "args" /\ ArgsPass(inv) /\ stage' = "scan"
      /\ req' = RequestOf(inv) /\ pc' = "validate"
      /\ inv' = inv /\ stdout' = stdout /\ cursor' = cursor /\ delivered' = delivered
      /\ exit' = exit /\ ci' = ci /\ jobs' = jobs /\ tried' = tried /\ stop' = stop
      /\ hits' = hits
  BY DEF CallScan
<1>2. CmdTypeOK'
  BY <1>1 DEF CmdInv, CmdTypeOK
<1>3. req' \in Requests
  BY <1>1, InvocationsAssumption DEF CmdInv
<1>4. LoopInv'
  <2>1. Init'
    BY <1>1, <1>3 DEF CmdInv, Init
  <2> QED
    BY <2>1, BeginLoopInv
<1>5. ArgsPass(inv)'
  BY <1>1
<1> QED
  BY <1>1, <1>2, <1>4, <1>5 DEF CmdInv

\* A step of scan keeps what is known of scan and leaves the rest alone.
LEMMA ScanStepKeeps ==
  ASSUME CmdInv, ScanStep
  PROVE  CmdInv'
<1>1. /\ stage = "scan" /\ Next /\ stage' = stage /\ inv' = inv /\ stdout' = stdout
      /\ cursor' = cursor /\ delivered' = delivered /\ exit' = exit
  BY DEF ScanStep, cmdVars
<1>2. LoopInv'
  BY <1>1, NextLoopInv DEF CmdInv
<1>3. Len(hits)' \in Nat
  <2>1. hits' \in Seq(HitType)'
    BY <1>2 DEF LoopInv, HitsInv, PassInv, TypeOK
  <2> QED
    BY <2>1
<1>4. CmdTypeOK'
  <2>1. CmdTypeOK /\ cursor = 1
    BY <1>1 DEF CmdInv
  <2>2. cursor' \in 1 .. Len(hits)' + 1
    BY <1>1, <1>3, <2>1
  <2> QED
    BY Zenon, <1>1, <2>1, <2>2 DEF CmdTypeOK
<1>5. ArgsPass(inv)'
  BY <1>1 DEF CmdInv
<1> QED
  BY <1>1, <1>2, <1>4, <1>5 DEF CmdInv

\* A failed scan ends the command with an error.
LEMMA FailedKeeps ==
  ASSUME CmdInv, ScanFailed
  PROVE  CmdInv'
<1>1. /\ stage = "scan" /\ pc = "err" /\ stage' = "exit" /\ exit' = 2 /\ vars' = vars
      /\ inv' = inv /\ stdout' = stdout /\ cursor' = cursor /\ delivered' = delivered
      /\ req' = req /\ hits' = hits /\ pc' = pc
  BY DEF ScanFailed, Exit, vars
<1>2. CmdTypeOK'
  BY <1>1 DEF CmdInv, CmdTypeOK, None
<1>3. Contract!Fails(req)
  BY <1>1, ErrorTellsFailure DEF CmdInv
<1>4. ExitTellsOutcome'
  <2>1. Contract!Fails(req)'
    BY <1>1, <1>3
  <2> QED
    BY <1>1, <2>1 DEF ExitTellsOutcome
<1>5. JsonZeroIsComplete'
  BY <1>1 DEF JsonZeroIsComplete
<1> QED
  BY <1>1, <1>2, <1>4, <1>5 DEF CmdInv

\* The variables of scan decide what is known of scan.
LEMMA SameLoopInv ==
  ASSUME LoopInv, vars' = vars
  PROVE  LoopInv'
  BY NextLoopInv

\* A scan that returns leads to the printing.
LEMMA ReturnedKeeps ==
  ASSUME CmdInv, ScanReturned
  PROVE  CmdInv'
<1>1. /\ stage = "scan" /\ pc = "ok" /\ stage' = "print" /\ exit' = exit /\ vars' = vars
      /\ inv' = inv /\ stdout' = stdout /\ cursor' = cursor /\ delivered' = delivered
      /\ req' = req /\ hits' = hits /\ pc' = pc
  BY DEF ScanReturned, vars
<1>2. CmdTypeOK'
  BY <1>1 DEF CmdInv, CmdTypeOK
<1>3. LoopInv'
  BY <1>1, SameLoopInv DEF CmdInv
<1>4. ArgsPass(inv)'
  BY <1>1 DEF CmdInv
<1> QED
  BY <1>1, <1>2, <1>3, <1>4 DEF CmdInv

\* A hit is delivered, or a failed write of a JSON line ends the command.
LEMMA PrintHitKeeps ==
  ASSUME CmdInv, PrintHit
  PROVE  CmdInv'
<1>1. /\ stage = "print" /\ cursor <= Len(hits) /\ pc = "ok" /\ LoopInv /\ ArgsPass(inv)
      /\ vars' = vars /\ inv' = inv /\ stdout' = stdout
      /\ req' = req /\ hits' = hits /\ pc' = pc
  BY DEF PrintHit, vars, CmdInv
<1>2. LoopInv' /\ ArgsPass(inv)'
  BY <1>1, SameLoopInv
<1>3. /\ ~Contract!Fails(req) /\ Len(hits) \in Nat
      /\ Len(hits) = 0 <=> Contract!AllHits(req, Contract!Reached(req)) = {}
  BY <1>1, HitsTellKey
<1>4. /\ cursor \in Nat \ {0} /\ delivered \in 0 .. cursor - 1
      /\ stdout \in {"open", "closed"} /\ exit \in {None, 0, 1, 2}
      /\ exit = None <=> stage # "exit"
      /\ stdout = "open" \/ inv.json => delivered = cursor - 1
  BY <1>3 DEF CmdInv, CmdTypeOK
<1>5. CASE inv.json /\ stdout = "closed"
  <2>1. stage' = "exit" /\ exit' = 2 /\ cursor' = cursor /\ delivered' = delivered
    BY <1>5 DEF PrintHit, Exit
  <2>2. CmdTypeOK'
    BY <1>1, <2>1 DEF CmdInv, CmdTypeOK, None
  <2>3. ExitTellsOutcome'
    <3>1. /\ Contract!AllHits(req, Contract!Reached(req))' # {}
          /\ ~Contract!Fails(req)'
      <4>1. Len(hits) # 0
        BY <1>1, <1>3, <1>4
      <4> QED
        BY <1>1, <1>3, <4>1
    <3>2. delivered' < Len(hits)'
      BY <1>1, <1>3, <1>4, <1>5, <2>1
    <3> QED
      BY <1>1, <1>2, <1>5, <2>1, <3>1, <3>2 DEF ExitTellsOutcome
  <2>4. JsonZeroIsComplete'
    BY <2>1 DEF JsonZeroIsComplete
  <2> QED
    BY <1>1, <1>4, <1>5, <2>1, <2>2, <2>3, <2>4 DEF CmdInv
<1>6. CASE ~(inv.json /\ stdout = "closed")
  <2>1. /\ stage' = stage /\ exit' = exit /\ cursor' = cursor + 1
        /\ delivered' = IF stdout = "open" THEN delivered + 1 ELSE delivered
    BY <1>6 DEF PrintHit, Written
  <2>2. CmdTypeOK'
    <3>1. cursor' \in 1 .. Len(hits)' + 1 /\ delivered' \in 0 .. cursor' - 1
      BY <1>1, <1>3, <1>4, <2>1
    <3> QED
      BY <1>1, <1>4, <2>1, <3>1 DEF CmdTypeOK
  <2>3. stdout' = "open" \/ inv'.json => delivered' = cursor' - 1
    BY <1>1, <1>4, <1>6, <2>1
  <2>4. inv' \in Invocations
    BY <1>1 DEF CmdInv
  <2> QED
    BY <1>1, <1>2, <2>1, <2>2, <2>3, <2>4 DEF CmdInv
<1> QED
  BY <1>5, <1>6

\* After the last hit the exit code is that of the number of hits.
LEMMA PrintEndKeeps ==
  ASSUME CmdInv, PrintEnd
  PROVE  CmdInv'
<1>1. /\ stage = "print" /\ cursor > Len(hits) /\ pc = "ok" /\ LoopInv /\ ArgsPass(inv)
      /\ stage' = "exit" /\ exit' = ExitOf(Len(hits))
      /\ inv' = inv /\ stdout' = stdout /\ cursor' = cursor /\ delivered' = delivered
      /\ req' = req /\ hits' = hits /\ pc' = pc
  BY DEF PrintEnd, Exit, vars, CmdInv
<1>2. /\ ~Contract!Fails(req) /\ Len(hits) \in Nat
      /\ Len(hits) = 0 <=> Contract!AllHits(req, Contract!Reached(req)) = {}
  BY <1>1, HitsTellKey
<1>3. exit' = IF Len(hits) = 0 THEN 1 ELSE 0
  BY <1>1 DEF ExitOf
<1>4. /\ cursor \in Nat /\ cursor = Len(hits) + 1 /\ delivered \in 0 .. cursor - 1
      /\ stdout = "open" \/ inv.json => delivered = cursor - 1
  BY <1>1, <1>2 DEF CmdInv, CmdTypeOK
<1>5. CmdTypeOK'
  BY <1>1, <1>3 DEF CmdInv, CmdTypeOK, None
<1>6. ExitTellsOutcome'
  <2>1. /\ ArgsPass(inv)' /\ ~Contract!Fails(req)'
        /\ Contract!AllHits(req, Contract!Reached(req))' = {} <=> Len(hits) = 0
    BY <1>1, <1>2
  <2> QED
    BY <1>3, <2>1 DEF ExitTellsOutcome
<1>7. JsonZeroIsComplete'
  BY <1>1, <1>2, <1>3, <1>4 DEF JsonZeroIsComplete
<1> QED
  BY <1>1, <1>4, <1>5, <1>6, <1>7 DEF CmdInv

\* The reader goes away.
LEMMA CloseKeeps ==
  ASSUME CmdInv, CloseStdout
  PROVE  CmdInv'
<1>1. /\ stage # "exit" /\ stdout = "open" /\ stdout' = "closed" /\ vars' = vars
      /\ inv' = inv /\ stage' = stage /\ cursor' = cursor /\ delivered' = delivered
      /\ exit' = exit /\ req' = req /\ hits' = hits /\ pc' = pc /\ ci' = ci
      /\ jobs' = jobs /\ tried' = tried /\ stop' = stop
  BY DEF CloseStdout, vars
<1>2. CmdTypeOK'
  BY <1>1 DEF CmdInv, CmdTypeOK
<1>3. stage \in {"scan", "print"} => LoopInv' /\ ArgsPass(inv)'
  BY <1>1, SameLoopInv DEF CmdInv
<1> QED
  BY <1>1, <1>2, <1>3 DEF CmdInv

\* Nothing happens.
LEMMA StutterKeeps ==
  ASSUME CmdInv, UNCHANGED <<cmdVars, vars>>
  PROVE  CmdInv'
<1>1. /\ vars' = vars
      /\ inv' = inv /\ stage' = stage /\ cursor' = cursor /\ delivered' = delivered
      /\ stdout' = stdout /\ exit' = exit /\ req' = req /\ hits' = hits /\ pc' = pc
      /\ ci' = ci /\ jobs' = jobs /\ tried' = tried /\ stop' = stop
  BY DEF cmdVars, vars
<1>2. CmdTypeOK'
  BY <1>1 DEF CmdInv, CmdTypeOK
<1>3. stage \in {"scan", "print"} => LoopInv' /\ ArgsPass(inv)'
  BY <1>1, SameLoopInv DEF CmdInv
<1>4. stage = "exit" => ExitTellsOutcome' /\ JsonZeroIsComplete'
  <2>1. /\ ArgsPass(inv)' = ArgsPass(inv) /\ Contract!Fails(req)' = Contract!Fails(req)
        /\ Contract!AllHits(req, Contract!Reached(req))'
             = Contract!AllHits(req, Contract!Reached(req))
    BY <1>1
  <2> QED
    BY <1>1, <2>1 DEF CmdInv, ExitTellsOutcome, JsonZeroIsComplete
<1> QED
  BY <1>1, <1>2, <1>3, <1>4 DEF CmdInv

\* Every command begins with the invariant.
LEMMA InitCmdInv == CmdInit => CmdInv
<1> SUFFICES ASSUME CmdInit PROVE CmdInv
  OBVIOUS
<1>1. /\ inv \in Invocations /\ stage = "args" /\ stdout = "open" /\ cursor = 1
      /\ delivered = 0 /\ exit = None /\ pc = "idle" /\ ci = 1 /\ jobs = {} /\ tried = 0
      /\ stop = FALSE /\ hits = <<>>
  BY DEF CmdInit
<1>2. Len(hits) = 0
  BY <1>1
<1>3. CmdTypeOK
  BY <1>1, <1>2 DEF CmdTypeOK
<1> QED
  BY <1>1, <1>3 DEF CmdInv

\* Every step keeps the invariant.
LEMMA NextCmdInv == CmdInv /\ [CmdNext]_<<cmdVars, vars>> => CmdInv'
<1> SUFFICES ASSUME CmdInv, [CmdNext]_<<cmdVars, vars>> PROVE CmdInv'
  OBVIOUS
<1>1. CASE BadArgs
  BY <1>1, BadArgsKeeps
<1>2. CASE CallScan
  BY <1>2, CallKeeps
<1>3. CASE ScanStep
  BY <1>3, ScanStepKeeps
<1>4. CASE ScanFailed
  BY <1>4, FailedKeeps
<1>5. CASE ScanReturned
  BY <1>5, ReturnedKeeps
<1>6. CASE PrintHit
  BY <1>6, PrintHitKeeps
<1>7. CASE PrintEnd
  BY <1>7, PrintEndKeeps
<1>8. CASE CloseStdout
  BY <1>8, CloseKeeps
<1>9. CASE Exited \/ UNCHANGED <<cmdVars, vars>>
  BY <1>9, StutterKeeps DEF Exited
<1> QED
  BY <1>1, <1>2, <1>3, <1>4, <1>5, <1>6, <1>7, <1>8, <1>9 DEF CmdNext, ProgramStep

\* The invariant implies the properties of the run `command`.
LEMMA CmdInvProperties ==
  CmdInv => CmdTypeOK /\ ExitTellsOutcome /\ JsonZeroIsComplete /\ ParseIsOrderFree
<1> SUFFICES ASSUME CmdInv
             PROVE  CmdTypeOK /\ ExitTellsOutcome /\ JsonZeroIsComplete /\ ParseIsOrderFree
  OBVIOUS
<1>1. CmdTypeOK
  BY DEF CmdInv
<1>2. ExitTellsOutcome
  BY DEF CmdInv, ExitTellsOutcome
<1>3. JsonZeroIsComplete
  BY <1>1 DEF CmdInv, CmdTypeOK, JsonZeroIsComplete, None
<1>4. ParseIsOrderFree
  <2>1. inv.tokens \in Seq(Tokens)
    BY InvocationsAssumption DEF CmdInv
  <2> QED
    BY Zenon, <2>1, ParseListFacts DEF ParseIsOrderFree
<1> QED
  BY <1>1, <1>2, <1>3, <1>4

-----------------------------------------------------------------------------
(* The theorems. *)

\* The invariant holds of every run of the command.
THEOREM CmdInvariant == CmdSpec => []CmdInv
  BY InitCmdInv, NextCmdInv, PTL DEF CmdSpec

\* Every variable of the command always has its type.
THEOREM CmdTypeCorrect == CmdSpec => []CmdTypeOK
  BY CmdInvariant, CmdInvProperties, PTL

\* The exit code tells what the arguments and the request determine, for every
\* schedule of the threads and every moment at which the reader goes away.
THEOREM ExitTellsOutcomeAlways == CmdSpec => []ExitTellsOutcome
  BY CmdInvariant, CmdInvProperties, PTL

\* A JSON consumer that sees exit code 0 has received every hit.
THEOREM JsonZeroIsCompleteAlways == CmdSpec => []JsonZeroIsComplete
  BY CmdInvariant, CmdInvProperties, PTL

\* The loop over the tokens, with its mutable mode, accepts exactly the lists that
\* are acceptable as sets, and selects what they name, however long they are.
THEOREM ParseIsOrderFreeAlways == CmdSpec => []ParseIsOrderFree
  BY CmdInvariant, CmdInvProperties, PTL
=============================================================================
