-------------------------- MODULE KeyScheduleProofs --------------------------
(***************************************************************************)
(* What KeySchedule reports, for every dump, key size and schedule of the  *)
(* threads.                                                                *)
(*                                                                         *)
(* First the arithmetic: the check that the code makes of a window, word   *)
(* by word on the bytes of the dump, accepts exactly the windows that hold *)
(* the schedule FIPS-197 computes from their first words.  Then the        *)
(* passes: the invariant KsInv says which heads are found and counted      *)
(* whenever a thread has tried some of the windows and not others.         *)
(***************************************************************************)
EXTENDS KeySchedule, CommonLemmas, TLAPS

-----------------------------------------------------------------------------
(* The schedule of a key. *)

\* Word i of a schedule w of a key, as Schedule computes it.
NextWord(w, key, nk, i) ==
  IF i < nk
  THEN key[i + 1]
  ELSE [b \in 1 .. WordLen |->
         Xor(w[i - nk][b],
             IF i % nk = 0
             THEN LET s == SBox[w[i - 1][(b % WordLen) + 1]]
                  IN  IF b = 1 THEN Xor(s, Rcon[i \div nk]) ELSE s
             ELSE IF nk = DeepSize /\ i % nk = nk \div 2
                  THEN SBox[w[i - 1][b]]
                  ELSE w[i - 1][b])]

\* The words up to i decide the next one.
LEMMA NextWordLocal ==
  ASSUME NEW f, NEW g, NEW key, NEW nk \in Nat \ {0}, NEW i \in Nat,
         \A j \in 0 .. i - 1 : f[j] = g[j]
  PROVE  NextWord(f, key, nk, i) = NextWord(g, key, nk, i)
<1>1. CASE i < nk
  BY <1>1 DEF NextWord
<1>2. CASE ~(i < nk)
  <2>1. f[i - nk] = g[i - nk] /\ f[i - 1] = g[i - 1]
    BY <1>2
  <2> QED
    BY <2>1 DEF NextWord
<1> QED
  BY <1>1, <1>2

\* The recursion of Schedule has a solution.
LEMMA ScheduleUnfolds ==
  ASSUME NEW key, NEW nk \in Nat \ {0}, NEW n \in Nat
  PROVE  Schedule(key, nk, n) =
           [i \in 0 .. n - 1 |-> NextWord(Schedule(key, nk, n), key, nk, i)]
<1> DEFINE Solves(f, m) == f = [i \in 0 .. m - 1 |-> NextWord(f, key, nk, i)]
           Solved == {m \in Nat : \E f : Solves(f, m)}
<1>1. 0 \in Solved
  <2> DEFINE f == [i \in 0 .. 0 - 1 |-> 0]
  <2>1. Solves(f, 0)
    OBVIOUS
  <2> QED
    BY <2>1
<1>2. ASSUME NEW m \in Nat, m \in Solved
      PROVE  m + 1 \in Solved
  <2>1. PICK f : Solves(f, m)
    BY <1>2
  <2> DEFINE g == [i \in 0 .. m |-> IF i < m THEN f[i]
                                    ELSE NextWord(f, key, nk, m)]
  <2>2. \A i \in 0 .. m : NextWord(g, key, nk, i) = NextWord(f, key, nk, i)
    <3>1. ASSUME NEW i \in 0 .. m
          PROVE  \A j \in 0 .. i - 1 : g[j] = f[j]
      OBVIOUS
    <3> QED
      BY <3>1, NextWordLocal
  <2>3. \A i \in 0 .. m : g[i] = NextWord(g, key, nk, i)
    <3> TAKE i \in 0 .. m
    <3>1. CASE i < m
      <4>1. f[i] = NextWord(f, key, nk, i)
        BY <2>1, <3>1
      <4> QED
        BY <4>1, <3>1, <2>2
    <3>2. CASE i = m
      BY <3>2, <2>2
    <3> QED
      BY <3>1, <3>2
  <2> HIDE DEF g
  <2>4. g = [i \in 0 .. m |-> g[i]]
    BY DEF g
  <2>5. g = [i \in 0 .. m |-> NextWord(g, key, nk, i)]
    BY <2>3, <2>4
  <2>6. Solves(g, m + 1)
    BY <2>5
  <2> QED
    BY <2>6
<1>3. n \in Solved
  <2> HIDE DEF Solved
  <2> QED
    BY <1>1, <1>2, SetInduction
<1>4. Schedule(key, nk, n) = CHOOSE f : Solves(f, n)
  BY DEF Schedule, NextWord
<1>5. PICK f : Solves(f, n)
  BY <1>3
<1>6. Solves(CHOOSE g : Solves(g, n), n)
  <2> HIDE DEF Solves
  <2> QED
    BY <1>5
<1> QED
  BY <1>4, <1>6

\* One step of the schedule is the one that the code takes.
LEMMA NextWordIsExpandWord ==
  ASSUME NEW w, NEW key, NEW nk \in Nat \ {0, 1}, NEW i \in Nat, nk <= i,
         i \div nk <= Len(Rcon)
  PROVE  NextWord(w, key, nk, i) = ExpandWord(w[i - nk], w[i - 1], i, nk)
<1> DEFINE prev == w[i - 1]
           back == w[i - nk]
<1>0. WordLen \in Nat \ {0} /\ Len(Rcon) \in Nat /\ i \div nk \in Nat
  <2>1. i \div nk \in Nat
    BY DivMod
  <2>2. Rcon \in Seq(Byte)
    BY KeyScheduleAssumption
  <2> QED
    BY <2>1, <2>2, KeyScheduleAssumption
<1>1. RconAt(i \div nk) = Rcon[i \div nk]
  BY <1>0 DEF RconAt
<1> DEFINE temp(b) ==
             IF i % nk = 0
             THEN LET s == SBox[prev[(b % WordLen) + 1]]
                  IN  IF b = 1 THEN Xor(s, Rcon[i \div nk]) ELSE s
             ELSE IF nk = DeepSize /\ i % nk = nk \div 2
                  THEN SBox[prev[b]]
                  ELSE prev[b]
<1>9. NextWord(w, key, nk, i) = [b \in 1 .. WordLen |-> Xor(back[b], temp(b))]
  <2>1. ~(i < nk)
    OBVIOUS
  <2> QED
    BY <2>1, Zenon DEF NextWord
<1>2. CASE i % nk = 0
  <2> DEFINE sub == SubWord(RotWord(prev))
  <2>1. \A b \in 1 .. WordLen : (b % WordLen) + 1 \in 1 .. WordLen
    BY <1>0
  <2>2. sub = [b \in 1 .. WordLen |-> SBox[prev[(b % WordLen) + 1]]]
    BY <2>1 DEF SubWord, RotWord
  <2>3. ExpandWord(back, prev, i, nk) = XorWord(back, AddRcon(sub, i \div nk))
    BY <1>2 DEF ExpandWord
  <2> HIDE DEF sub
  <2>4. AddRcon(sub, i \div nk) =
          [b \in 1 .. WordLen |-> IF b = 1 THEN Xor(sub[b], Rcon[i \div nk])
                                  ELSE sub[b]]
    BY <1>0, <1>1, <2>2 DEF AddRcon
  <2>5. XorWord(back, AddRcon(sub, i \div nk)) =
          [b \in 1 .. WordLen |->
            Xor(back[b], IF b = 1 THEN Xor(sub[b], Rcon[i \div nk]) ELSE sub[b])]
    BY <2>4 DEF XorWord
  <2>6. \A b \in 1 .. WordLen :
          temp(b) = IF b = 1 THEN Xor(sub[b], Rcon[i \div nk]) ELSE sub[b]
    BY <2>2, <1>2
  <2> HIDE DEF temp
  <2>7. NextWord(w, key, nk, i) =
          [b \in 1 .. WordLen |->
            Xor(back[b], IF b = 1 THEN Xor(sub[b], Rcon[i \div nk]) ELSE sub[b])]
    BY <2>6, <1>9
  <2> QED
    BY <2>3, <2>5, <2>7
<1>3. CASE i % nk # 0 /\ nk = DeepSize /\ i % nk = nk \div 2
  <2>1. ExpandWord(back, prev, i, nk) = XorWord(back, SubWord(prev))
    BY <1>3 DEF ExpandWord
  <2>2. XorWord(back, SubWord(prev)) =
          [b \in 1 .. WordLen |-> Xor(back[b], SBox[prev[b]])]
    BY DEF XorWord, SubWord
  <2>3. NextWord(w, key, nk, i) =
          [b \in 1 .. WordLen |-> Xor(back[b], SBox[prev[b]])]
    BY <1>3, <1>9
  <2> QED
    BY <2>1, <2>2, <2>3
<1>4. CASE i % nk # 0 /\ ~(nk = DeepSize /\ i % nk = nk \div 2)
  <2>1. ExpandWord(back, prev, i, nk) = XorWord(back, prev)
    BY <1>4 DEF ExpandWord
  <2>2. NextWord(w, key, nk, i) = XorWord(back, prev)
    <3>1. \A b \in 1 .. WordLen : temp(b) = prev[b]
      BY <1>4
    <3> HIDE DEF temp
    <3> QED
      BY <3>1, <1>9 DEF XorWord
  <2> QED
    BY <2>1, <2>2
<1> QED
  BY <1>2, <1>3, <1>4

\* A window holds n words of a schedule when each word after the key follows
\* from the words of the dump before it.
LEMMA HoldsIffFollows ==
  ASSUME NEW d, NEW o \in Nat, NEW nk \in Nat \ {0, 1}, NEW n \in Nat,
         n > nk, (n - 1) \div nk <= Len(Rcon)
  PROVE  HoldsSchedule(d, o, nk, n) <=>
           /\ o + n * WordLen <= Len(d)
           /\ \A i \in nk .. n - 1 :
                Word(d, o, i) =
                  ExpandWord(Word(d, o, i - nk), Word(d, o, i - 1), i, nk)
<1> DEFINE key == [i \in 1 .. nk |-> Word(d, o, i - 1)]
           w == Schedule(key, nk, n)
<1>1. HoldsSchedule(d, o, nk, n) <=>
        /\ o + n * WordLen <= Len(d)
        /\ \A i \in nk .. n - 1 : Word(d, o, i) = w[i]
  BY DEF HoldsSchedule
<1>2. w = [i \in 0 .. n - 1 |-> NextWord(w, key, nk, i)]
  <2>1. nk \in Nat \ {0}
    OBVIOUS
  <2> HIDE DEF key
  <2> QED
    BY <2>1, ScheduleUnfolds
<1> HIDE DEF w
<1>3. \A i \in 0 .. n - 1 : w[i] = NextWord(w, key, nk, i)
  BY <1>2
<1>4. \A i \in 0 .. nk - 1 : w[i] = Word(d, o, i)
  <2> TAKE i \in 0 .. nk - 1
  <2>1. i \in 0 .. n - 1 /\ i < nk /\ i + 1 \in 1 .. nk /\ (i + 1) - 1 = i
    OBVIOUS
  <2>2. w[i] = key[i + 1]
    BY <1>3, <2>1 DEF NextWord
  <2> QED
    BY <2>1, <2>2
<1> HIDE DEF key
<1>5. \A i \in nk .. n - 1 : w[i] = ExpandWord(w[i - nk], w[i - 1], i, nk)
  <2> TAKE i \in nk .. n - 1
  <2>1. i \in Nat /\ n - 1 \in Nat /\ i <= n - 1 /\ nk \in Nat \ {0}
    OBVIOUS
  <2>2. i \div nk <= (n - 1) \div nk
    BY <2>1, DivMonotone
  <2>3. i \div nk <= Len(Rcon)
    BY <2>1, <2>2, DivMod, KeyScheduleAssumption
  <2>4. NextWord(w, key, nk, i) = ExpandWord(w[i - nk], w[i - 1], i, nk)
    <3>1. nk \in Nat \ {0, 1} /\ i \in Nat /\ nk <= i
      BY <2>1
    <3> QED
      BY <3>1, <2>3, NextWordIsExpandWord, Zenon
  <2> QED
    BY <1>3, <2>4
<1>6. ASSUME \A i \in nk .. n - 1 : Word(d, o, i) = w[i],
             NEW i \in nk .. n - 1
      PROVE  Word(d, o, i) =
               ExpandWord(Word(d, o, i - nk), Word(d, o, i - 1), i, nk)
  <2>1. \A j \in 0 .. n - 1 : Word(d, o, j) = w[j]
    BY <1>4, <1>6
  <2>2. i - nk \in 0 .. n - 1 /\ i - 1 \in 0 .. n - 1
    OBVIOUS
  <2>3. /\ Word(d, o, i - nk) = w[i - nk] /\ Word(d, o, i - 1) = w[i - 1]
        /\ Word(d, o, i) = w[i]
    BY <2>1, <2>2
  <2> QED
    BY <2>3, <1>5
<1>7. ASSUME \A i \in nk .. n - 1 :
               Word(d, o, i) =
                 ExpandWord(Word(d, o, i - nk), Word(d, o, i - 1), i, nk)
      PROVE  \A i \in nk .. n - 1 : Word(d, o, i) = w[i]
  <2> DEFINE Same == {m \in Nat : \A i \in 0 .. n - 1 :
                                    i < m => Word(d, o, i) = w[i]}
  <2>1. 0 \in Same
    OBVIOUS
  <2>2. ASSUME NEW m \in Nat, m \in Same
        PROVE  m + 1 \in Same
    <3>1. ASSUME m \in nk .. n - 1
          PROVE  Word(d, o, m) = w[m]
      <4>1. m - nk \in 0 .. n - 1 /\ m - 1 \in 0 .. n - 1 /\ m - nk < m /\ m - 1 < m
        BY <3>1
      <4>2. /\ Word(d, o, m - nk) = w[m - nk] /\ Word(d, o, m - 1) = w[m - 1]
        BY <4>1, <2>2
      <4> QED
        BY <4>2, <1>5, <1>7, <3>1
    <3>2. \A i \in 0 .. n - 1 : i < m + 1 => i < m \/ i = m
      OBVIOUS
    <3>3. m \in 0 .. n - 1 => Word(d, o, m) = w[m]
      BY <3>1, <1>4
    <3> QED
      BY <3>2, <3>3, <2>2
  <2>3. n \in Same
    <3> HIDE DEF Same
    <3> QED
      BY <2>1, <2>2, SetInduction
  <2> QED
    BY <2>3
<1> QED
  BY <1>1, <1>6, <1>7

-----------------------------------------------------------------------------
(* Windows. *)

\* The constants of the words and passes.
LEMMA SizeTypes ==
  /\ WordLen \in Nat \ {0, 1} /\ NewWords \in Nat \ {0}
  /\ Len(Sizes) \in Nat /\ DOMAIN Sizes = 1 .. Len(Sizes)
  /\ \A p \in 1 .. Len(Sizes) : Sizes[p] \in Nat \ {0, 1}
  /\ Len(Rcon) \in Nat /\ DOMAIN Rcon = 1 .. Len(Rcon)
  /\ \A n \in 1 .. Len(Rcon) : Rcon[n] \in Byte
<1>1. Sizes \in Seq(Nat \ {0, 1}) /\ Rcon \in Seq(Byte)
  BY KeyScheduleAssumption
<1> QED
  BY <1>1, KeyScheduleAssumption, RoundConstants

\* The bytes of a word inside the dump.
LEMMA WordBytes ==
  ASSUME NEW d \in Seq(Byte), NEW o \in Nat, NEW n \in Nat,
         o + (n + 1) * WordLen <= Len(d)
  PROVE  /\ Word(d, o, n) \in [1 .. WordLen -> Byte]
         /\ \A b \in 1 .. WordLen :
              /\ o + n * WordLen + b \in DOMAIN d
              /\ Word(d, o, n)[b] = d[o + n * WordLen + b]
<1> DEFINE k == n * WordLen
<1>1. k \in Nat /\ (n + 1) * WordLen = k + WordLen /\ WordLen \in Nat \ {0}
  BY SizeTypes
<1> HIDE DEF k
<1>2. Word(d, o, n) = SubSeq(d, o + k + 1, o + (k + WordLen))
  BY <1>1 DEF Word, k
<1>3. o + (k + WordLen) <= Len(d) /\ Len(d) \in Nat
  BY <1>1
<1>4. SubSeq(d, o + k + 1, o + (k + WordLen)) =
        [b \in 1 .. WordLen |-> d[o + k + b]]
  BY <1>1, <1>3
<1>5. \A b \in 1 .. WordLen : o + k + b \in DOMAIN d /\ d[o + k + b] \in Byte
  BY <1>1, <1>3
<1> QED
  BY <1>2, <1>4, <1>5 DEF k

\* Products with the length of a word.
LEMMA WordProducts ==
  /\ \A n \in Nat : n * WordLen \in Nat /\ WordLen * n = n * WordLen
  /\ \A m, n \in Nat : /\ (m + n) * WordLen = m * WordLen + n * WordLen
                       /\ m <= n => m * WordLen <= n * WordLen
<1>1. WordLen \in Nat
  BY SizeTypes
<1>2. ASSUME NEW m \in Nat, NEW n \in Nat
      PROVE  /\ (m + n) * WordLen = m * WordLen + n * WordLen
             /\ m <= n => m * WordLen <= n * WordLen
  <2>1. (m + n) * WordLen = m * WordLen + n * WordLen
    BY <1>1
  <2>2. ASSUME m <= n PROVE m * WordLen <= n * WordLen
    BY <1>1, <2>2, TimesGap
  <2> QED
    BY <2>1, <2>2
<1>3. \A n \in Nat : n * WordLen \in Nat /\ WordLen * n = n * WordLen
  BY <1>1
<1> QED
  BY <1>2, <1>3

\* The length of a window: whole words.
LEMMA WindowWords ==
  /\ \A p \in Passes : WindowLen(p) \in Nat \ {0}
  /\ \A p \in 1 .. Len(Sizes) :
       /\ p \in Passes /\ ~IsSm4(p)
       /\ WindowLen(p) = (Sizes[p] + NewWords) * WordLen
  /\ IsSm4(Len(Sizes) + 1) /\ WindowLen(Len(Sizes) + 1) = 5 * WordLen
  /\ \A p \in Passes : IsSm4(p) \/ p \in 1 .. Len(Sizes)
<1>1. /\ 5 * WordLen \in Nat \ {0}
      /\ WindowLen(Len(Sizes) + 1) = 5 * WordLen
      /\ IsSm4(Len(Sizes) + 1)
  BY SizeTypes DEF WindowLen, IsSm4
<1>2. ASSUME NEW p \in 1 .. Len(Sizes)
      PROVE  /\ p \in Passes /\ ~IsSm4(p)
             /\ WindowLen(p) = (Sizes[p] + NewWords) * WordLen
             /\ WindowLen(p) \in Nat \ {0}
  <2>1. p \in Passes /\ ~IsSm4(p)
    BY SizeTypes DEF Passes, IsSm4
  <2> DEFINE n == Sizes[p] + NewWords
  <2>2. n \in Nat \ {0} /\ WordLen \in Nat \ {0}
    BY SizeTypes
  <2>3. WindowLen(p) = WordLen * n
    BY <2>1 DEF WindowLen
  <2> HIDE DEF n
  <2>4. WordLen * n = n * WordLen /\ n * WordLen \in Nat
    BY <2>2
  <2>5. n * WordLen >= WordLen
    <3>1. 1 * WordLen <= n * WordLen
      BY <2>2, WordProducts
    <3> QED
      BY <3>1, <2>2
  <2>6. n * WordLen # 0
    BY <2>2, <2>4, <2>5
  <2> QED
    BY <2>1, <2>3, <2>4, <2>6 DEF n
<1>3. \A p \in Passes : p = Len(Sizes) + 1 \/ p \in 1 .. Len(Sizes)
  BY SizeTypes DEF Passes
<1> QED
  BY <1>1, <1>2, <1>3 DEF IsSm4

\* A pass reports an offset exactly when a whole window there is a head, and
\* that is what the schedule of the key says.
LEMMA ExpectedIsHead ==
  ASSUME use \in Uses, NEW p \in Passes, NEW o \in Nat
  PROVE  Expected(p, o) <=>
           /\ o \in Windows(use.dump, p)
           /\ HeadValid(use.dump, p, o)
<1> DEFINE d == use.dump
<1>1. d \in Seq(Byte) /\ Len(d) \in Nat
  BY KeyScheduleAssumption
<1>2. o \in Windows(d, p) <=> o + WindowLen(p) <= Len(d)
  BY <1>1, WindowWords DEF Windows
<1>3. CASE IsSm4(p)
  BY <1>2, <1>3 DEF Expected, HeadValid
<1>4. CASE p \in 1 .. Len(Sizes)
  <2> DEFINE nk == Sizes[p]
             n == nk + NewWords
  <2>1. nk \in Nat \ {0, 1} /\ n \in Nat /\ n > nk
    BY <1>4, SizeTypes
  <2>2. (n - 1) \div nk <= Len(Rcon)
    BY <1>4, SizeTypes, RoundConstants
  <2>3. HoldsSchedule(d, o, nk, n) <=>
          /\ o + n * WordLen <= Len(d)
          /\ \A i \in nk .. n - 1 :
               Word(d, o, i) =
                 ExpandWord(Word(d, o, i - nk), Word(d, o, i - 1), i, nk)
    BY ZenonT(40), <2>1, <2>2, HoldsIffFollows
  <2>4. ~IsSm4(p) /\ WindowLen(p) = n * WordLen
    BY <1>4, WindowWords
  <2>5. Expected(p, o) <=> HoldsSchedule(d, o, nk, n)
    BY <2>4 DEF Expected
  <2>6. HeadValid(d, p, o) <=> ScheduleHeadValid(d, o, nk)
    BY <2>4 DEF HeadValid
  <2>7. ScheduleHeadValid(d, o, nk) <=>
          \A i \in nk .. n - 1 :
            Word(d, o, i) =
              ExpandWord(Word(d, o, i - nk), Word(d, o, i - 1), i, nk)
    <3>1. NewWords \in Nat
      BY SizeTypes
    <3>2. nk + NewWords - 1 = n - 1
      <4> HIDE DEF nk
      <4> QED
        BY <2>1, <3>1
    <3> HIDE DEF n, nk, d
    <3> QED
      BY <3>2, Zenon DEF ScheduleHeadValid
  <2>8. Expected(p, o) <=> o \in Windows(d, p) /\ HeadValid(d, p, o)
    <3> HIDE DEF n, nk, d
    <3> QED
      BY <1>2, <2>3, <2>4, <2>5, <2>6, <2>7
  <2> QED
    BY <2>8
<1> QED
  BY <1>3, <1>4, WindowWords

\* The words up to one inside the dump are of bytes.
LEMMA WordTypes ==
  ASSUME NEW d \in Seq(Byte), NEW o \in Nat, NEW i \in Nat,
         o + (i + 1) * WordLen <= Len(d), NEW j \in 0 .. i
  PROVE  Word(d, o, j) \in [1 .. WordLen -> Byte]
<1>1. j \in Nat /\ j + 1 \in Nat /\ i + 1 \in Nat /\ j + 1 <= i + 1
  OBVIOUS
<1>2. (j + 1) * WordLen <= (i + 1) * WordLen
      /\ (j + 1) * WordLen \in Nat /\ (i + 1) * WordLen \in Nat
  BY <1>1, WordProducts
<1>3. o + (j + 1) * WordLen <= Len(d)
  BY <1>2
<1> QED
  BY <1>1, <1>3, WordBytes

\* A word of bytes.
IsWord(w) == w \in [1 .. WordLen -> Byte]

\* Word i of a schedule from a key of nk words is the first of round r.
StartsRound(i, nk, r) ==
  /\ i \in Nat /\ nk \in Nat \ {0, 1} /\ r \in 1 .. Len(Rcon)
  /\ i % nk = 0 /\ i \div nk = r

\* The first byte of a word that follows with a round constant.
LEMMA ExpandedByte ==
  ASSUME NEW back, NEW prev, NEW i, NEW nk, NEW r,
         IsWord(back), IsWord(prev), StartsRound(i, nk, r)
  PROVE  /\ SBox[prev[2]] \in Byte /\ back[1] \in Byte
         /\ ExpandWord(back, prev, i, nk)[1] =
              Xor(back[1], Xor(SBox[prev[2]], Rcon[r]))
<1>1. WordLen \in Nat \ {0, 1} /\ Len(Rcon) \in Nat
  BY SizeTypes
<1>2. 1 \in 1 .. WordLen /\ 2 \in 1 .. WordLen /\ (1 % WordLen) + 1 = 2
  BY <1>1
<1>3. ExpandWord(back, prev, i, nk) =
        XorWord(back, AddRcon(SubWord(RotWord(prev)), r))
  BY DEF ExpandWord, StartsRound
<1>4. SBox[prev[2]] \in Byte /\ back[1] \in Byte
  BY <1>2, KeyScheduleAssumption DEF IsWord
<1>5. RconAt(r) = Rcon[r]
  BY <1>1 DEF RconAt, StartsRound
<1>7. SubWord(RotWord(prev))[1] = SBox[prev[2]]
  BY <1>2 DEF SubWord, RotWord
<1>8. AddRcon(SubWord(RotWord(prev)), r)[1] = Xor(SBox[prev[2]], Rcon[r])
  BY <1>2, <1>5, <1>7 DEF AddRcon, SubWord
<1>9. XorWord(back, AddRcon(SubWord(RotWord(prev)), r))[1] =
        Xor(back[1], Xor(SBox[prev[2]], Rcon[r]))
  BY <1>2, <1>8 DEF XorWord
<1> QED
  BY <1>3, <1>4, <1>9

\* The same of the second byte, which no round constant touches.
LEMMA SecondExpandedByte ==
  ASSUME NEW back, NEW prev, NEW i \in Nat, NEW nk \in Nat \ {0, 1}, i % nk = 0
  PROVE  ExpandWord(back, prev, i, nk)[2] =
           Xor(back[2], SBox[prev[(2 % WordLen) + 1]])
<1> DEFINE r == i \div nk
           b == (2 % WordLen) + 1
<1>1. WordLen \in Nat \ {0, 1} /\ 2 \in 1 .. WordLen
  BY SizeTypes
<1>3. ExpandWord(back, prev, i, nk) =
        XorWord(back, AddRcon(SubWord(RotWord(prev)), r))
  BY DEF ExpandWord
<1>4. SubWord(RotWord(prev))[2] = SBox[prev[b]]
  BY <1>1 DEF SubWord, RotWord
<1> HIDE DEF r, b
<1>5. AddRcon(SubWord(RotWord(prev)), r)[2] = SBox[prev[b]]
  BY <1>1, <1>4 DEF AddRcon, SubWord
<1>6. XorWord(back, AddRcon(SubWord(RotWord(prev)), r))[2] =
        Xor(back[2], SBox[prev[b]])
  BY <1>1, <1>5 DEF XorWord
<1> QED
  BY <1>3, <1>6 DEF b

\* A later round of a schedule, of nk words from word r * nk on, is no head: the
\* word behind it follows with round constant r + 1, that of a head with the
\* first.
LEMMA RoundsDiffer ==
  ASSUME NEW d \in Seq(Byte), NEW o \in Nat, NEW nk \in Nat \ {0, 1},
         NEW r \in 1 .. Len(Rcon) - 1,
         HoldsSchedule(d, o, nk, (r + 1) * nk + 1)
  PROVE  ~ScheduleHeadValid(d, o + r * nk * WordLen, nk)
<1> DEFINE m == r * nk
           t == m + nk
           q == o + m * WordLen
<1>1. /\ nk \in Nat \ {0, 1} /\ WordLen \in Nat \ {0, 1}
      /\ NewWords \in Nat \ {0} /\ d \in Seq(Byte) /\ Len(d) \in Nat
      /\ Len(Rcon) \in Nat /\ o \in Nat
      /\ r \in Nat /\ r + 1 \in Nat /\ r >= 1 /\ r + 1 <= Len(Rcon)
  BY SizeTypes
<1>2. m \in Nat /\ m >= nk /\ (r + 1) * nk = t
  <2>1. m \in Nat /\ (r + 1) * nk = t
    BY <1>1
  <2>2. 1 * nk <= r * nk
    BY <1>1, TimesGap
  <2> QED
    BY <2>1, <2>2, <1>1
<1>3. HoldsSchedule(d, o, nk, t + 1)
  BY <1>2, Zenon
<1>4. t \div nk = r + 1 /\ t % nk = 0 /\ nk \div nk = 1 /\ nk % nk = 0
  <2>1. ((r + 1) * nk + 0) \div nk = r + 1 /\ ((r + 1) * nk + 0) % nk = 0
    <3>1. r + 1 \in Nat /\ nk \in Nat \ {0} /\ 0 \in 0 .. nk - 1
      BY <1>1
    <3> QED
      BY <3>1, DivModUnique, Zenon
  <2>2. (1 * nk + 0) \div nk = 1 /\ (1 * nk + 0) % nk = 0
    BY <1>1, DivModUnique
  <2>3. (r + 1) * nk + 0 = t /\ 1 * nk + 0 = nk
    BY <1>1, <1>2
  <2> QED
    BY <2>1, <2>2, <2>3
<1> SUFFICES ASSUME ScheduleHeadValid(d, q, nk) PROVE FALSE
  OBVIOUS
<1>5. q \in Nat /\ m * WordLen \in Nat
  BY <1>1, <1>2, WordProducts
<1> HIDE DEF m
<1>6. t \in Nat /\ t >= nk /\ t - nk = m
  BY <1>1, <1>2
<1>7. \A i \in Nat : /\ q + i * WordLen = o + (i + m) * WordLen
                     /\ q + (i + 1) * WordLen = o + (i + m + 1) * WordLen
  <2>1. ASSUME NEW i \in Nat
        PROVE  q + i * WordLen = o + (i + m) * WordLen
    <3>1. (i + m) * WordLen = i * WordLen + m * WordLen /\ i * WordLen \in Nat
      BY <1>2, WordProducts
    <3> QED
      BY <3>1, <1>1, <1>5
  <2>2. ASSUME NEW i \in Nat
        PROVE  q + (i + 1) * WordLen = o + (i + m + 1) * WordLen
    <3>1. i + 1 \in Nat /\ i + 1 + m = i + m + 1
      BY <1>2
    <3> QED
      BY <3>1, <2>1
  <2> QED
    BY <2>1, <2>2
<1>8. \A i \in Nat : Word(d, q, i) = Word(d, o, i + m)
  BY <1>7, <1>1 DEF Word
<1>9. /\ o + (t + 1) * WordLen <= Len(d)
      /\ Word(d, o, t) = ExpandWord(Word(d, o, m), Word(d, o, t - 1), t, nk)
  <2> DEFINE n == t + 1
  <2>1. n \in Nat /\ n > nk /\ n - 1 = t /\ t \in nk .. n - 1
    BY <1>1, <1>6
  <2>2. (n - 1) \div nk <= Len(Rcon) /\ HoldsSchedule(d, o, nk, n)
    BY <2>1, <1>1, <1>3, <1>4
  <2> HIDE DEF n
  <2>3. /\ o + n * WordLen <= Len(d)
        /\ \A i \in nk .. n - 1 :
             Word(d, o, i) =
               ExpandWord(Word(d, o, i - nk), Word(d, o, i - 1), i, nk)
    BY <1>1, <2>1, <2>2, HoldsIffFollows
  <2>4. Word(d, o, t) = ExpandWord(Word(d, o, t - nk), Word(d, o, t - 1), t, nk)
    BY <2>1, <2>3
  <2> QED
    BY <2>3, <2>4, <1>6 DEF n
<1>10. Word(d, q, nk) = ExpandWord(Word(d, q, 0), Word(d, q, nk - 1), nk, nk)
  <2>1. ScheduleHeadValid(d, q, nk)
    OBVIOUS
  <2>2. nk \in nk .. nk + NewWords - 1 /\ nk - nk = 0
    BY <1>1
  <2>3. Word(d, q, nk) = ExpandWord(Word(d, q, nk - nk), Word(d, q, nk - 1), nk, nk)
    BY <2>1, <2>2 DEF ScheduleHeadValid
  <2> QED
    BY <2>2, <2>3
<1>11. /\ Word(d, q, nk) = Word(d, o, t) /\ Word(d, q, 0) = Word(d, o, m)
       /\ Word(d, q, nk - 1) = Word(d, o, t - 1)
  <2>1. nk - 1 \in Nat /\ nk + m = t /\ (nk - 1) + m = t - 1 /\ 0 + m = m
    BY <1>1, <1>2
  <2>2. nk \in Nat /\ 0 \in Nat
    BY <1>1
  <2>3. /\ Word(d, q, nk) = Word(d, o, nk + m) /\ Word(d, q, 0) = Word(d, o, 0 + m)
        /\ Word(d, q, nk - 1) = Word(d, o, (nk - 1) + m)
    BY <2>1, <2>2, <1>8
  <2> QED
    BY <2>1, <2>3
<1> DEFINE s == SBox[Word(d, o, t - 1)[2]]
           a == Word(d, o, m)[1]
<1>12. IsWord(Word(d, o, m)) /\ IsWord(Word(d, o, t - 1))
  <2>1. m \in 0 .. t /\ t - 1 \in 0 .. t
    BY <1>1, <1>2
  <2> HIDE DEF t
  <2> QED
    BY <2>1, <1>1, <1>6, <1>9, WordTypes DEF IsWord
<1>13. StartsRound(t, nk, r + 1) /\ StartsRound(nk, nk, 1)
  BY <1>1, <1>4, <1>6 DEF StartsRound
<1>14. /\ s \in Byte /\ a \in Byte
       /\ Word(d, o, t)[1] = Xor(a, Xor(s, Rcon[r + 1]))
  BY <1>9, <1>12, <1>13, ExpandedByte
<1>15. Word(d, q, nk)[1] = Xor(a, Xor(s, Rcon[1]))
  BY <1>10, <1>11, <1>12, <1>13, ExpandedByte
<1>16. Xor(a, Xor(s, Rcon[r + 1])) = Xor(a, Xor(s, Rcon[1]))
  BY <1>11, <1>14, <1>15
<1>17. Rcon[r + 1] \in Byte /\ Rcon[1] \in Byte
  BY <1>1, SizeTypes
<1>18. Rcon[r + 1] = Rcon[1]
  <2> HIDE DEF s, a
  <2>1. Xor(s, Rcon[r + 1]) = Xor(s, Rcon[1])
    BY <1>14, <1>16, <1>17, RoundConstants, KeyScheduleAssumption
  <2> QED
    BY <2>1, <1>14, <1>17, RoundConstants
<1>19. r + 1 # 1 /\ r + 1 \in DOMAIN Rcon /\ 1 \in DOMAIN Rcon
  BY <1>1, SizeTypes
<1> QED
  BY <1>18, <1>19, RoundConstants

\* The same of the sizes of the passes.
LEMMA LaterRoundIsNoHead ==
  ASSUME use \in Uses, NEW p \in 1 .. Len(Sizes), NEW o \in Nat,
         NEW r \in 1 .. Len(Rcon) - 1,
         HoldsSchedule(use.dump, o, Sizes[p], (r + 1) * Sizes[p] + 1)
  PROVE  ~HeadValid(use.dump, p, o + r * Sizes[p] * WordLen)
<1>1. use.dump \in Seq(Byte) /\ Sizes[p] \in Nat \ {0, 1}
  BY SizeTypes, KeyScheduleAssumption
<1>2. ~IsSm4(p)
  BY WindowWords
<1> QED
  BY <1>1, <1>2, RoundsDiffer DEF HeadValid

\* Equal bytes are no head: the first two bytes of the first word checked
\* would follow with a round constant and without one.
LEMMA FillFails ==
  ASSUME NEW d \in Seq(Byte), NEW o \in Nat, NEW nk \in Nat \ {0, 1},
         (nk + NewWords - 1) \div nk <= Len(Rcon),
         o + (nk + NewWords) * WordLen <= Len(d),
         \A m, n \in DOMAIN d : d[m] = d[n]
  PROVE  ~ScheduleHeadValid(d, o, nk)
<1>1. /\ nk \in Nat \ {0, 1} /\ WordLen \in Nat \ {0, 1}
      /\ NewWords \in Nat \ {0} /\ Len(d) \in Nat
      /\ Len(Rcon) \in Nat
  BY SizeTypes
<1>3. o \in Nat /\ o + (nk + NewWords) * WordLen <= Len(d)
  OBVIOUS
<1>4. \A m, n \in DOMAIN d : d[m] = d[n]
  OBVIOUS
<1>0. (nk + NewWords - 1) \div nk <= Len(Rcon)
  OBVIOUS
<1> SUFFICES ASSUME ScheduleHeadValid(d, o, nk) PROVE FALSE
  OBVIOUS
<1>5. \A i \in 0 .. nk : o + (i + 1) * WordLen <= Len(d)
  <2> TAKE i \in 0 .. nk
  <2>1. i + 1 \in Nat /\ nk + NewWords \in Nat /\ i + 1 <= nk + NewWords
    BY <1>1
  <2>2. (i + 1) * WordLen <= (nk + NewWords) * WordLen
        /\ (i + 1) * WordLen \in Nat /\ (nk + NewWords) * WordLen \in Nat
    BY <2>1, WordProducts
  <2> QED
    BY <2>2, <1>1, <1>3
<1>6. Word(d, o, nk) = ExpandWord(Word(d, o, 0), Word(d, o, nk - 1), nk, nk)
  <2>1. ScheduleHeadValid(d, o, nk)
    OBVIOUS
  <2>2. nk \in nk .. nk + NewWords - 1 /\ nk - nk = 0
    BY <1>1
  <2>3. Word(d, o, nk) = ExpandWord(Word(d, o, nk - nk), Word(d, o, nk - 1), nk, nk)
    BY <2>1, <2>2 DEF ScheduleHeadValid
  <2> QED
    BY <2>2, <2>3
<1>7. nk \div nk = 1 /\ nk % nk = 0 /\ 1 \in 1 .. Len(Rcon)
  <2>1. (1 * nk + 0) \div nk = 1 /\ (1 * nk + 0) % nk = 0
    BY <1>1, DivModUnique
  <2>2. nk \div nk = 1 /\ nk % nk = 0
    BY <1>1, <2>1
  <2>3. nk <= nk + NewWords - 1 /\ nk \in Nat /\ nk + NewWords - 1 \in Nat
    BY <1>1
  <2>4. nk \div nk <= (nk + NewWords - 1) \div nk
        /\ (nk + NewWords - 1) \div nk \in Nat
    BY <2>3, <1>1, DivMonotone, DivMod
  <2>5. 1 <= Len(Rcon)
    BY <2>2, <2>4, <1>0, <1>1
  <2> QED
    BY <2>2, <2>5, <1>1
\* One byte f fills the words up to the one checked.
<1>8. PICK f \in Byte : \A i \in 0 .. nk, b \in 1 .. WordLen : Word(d, o, i)[b] = f
  <2>1. \A i \in 0 .. nk, b \in 1 .. WordLen :
          /\ o + i * WordLen + b \in DOMAIN d
          /\ Word(d, o, i)[b] = d[o + i * WordLen + b]
    BY <1>1, <1>3, <1>5, WordBytes
  <2>2. 0 \in 0 .. nk /\ 1 \in 1 .. WordLen
    BY <1>1
  <2>3. Word(d, o, 0)[1] \in Byte
    <3>1. Word(d, o, 0) \in [1 .. WordLen -> Byte]
      <4>1. nk \in Nat /\ nk \in 0 .. nk
        BY <1>1
      <4>2. o + (nk + 1) * WordLen <= Len(d)
        BY <4>1, <1>5
      <4> QED
        BY <4>1, <4>2, <2>2, WordTypes
    <3> QED
      BY <3>1, <2>2
  <2>4. \A i \in 0 .. nk, b \in 1 .. WordLen : Word(d, o, i)[b] = Word(d, o, 0)[1]
    <3> TAKE i \in 0 .. nk, b \in 1 .. WordLen
    <3>1. /\ o + i * WordLen + b \in DOMAIN d
          /\ Word(d, o, i)[b] = d[o + i * WordLen + b]
      BY <2>1
    <3>2. /\ o + 0 * WordLen + 1 \in DOMAIN d
          /\ Word(d, o, 0)[1] = d[o + 0 * WordLen + 1]
      BY <2>1, <2>2
    <3> QED
      BY <3>1, <3>2, <1>4
  <2> QED
    BY <2>3, <2>4
<1>9. /\ 0 \in 0 .. nk /\ nk - 1 \in 0 .. nk /\ nk \in 0 .. nk
      /\ nk \in Nat /\ nk >= nk
      /\ 1 \in 1 .. WordLen /\ 2 \in 1 .. WordLen
  BY <1>1
<1>10. f = Xor(f, Xor(SBox[f], Rcon[1])) /\ SBox[f] \in Byte
  <2>1. StartsRound(nk, nk, 1) /\ o + (nk + 1) * WordLen <= Len(d)
    BY <1>1, <1>5, <1>7, <1>9 DEF StartsRound
  <2>2. IsWord(Word(d, o, 0)) /\ IsWord(Word(d, o, nk - 1))
    BY <2>1, <1>1, <1>3, <1>9, WordTypes DEF IsWord
  <2>3. /\ SBox[Word(d, o, nk - 1)[2]] \in Byte
        /\ ExpandWord(Word(d, o, 0), Word(d, o, nk - 1), nk, nk)[1] =
             Xor(Word(d, o, 0)[1], Xor(SBox[Word(d, o, nk - 1)[2]], Rcon[1]))
    BY <2>1, <2>2, ExpandedByte
  <2> QED
    BY <2>3, <1>6, <1>8, <1>9
<1>11. f = Xor(f, SBox[f])
  <2>0. nk \in Nat \ {0, 1} /\ nk % nk = 0
    BY <1>1, <1>7
  <2>1. ExpandWord(Word(d, o, 0), Word(d, o, nk - 1), nk, nk)[2] =
          Xor(Word(d, o, 0)[2], SBox[Word(d, o, nk - 1)[(2 % WordLen) + 1]])
    BY <2>0, <1>9, SecondExpandedByte
  <2>2. (2 % WordLen) + 1 \in 1 .. WordLen
    BY <1>1
  <2> QED
    BY <2>1, <2>2, <1>6, <1>8, <1>9
<1>12. Rcon[1] \in Byte /\ 1 \in DOMAIN Rcon
  BY <1>7, SizeTypes
<1>13. Xor(SBox[f], Rcon[1]) = SBox[f]
  BY <1>10, <1>11, <1>12, RoundConstants, KeyScheduleAssumption
<1> QED
  BY <1>10, <1>12, <1>13, RoundConstants

\* A dump of equal bytes has no head of an AES schedule.
LEMMA FillHasNoHead ==
  ASSUME use \in Uses, NEW p \in 1 .. Len(Sizes),
         NEW o \in Windows(use.dump, p),
         \A m, n \in DOMAIN use.dump : use.dump[m] = use.dump[n]
  PROVE  ~HeadValid(use.dump, p, o)
<1>1. use.dump \in Seq(Byte) /\ Sizes[p] \in Nat \ {0, 1}
  BY SizeTypes, KeyScheduleAssumption
<1>2. (Sizes[p] + NewWords - 1) \div Sizes[p] <= Len(Rcon)
  BY SizeTypes, RoundConstants
<1>3. ~IsSm4(p) /\ WindowLen(p) = (Sizes[p] + NewWords) * WordLen
  BY WindowWords
<1>4. o \in Nat /\ o + (Sizes[p] + NewWords) * WordLen <= Len(use.dump)
  BY <1>1, <1>3 DEF Windows
<1>5. ~ScheduleHeadValid(use.dump, o, Sizes[p])
  BY <1>1, <1>2, <1>4, FillFails
<1> QED
  BY <1>3, <1>5 DEF HeadValid

-----------------------------------------------------------------------------
(* The order of a pass and its counter. *)

\* InOrder lists a set of offsets in the order of the dump.
LEMMA InOrderList ==
  ASSUME NEW S, S \subseteq Nat, IsFiniteSet(S)
  PROVE  /\ Cardinality(S) \in Nat
         /\ InOrder(S) \in [1 .. Cardinality(S) -> S]
         /\ \A m, n \in 1 .. Cardinality(S) : m < n => InOrder(S)[m] < InOrder(S)[n]
         /\ \A o \in S : \E n \in 1 .. Cardinality(S) : InOrder(S)[n] = o
<1> DEFINE R == {x \in Nat \X Nat : x[1] < x[2]}
           L == InOrder(S)
<1>1. \A x, y \in S : <<x, y>> \in R <=> x < y
  OBVIOUS
<1> HIDE DEF R
<1>2. Orders(R, S)
  BY <1>1 DEF Orders
<1>3. \A c \in S : {q \in S : q < c} = {d \in S : <<d, c>> \in R}
  BY <1>1
<1>4. Ranks(L, R, S)
  <2>1. \A n \in 1 .. Cardinality(S) :
          (CHOOSE o \in S : Cardinality({q \in S : q < o}) = n - 1) =
          (CHOOSE c \in S : Cardinality({d \in S : <<d, c>> \in R}) = n - 1)
    BY <1>3
  <2> DEFINE f(n) == CHOOSE o \in S : Cardinality({q \in S : q < o}) = n - 1
             g(n) == CHOOSE c \in S : Cardinality({d \in S : <<d, c>> \in R}) = n - 1
  <2>2. \A n \in 1 .. Cardinality(S) : f(n) = g(n)
    BY <2>1
  <2>3. L = [n \in 1 .. Cardinality(S) |-> f(n)]
    BY Zenon DEF InOrder
  <2>4. Ranks(L, R, S) <=> L = [n \in 1 .. Cardinality(S) |-> g(n)]
    BY Zenon DEF Ranks
  <2> HIDE DEF f, g, L
  <2> QED
    BY <2>2, <2>3, <2>4
<1> HIDE DEF L
<1>5. /\ Cardinality(S) \in Nat
      /\ L \in [1 .. Cardinality(S) -> S]
      /\ \A m, n \in 1 .. Cardinality(S) : m < n => <<L[m], L[n]>> \in R
      /\ \A c \in S : \E n \in 1 .. Cardinality(S) : L[n] = c
  BY <1>2, <1>4, RankList
<1>6. \A m, n \in 1 .. Cardinality(S) : m < n => L[m] < L[n]
  BY <1>1, <1>5
<1> QED
  BY <1>5, <1>6 DEF L

\* The windows of a pass are a finite set of offsets.
LEMMA WindowsFinite ==
  ASSUME use \in Uses, NEW p \in Nat
  PROVE  /\ Windows(use.dump, p) \subseteq 0 .. Len(use.dump) - 1
         /\ Windows(use.dump, p) \subseteq Nat
         /\ IsFiniteSet(Windows(use.dump, p))
         /\ Len(use.dump) \in Nat
<1>1. Len(use.dump) \in Nat
  BY KeyScheduleAssumption
<1>2. Windows(use.dump, p) \subseteq 0 .. Len(use.dump) - 1
  BY DEF Windows
<1>3. IsFiniteSet(0 .. Len(use.dump) - 1)
  BY <1>1, FS_Interval
<1> QED
  BY <1>1, <1>2, <1>3, FS_Subset

\* The counter after one more pass.
LEMMA CountPass ==
  ASSUME use \in Uses, NEW n \in Nat \ {0}
  PROVE  /\ Cardinality(WindowsOf(1 .. n)) \in Nat
         /\ Cardinality(WindowsOf(1 .. n - 1)) \in Nat
         /\ Cardinality(Windows(use.dump, n)) \in Nat
         /\ Cardinality(WindowsOf(1 .. n)) =
              Cardinality(WindowsOf(1 .. n - 1)) + Cardinality(Windows(use.dump, n))
<1> DEFINE W == Windows(use.dump, n)
           U == WindowsOf(1 .. n - 1)
           V == {n} \X W
<1>1. WindowsOf(1 .. n) = U \cup V
  <2>1. 1 .. n = (1 .. n - 1) \cup {n}
    OBVIOUS
  <2> QED
    BY <2>1 DEF WindowsOf
<1>2. U \cap V = {}
  BY DEF WindowsOf
<1>3. IsFiniteSet(W) /\ Len(use.dump) \in Nat
  BY WindowsFinite
<1>4. IsFiniteSet(U)
  <2> DEFINE All == (1 .. n - 1) \X (0 .. Len(use.dump) - 1)
  <2>1. U \subseteq All
    <3>1. \A p \in 1 .. n - 1 : Windows(use.dump, p) \subseteq 0 .. Len(use.dump) - 1
      BY WindowsFinite
    <3> QED
      BY <3>1 DEF WindowsOf
  <2>2. IsFiniteSet(1 .. n - 1) /\ IsFiniteSet(0 .. Len(use.dump) - 1)
    <3>1. 1 \in Int /\ 0 \in Int /\ n - 1 \in Int /\ Len(use.dump) - 1 \in Int
      BY <1>3
    <3> QED
      BY <3>1, FS_Interval
  <2>3. IsFiniteSet(All)
    BY <2>2, FS_Product
  <2> QED
    BY <2>1, <2>3, FS_Subset
<1>5. IsFiniteSet(V) /\ Cardinality(V) = Cardinality(W) /\ Cardinality(W) \in Nat
  <2>1. IsFiniteSet({n}) /\ Cardinality({n}) = 1
    BY FS_Singleton
  <2>2. IsFiniteSet(V) /\ Cardinality(V) = Cardinality({n}) * Cardinality(W)
    BY <2>1, <1>3, FS_Product
  <2>3. Cardinality(W) \in Nat
    BY <1>3, FS_CardinalityType
  <2> QED
    BY <2>1, <2>2, <2>3
<1>6. Cardinality(U \cup V) = Cardinality(U) + Cardinality(V) - Cardinality(U \cap V)
  BY <1>4, <1>5, FS_Union
<1>7. Cardinality(U \cap V) = 0
  BY <1>2, FS_EmptySet
<1>8. Cardinality(U) \in Nat
  BY <1>4, FS_CardinalityType
<1>10. Cardinality(WindowsOf(1 .. n)) = Cardinality(U \cup V)
  BY <1>1
<1> HIDE DEF U, V, W
<1>9. Cardinality(U \cup V) = Cardinality(U) + Cardinality(W)
  BY <1>5, <1>6, <1>7, <1>8
<1> QED
  BY <1>5, <1>8, <1>9, <1>10 DEF U, W

-----------------------------------------------------------------------------
(* The invariant of the passes. *)

\* Each hit is a head of an earlier pass, and the hits are in order.
HitsSound ==
  /\ \A n \in DOMAIN hits :
       /\ hits[n][1] < pass
       /\ hits[n][2] \in Windows(use.dump, hits[n][1])
       /\ HeadValid(use.dump, hits[n][1], hits[n][2])
  /\ \A m, n \in DOMAIN hits : m < n => Before(hits[m], hits[n])

\* Each head of an earlier pass is a hit.
HitsComplete ==
  \A p \in 1 .. pass - 1 : \A o \in Windows(use.dump, p) :
    HeadValid(use.dump, p, o) => \E n \in DOMAIN hits : hits[n] = <<p, o>>

\* In a pass the windows already tried have given their heads.
FoundExact ==
  pc = "pass" =>
    /\ left \subseteq Windows(use.dump, pass)
    /\ found = {o \in Windows(use.dump, pass) \ left : HeadValid(use.dump, pass, o)}

\* The counter, in a pass and between two.
CountExact ==
  CASE pc = "loop" -> tried = Cardinality(WindowsOf(1 .. pass - 1))
    [] pc = "pass" ->
         tried + Cardinality(left) = Cardinality(WindowsOf(1 .. pass))
    [] pc \in {"end", "over"} /\ use.readable ->
         tried = Cardinality(WindowsOf(Passes))
    [] OTHER -> tried = 0

\* How far a search has come at each control point.
Progress ==
  /\ pc \in {"loop", "pass"} => use.readable
  /\ pc = "read" => pass = 1 /\ hits = <<>>
  /\ pc \in {"end", "over"} =>
       IF use.readable THEN pass = Len(Sizes) + 2 ELSE pass = 1 /\ hits = <<>>
  /\ pc # "over" => end = "none"
  /\ end = "1" => use.readable /\ hits = <<>>
  /\ end = "0" => use.readable /\ hits # <<>>

\* The inductive invariant.
KsInv ==
  /\ use \in Uses /\ KsTypeOK /\ Progress
  /\ HitsSound /\ HitsComplete /\ FoundExact /\ CountExact

\* The hits as a list.
LEMMA HitsList ==
  ASSUME KsTypeOK
  PROVE  /\ Len(hits) \in Nat /\ DOMAIN hits = 1 .. Len(hits)
         /\ \A n \in DOMAIN hits :
              /\ hits[n] \in Passes \X Nat
              /\ hits[n][1] \in Passes /\ hits[n][2] \in Nat
              /\ hits[n] = <<hits[n][1], hits[n][2]>>
  BY DEF KsTypeOK

\* The invariant holds initially.
LEMMA KsInit ==
  Init => KsInv
<1> SUFFICES ASSUME Init PROVE KsInv
  OBVIOUS
<1>1. Len(Sizes) \in Nat
  BY SizeTypes
<1>2. KsTypeOK /\ Progress
  BY <1>1 DEF Init, KsTypeOK, Progress
<1>3. HitsSound /\ HitsComplete /\ FoundExact /\ CountExact
  BY DEF Init, HitsSound, HitsComplete, FoundExact, CountExact
<1> QED
  BY <1>2, <1>3 DEF KsInv, Init

\* Steps that move on without a pass: what the hits say stays true.
LEMMA HitsKept ==
  ASSUME KsInv, UNCHANGED <<use, hits>>, pass' = pass
  PROVE  HitsSound' /\ HitsComplete'
  BY DEF KsInv, HitsSound, HitsComplete, Before

\* Opening the dump.
LEMMA KsRead ==
  KsInv /\ Read => KsInv'
<1> SUFFICES ASSUME KsInv, Read PROVE KsInv'
  OBVIOUS
<1>1. KsTypeOK' /\ Progress'
  BY DEF KsInv, KsTypeOK, Progress, Read
<1>2. HitsSound' /\ HitsComplete'
  BY HitsKept DEF Read
<1>3. FoundExact'
  BY DEF Read, FoundExact
<1>4. CountExact'
  <2>1. tried' = 0 /\ pass' = 1 /\ use' = use
    BY DEF KsInv, CountExact, Progress, Read
  <2>2. Cardinality(WindowsOf(1 .. 1 - 1)') = 0
    <3>1. WindowsOf(1 .. 1 - 1)' = {}
      BY DEF WindowsOf
    <3> QED
      BY <3>1, FS_EmptySet
  <2>3. pc' = "loop" \/ (pc' = "end" /\ ~use'.readable)
    <3>1. use.readable \in BOOLEAN
      BY KeyScheduleAssumption DEF KsInv
    <3> QED
      BY <3>1 DEF Read
  <2> QED
    BY <2>1, <2>2, <2>3 DEF CountExact
<1> QED
  BY <1>1, <1>2, <1>3, <1>4 DEF KsInv, Read

\* A size that has no window is passed over.
LEMMA KsSkip ==
  KsInv /\ Skip => KsInv'
<1> SUFFICES ASSUME KsInv, Skip PROVE KsInv'
  OBVIOUS
<1>0. use \in Uses /\ pass \in Passes /\ pass \in Nat \ {0} /\ Len(Sizes) \in Nat
  BY SizeTypes DEF KsInv, Skip, Passes
<1>1. KsTypeOK' /\ Progress'
  BY <1>0 DEF KsInv, KsTypeOK, Progress, Skip, Passes
<1>2. HitsSound'
  <2>1. \A n \in DOMAIN hits : hits[n][1] \in Int
    BY HitsList DEF KsInv, Passes
  <2> QED
    BY <1>0, <2>1 DEF KsInv, Skip, HitsSound, Before
<1>3. HitsComplete'
  <2>1. \A p \in 1 .. pass' - 1 : p \in 1 .. pass - 1 \/ p = pass
    BY <1>0 DEF Skip
  <2> QED
    BY <2>1 DEF KsInv, Skip, HitsComplete
<1>4. FoundExact'
  BY DEF Skip, FoundExact
<1>5. CountExact'
  <2>1. Cardinality(Windows(use.dump, pass)) = 0
    BY FS_EmptySet DEF Skip
  <2>2. /\ Cardinality(WindowsOf(1 .. pass)) \in Nat
        /\ Cardinality(WindowsOf(1 .. pass - 1)) \in Nat
        /\ Cardinality(WindowsOf(1 .. pass)) =
             Cardinality(WindowsOf(1 .. pass - 1)) + Cardinality(Windows(use.dump, pass))
    BY <1>0, CountPass
  <2>3. tried = Cardinality(WindowsOf(1 .. pass))
    BY <2>1, <2>2 DEF KsInv, CountExact, Skip
  <2>4. WindowsOf(1 .. pass - 1)' = WindowsOf(1 .. pass)
    <3>1. pass' - 1 = pass
      BY <1>0 DEF Skip
    <3> QED
      BY <3>1 DEF WindowsOf, Skip
  <2> QED
    BY <2>3, <2>4 DEF CountExact, Skip
<1> QED
  BY <1>0, <1>1, <1>2, <1>3, <1>4, <1>5 DEF KsInv, Skip

\* A pass begins with all its windows.
LEMMA KsBeginPass ==
  KsInv /\ BeginPass => KsInv'
<1> SUFFICES ASSUME KsInv, BeginPass PROVE KsInv'
  OBVIOUS
<1>0. use \in Uses /\ pass \in Passes /\ pass \in Nat \ {0} /\ Len(Sizes) \in Nat
  BY SizeTypes DEF KsInv, BeginPass, Passes
<1>1. KsTypeOK' /\ Progress'
  <2>1. Windows(use.dump, pass) \subseteq 0 .. Len(use.dump) - 1
    BY <1>0, WindowsFinite
  <2> QED
    BY <1>0, <2>1 DEF KsInv, KsTypeOK, Progress, BeginPass
<1>2. HitsSound' /\ HitsComplete'
  BY HitsKept DEF BeginPass
<1>3. FoundExact'
  BY DEF BeginPass, FoundExact
<1>4. CountExact'
  <2>1. /\ Cardinality(WindowsOf(1 .. pass)) =
             Cardinality(WindowsOf(1 .. pass - 1)) + Cardinality(Windows(use.dump, pass))
    BY <1>0, CountPass
  <2>2. tried = Cardinality(WindowsOf(1 .. pass - 1))
    BY DEF KsInv, CountExact, BeginPass
  <2>3. WindowsOf(1 .. pass)' = WindowsOf(1 .. pass)
    BY DEF WindowsOf, BeginPass
  <2> QED
    BY <2>1, <2>2, <2>3 DEF CountExact, BeginPass
<1> QED
  BY <1>0, <1>1, <1>2, <1>3, <1>4 DEF KsInv, BeginPass

\* A thread tries a window: it is counted, and a head is found.
LEMMA KsTryWindow ==
  ASSUME KsInv, NEW o \in left, TryWindow(o)
  PROVE  KsInv'
<1>0. /\ use \in Uses /\ pass \in Passes /\ pass \in Nat \ {0} /\ Len(Sizes) \in Nat
      /\ left \subseteq Windows(use.dump, pass)
  BY SizeTypes DEF KsInv, TryWindow, Passes, KsTypeOK, FoundExact
<1>1. KsTypeOK' /\ Progress'
  BY DEF KsInv, KsTypeOK, Progress, TryWindow
<1>2. HitsSound' /\ HitsComplete'
  BY HitsKept DEF TryWindow
<1>3. FoundExact'
  BY <1>0 DEF KsInv, TryWindow, FoundExact
<1>4. CountExact'
  <2>1. IsFiniteSet(left)
    BY <1>0, WindowsFinite, FS_Subset
  <2>2. Cardinality(left) \in Nat /\ Cardinality(left \ {o}) = Cardinality(left) - 1
    BY <2>1, FS_CardinalityType, FS_RemoveElement
  <2>3. tried \in Nat /\ tried + Cardinality(left) = Cardinality(WindowsOf(1 .. pass))
    BY DEF KsInv, KsTypeOK, CountExact, TryWindow
  <2>4. tried' + Cardinality(left') = tried + Cardinality(left)
    BY <2>2, <2>3 DEF TryWindow
  <2>5. WindowsOf(1 .. pass)' = WindowsOf(1 .. pass)
    BY DEF WindowsOf, TryWindow
  <2> QED
    BY <2>3, <2>4, <2>5 DEF CountExact, TryWindow
<1> QED
  BY <1>0, <1>1, <1>2, <1>3, <1>4 DEF KsInv, TryWindow

\* The end of a pass: its hits, in the order of the dump, go behind those of
\* the passes before.
LEMMA KsCollect ==
  KsInv /\ Collect => KsInv'
<1> SUFFICES ASSUME KsInv, Collect PROVE KsInv'
  OBVIOUS
<1> DEFINE K == Cardinality(found)
           L == InOrder(found)
           News == [n \in 1 .. K |-> <<pass, L[n]>>]
           W == Windows(use.dump, pass)
<1>0. /\ use \in Uses /\ pass \in Passes /\ pass \in Nat \ {0} /\ Len(Sizes) \in Nat
      /\ Passes = 1 .. Len(Sizes) + 1
      /\ found = {o \in W : HeadValid(use.dump, pass, o)}
  BY SizeTypes DEF KsInv, Collect, Passes, KsTypeOK, FoundExact
<1>1. W \subseteq Nat /\ IsFiniteSet(W)
  BY <1>0, WindowsFinite
<1>2. found \subseteq W /\ found \subseteq Nat /\ IsFiniteSet(found)
  BY <1>0, <1>1, FS_Subset
<1>3. /\ K \in Nat /\ L \in [1 .. K -> found]
      /\ \A m, n \in 1 .. K : m < n => L[m] < L[n]
      /\ \A o \in found : \E n \in 1 .. K : L[n] = o
  BY <1>2, InOrderList
<1>4. /\ use' = use /\ left' = left /\ found' = found /\ tried' = tried
      /\ end' = end /\ pass' = pass + 1 /\ pc = "pass" /\ pc' = "loop"
      /\ left = {} /\ hits' = hits \o News
  BY DEF Collect
<1> HIDE DEF K, L
<1>5. /\ News \in Seq(Passes \X Nat) /\ Len(News) = K
      /\ \A n \in 1 .. K : News[n] = <<pass, L[n]>> /\ L[n] \in found /\ L[n] \in Nat
  <2>1. \A n \in 1 .. K : L[n] \in found /\ L[n] \in Nat
    BY <1>2, <1>3
  <2>2. \A n \in 1 .. K : <<pass, L[n]>> \in Passes \X Nat
    BY <2>1, <1>0
  <2> QED
    BY <2>1, <2>2, <1>3
<1>6. hits \in Seq(Passes \X Nat) /\ Len(hits) \in Nat /\ DOMAIN hits = 1 .. Len(hits)
  BY DEF KsInv, KsTypeOK
<1> HIDE DEF News
<1>7. /\ hits' \in Seq(Passes \X Nat)
      /\ DOMAIN hits' = 1 .. Len(hits) + K
      /\ \A n \in 1 .. Len(hits) : hits'[n] = hits[n]
      /\ \A n \in 1 .. K : hits'[Len(hits) + n] = <<pass, L[n]>>
  <2>1. hits' \in Seq(Passes \X Nat) /\ Len(hits') = Len(hits) + K
    BY <1>3, <1>4, <1>5, <1>6
  <2>2. \A n \in 1 .. Len(hits) : hits'[n] = hits[n]
    BY <1>3, <1>4, <1>5, <1>6
  <2>3. \A n \in 1 .. K : hits'[Len(hits) + n] = News[n]
    BY <1>3, <1>4, <1>5, <1>6
  <2> QED
    BY SMTT(30), <2>1, <2>2, <2>3, <1>5
\* A hit is an old one or a new one.
<1>8. \A n \in DOMAIN hits' :
        \/ n \in 1 .. Len(hits)
        \/ \E k \in 1 .. K : n = Len(hits) + k
  <2> TAKE n \in DOMAIN hits'
  <2>1. CASE n <= Len(hits)
    BY <2>1, <1>6, <1>7
  <2>2. CASE ~(n <= Len(hits))
    <3>1. n - Len(hits) \in 1 .. K /\ n = Len(hits) + (n - Len(hits))
      BY <2>2, <1>3, <1>6, <1>7
    <3> QED
      BY <3>1
  <2> QED
    BY <2>1, <2>2
<1>9. KsTypeOK' /\ Progress'
  BY <1>0, <1>4, <1>7 DEF KsInv, KsTypeOK, Progress
<1>10. HitsSound'
  <2>1. ASSUME NEW n \in DOMAIN hits'
        PROVE  /\ hits'[n][1] < pass'
               /\ hits'[n][2] \in Windows(use.dump, hits'[n][1])
               /\ HeadValid(use.dump, hits'[n][1], hits'[n][2])
    <3>1. CASE n \in 1 .. Len(hits)
      <4>1. hits'[n] = hits[n] /\ n \in DOMAIN hits
        BY <3>1, <1>6, <1>7
      <4>2. hits[n][1] \in Passes
        BY <4>1, HitsList DEF KsInv
      <4>3. hits[n][1] < pass + 1
        BY <4>1, <4>2, <1>0 DEF KsInv, HitsSound
      <4> QED
        BY <4>1, <4>3, <1>4 DEF KsInv, HitsSound
    <3>2. CASE \E k \in 1 .. K : n = Len(hits) + k
      <4>1. PICK k \in 1 .. K : n = Len(hits) + k
        BY <3>2
      <4>2. hits'[n] = <<pass, L[k]>> /\ L[k] \in found
        BY <4>1, <1>5, <1>7
      <4>3. L[k] \in W /\ HeadValid(use.dump, pass, L[k])
        BY <4>2, <1>0
      <4> QED
        BY <4>2, <4>3, <1>0, <1>4
    <3> QED
      BY <3>1, <3>2, <1>8
  <2>2. ASSUME NEW m \in DOMAIN hits', NEW n \in DOMAIN hits', m < n
        PROVE  Before(hits'[m], hits'[n])
    <3>1. CASE m \in 1 .. Len(hits) /\ n \in 1 .. Len(hits)
      BY <3>1, <2>2, <1>6, <1>7 DEF KsInv, HitsSound
    <3>2. CASE m \in 1 .. Len(hits) /\ \E k \in 1 .. K : n = Len(hits) + k
      <4>1. hits'[m] = hits[m] /\ hits[m][1] < pass
        BY <3>2, <1>6, <1>7 DEF KsInv, HitsSound
      <4>2. hits'[n][1] = pass
        BY <3>2, <1>7
      <4> QED
        BY <4>1, <4>2 DEF Before
    <3>3. CASE (\E k \in 1 .. K : m = Len(hits) + k) /\ n \in 1 .. Len(hits)
      BY <3>3, <2>2, <1>3, <1>6
    <3>4. CASE (\E k \in 1 .. K : m = Len(hits) + k) /\ (\E k \in 1 .. K : n = Len(hits) + k)
      <4>1. PICK j \in 1 .. K : m = Len(hits) + j
        BY <3>4
      <4>2. PICK k \in 1 .. K : n = Len(hits) + k
        BY <3>4
      <4>3. j < k
        BY <4>1, <4>2, <2>2, <1>3, <1>6
      <4>4. hits'[m] = <<pass, L[j]>> /\ hits'[n] = <<pass, L[k]>> /\ L[j] < L[k]
        BY <4>1, <4>2, <4>3, <1>3, <1>7
      <4> QED
        BY <4>4 DEF Before
    <3> QED
      BY <3>1, <3>2, <3>3, <3>4, <1>8
  <2> QED
    BY <2>1, <2>2, <1>4 DEF HitsSound, Before
<1>11. HitsComplete'
  <2> SUFFICES ASSUME NEW p \in 1 .. pass' - 1, NEW o \in Windows(use.dump, p),
                      HeadValid(use.dump, p, o)
               PROVE  \E n \in DOMAIN hits' : hits'[n] = <<p, o>>
    BY <1>4 DEF HitsComplete
  <2>1. CASE p \in 1 .. pass - 1
    <3>1. PICK n \in DOMAIN hits : hits[n] = <<p, o>>
      BY <2>1 DEF KsInv, HitsComplete
    <3>2. n \in DOMAIN hits' /\ hits'[n] = <<p, o>>
      BY <3>1, <1>3, <1>6, <1>7
    <3> QED
      BY <3>2
  <2>2. CASE p = pass
    <3>1. o \in found
      BY <2>2, <1>0
    <3>2. PICK n \in 1 .. K : L[n] = o
      BY <3>1, <1>3
    <3>3. Len(hits) + n \in DOMAIN hits' /\ hits'[Len(hits) + n] = <<p, o>>
      BY SMTT(30), <3>2, <2>2, <1>3, <1>6, <1>7
    <3> QED
      BY <3>3
  <2>3. p \in 1 .. pass - 1 \/ p = pass
    BY <1>0, <1>4
  <2> QED
    BY <2>1, <2>2, <2>3
<1>12. FoundExact'
  BY <1>4 DEF FoundExact
<1>13. CountExact'
  <2>1. Cardinality(left) = 0
    BY <1>4, FS_EmptySet
  <2>2. tried + Cardinality(left) = Cardinality(WindowsOf(1 .. pass)) /\ tried \in Nat
    BY <1>4 DEF KsInv, KsTypeOK, CountExact
  <2>3. WindowsOf(1 .. pass - 1)' = WindowsOf(1 .. pass)
    <3>1. pass' - 1 = pass
      BY <1>0, <1>4
    <3> QED
      BY <3>1, <1>4 DEF WindowsOf
  <2> QED
    BY <2>1, <2>2, <2>3, <1>4 DEF CountExact
<1> QED
  BY <1>0, <1>4, <1>9, <1>10, <1>11, <1>12, <1>13 DEF KsInv

\* The loop is over.
LEMMA KsReturn ==
  KsInv /\ Return => KsInv'
<1> SUFFICES ASSUME KsInv, Return PROVE KsInv'
  OBVIOUS
<1>0. Len(Sizes) \in Nat /\ pass = Len(Sizes) + 2
  BY SizeTypes DEF KsInv, KsTypeOK, Return, Passes
<1>1. KsTypeOK' /\ Progress'
  BY <1>0 DEF KsInv, KsTypeOK, Progress, Return
<1>2. HitsSound' /\ HitsComplete'
  BY HitsKept DEF Return
<1>3. FoundExact'
  BY DEF Return, FoundExact
<1>4. CountExact'
  <2>1. tried = Cardinality(WindowsOf(1 .. pass - 1)) /\ use.readable
    BY DEF KsInv, CountExact, Progress, Return
  <2>2. 1 .. pass - 1 = Passes
    BY <1>0 DEF Passes
  <2>3. WindowsOf(Passes)' = WindowsOf(Passes)
    BY DEF WindowsOf, Return, Passes
  <2> QED
    BY <2>1, <2>2, <2>3 DEF CountExact, Return
<1> QED
  BY <1>1, <1>2, <1>3, <1>4 DEF KsInv, Return

\* The caller ends with what the hits say.
LEMMA KsFinish ==
  KsInv /\ Finish => KsInv'
<1> SUFFICES ASSUME KsInv, Finish PROVE KsInv'
  OBVIOUS
<1>1. /\ end' \in {"0", "1", "2", "result", "isError"}
      /\ end' = "1" => use.readable /\ hits = <<>>
      /\ end' = "0" => use.readable /\ hits # <<>>
  <2>1. CASE ~use.readable
    BY <2>1 DEF Finish, Ends
  <2>2. CASE use.readable /\ use.by = "mcp"
    BY <2>2 DEF Finish, Ends
  <2>3. CASE use.readable /\ use.by = "cli" /\ hits = <<>>
    BY <2>3 DEF Finish, Ends
  <2>4. CASE use.readable /\ use.by = "cli" /\ hits # <<>>
    BY <2>4 DEF Finish, Ends
  <2>5. use.by \in {"cli", "mcp"}
    BY KeyScheduleAssumption DEF KsInv
  <2> QED
    BY <2>1, <2>2, <2>3, <2>4, <2>5
<1>2. KsTypeOK' /\ Progress'
  BY <1>1 DEF KsInv, KsTypeOK, Progress, Finish
<1>3. HitsSound' /\ HitsComplete'
  BY HitsKept DEF Finish
<1>4. FoundExact'
  BY DEF Finish, FoundExact
<1>5. CountExact'
  <2>1. WindowsOf(Passes)' = WindowsOf(Passes)
    BY DEF WindowsOf, Finish, Passes
  <2> QED
    BY <2>1 DEF KsInv, CountExact, Finish
<1> QED
  BY <1>2, <1>3, <1>4, <1>5 DEF KsInv, Finish

\* Every step keeps the invariant.
LEMMA KsNext ==
  KsInv /\ [Next]_vars => KsInv'
<1> SUFFICES ASSUME KsInv, [Next]_vars PROVE KsInv'
  OBVIOUS
<1>1. CASE Read
  BY <1>1, KsRead
<1>2. CASE Skip
  BY <1>2, KsSkip
<1>3. CASE BeginPass
  BY <1>3, KsBeginPass
<1>4. CASE Collect
  BY <1>4, KsCollect
<1>5. CASE Return
  BY <1>5, KsReturn
<1>6. CASE Finish
  BY <1>6, KsFinish
<1>7. CASE \E o \in left : TryWindow(o)
  BY <1>7, KsTryWindow
<1>8. CASE UNCHANGED vars
  <2>1. /\ use' = use /\ pc' = pc /\ pass' = pass /\ left' = left /\ found' = found
        /\ tried' = tried /\ hits' = hits /\ end' = end
    BY <1>8 DEF vars
  <2>2. KsTypeOK' /\ Progress' /\ FoundExact'
    BY <2>1 DEF KsInv, KsTypeOK, Progress, FoundExact
  <2>3. HitsSound' /\ HitsComplete'
    BY <2>1, HitsKept
  <2>4. CountExact'
    BY <2>1 DEF KsInv, CountExact, WindowsOf
  <2> QED
    BY <2>1, <2>2, <2>3, <2>4 DEF KsInv
<1> QED
  BY <1>1, <1>2, <1>3, <1>4, <1>5, <1>6, <1>7, <1>8 DEF Next, Over

\* A search that was read and is over has a hit for exactly the offsets of each
\* pass that it should report.
LEMMA HitsExact ==
  ASSUME KsInv, pass = Len(Sizes) + 2
  PROVE  \A p \in Passes, o \in Nat :
           Expected(p, o) <=> \E n \in DOMAIN hits : hits[n] = <<p, o>>
<1> TAKE p \in Passes, o \in Nat
<1>1. use \in Uses /\ Len(Sizes) \in Nat /\ p \in 1 .. pass - 1
  BY SizeTypes DEF KsInv, Passes
<1>2. Expected(p, o) <=> o \in Windows(use.dump, p) /\ HeadValid(use.dump, p, o)
  BY <1>1, ExpectedIsHead
<1>3. ASSUME NEW n \in DOMAIN hits, hits[n] = <<p, o>>
      PROVE  o \in Windows(use.dump, p) /\ HeadValid(use.dump, p, o)
  BY <1>3 DEF KsInv, HitsSound
<1>4. o \in Windows(use.dump, p) /\ HeadValid(use.dump, p, o)
      => \E n \in DOMAIN hits : hits[n] = <<p, o>>
  BY <1>1 DEF KsInv, HitsComplete
<1> QED
  BY <1>2, <1>3, <1>4

\* The invariant gives the properties.
LEMMA KsInvGives ==
  ASSUME KsInv
  PROVE  /\ KsTypeOK /\ ReportExact /\ KsTriedExact
         /\ LiveScheduleOnce /\ FillIsNoKey /\ EndTellsDump
<1>0. use \in Uses /\ KsTypeOK /\ Len(Sizes) \in Nat /\ Len(use.dump) \in Nat
  BY SizeTypes, KeyScheduleAssumption DEF KsInv
<1>1. ReportExact
  <2> SUFFICES ASSUME pc = "end", use.readable
               PROVE  /\ \A p \in Passes, o \in 0 .. Len(use.dump) :
                           Expected(p, o) <=> \E n \in DOMAIN hits : hits[n] = <<p, o>>
                      /\ \A m, n \in DOMAIN hits : m < n => Before(hits[m], hits[n])
    BY DEF ReportExact
  <2>1. pass = Len(Sizes) + 2
    BY DEF KsInv, Progress
  <2>2. \A p \in Passes, o \in Nat :
          Expected(p, o) <=> \E n \in DOMAIN hits : hits[n] = <<p, o>>
    BY <2>1, HitsExact
  <2>3. \A o \in 0 .. Len(use.dump) : o \in Nat
    BY <1>0
  <2> QED
    BY <2>2, <2>3 DEF KsInv, HitsSound
<1>2. KsTriedExact
  BY DEF KsInv, CountExact, KsTriedExact
<1>3. LiveScheduleOnce
  <2> SUFFICES ASSUME NEW p \in 1 .. Len(Sizes), NEW o \in 0 .. Len(use.dump),
                      NEW r \in 1 .. Len(Rcon) - 1,
                      HoldsSchedule(use.dump, o, Sizes[p], (r + 1) * Sizes[p] + 1),
                      NEW n \in DOMAIN hits,
                      hits[n] = <<p, o + r * Sizes[p] * WordLen>>
               PROVE  FALSE
    BY DEF LiveScheduleOnce
  <2>1. HeadValid(use.dump, p, o + r * Sizes[p] * WordLen)
    BY DEF KsInv, HitsSound
  <2>2. o \in Nat
    BY <1>0
  <2> QED
    BY <2>1, <2>2, <1>0, LaterRoundIsNoHead
<1>4. FillIsNoKey
  <2> SUFFICES ASSUME \A m, n \in DOMAIN use.dump : use.dump[m] = use.dump[n],
                      NEW n \in DOMAIN hits
               PROVE  IsSm4(hits[n][1])
    BY DEF FillIsNoKey
  <2>1. /\ hits[n][1] \in Passes
        /\ hits[n][2] \in Windows(use.dump, hits[n][1])
        /\ HeadValid(use.dump, hits[n][1], hits[n][2])
    BY <1>0, HitsList DEF KsInv, HitsSound
  <2>2. hits[n][1] \in 1 .. Len(Sizes) => ~HeadValid(use.dump, hits[n][1], hits[n][2])
    BY <1>0, <2>1, FillHasNoHead
  <2> QED
    BY <2>1, <2>2, WindowWords
<1>5. EndTellsDump
  <2>1. ASSUME end \in {"0", "1"}
        PROVE  use.readable /\ pass = Len(Sizes) + 2
    <3>1. pc = "over" /\ use.readable
      BY <2>1 DEF KsInv, Progress
    <3> QED
      BY <3>1 DEF KsInv, Progress
  <2>2. ASSUME end = "1"
        PROVE  use.readable /\ \A p \in Passes, o \in 0 .. Len(use.dump) : ~Expected(p, o)
    <3>1. hits = <<>>
      BY <2>2 DEF KsInv, Progress
    <3>2. \A p \in Passes, o \in Nat : ~Expected(p, o)
      BY <2>1, <2>2, <3>1, HitsExact
    <3> QED
      BY <2>1, <2>2, <3>2, <1>0
  <2>3. ASSUME end = "0"
        PROVE  \E p \in Passes, o \in 0 .. Len(use.dump) : Expected(p, o)
    <3>1. hits # <<>>
      BY <2>3 DEF KsInv, Progress
    <3>2. 1 \in DOMAIN hits
      BY <3>1 DEF KsInv, KsTypeOK
    <3>3. /\ hits[1][1] \in Passes /\ hits[1][2] \in Nat
          /\ hits[1] = <<hits[1][1], hits[1][2]>>
      BY <3>2, <1>0, HitsList
    <3>4. Expected(hits[1][1], hits[1][2])
      BY <2>1, <2>3, <3>2, <3>3, HitsExact
    <3>5. hits[1][2] \in 0 .. Len(use.dump)
      <4>1. hits[1][2] \in Windows(use.dump, hits[1][1])
        BY <3>2 DEF KsInv, HitsSound
      <4> QED
        BY <4>1, <1>0 DEF Windows
    <3> QED
      BY <3>3, <3>4, <3>5
  <2> QED
    BY <2>2, <2>3 DEF EndTellsDump
<1> QED
  BY <1>0, <1>1, <1>2, <1>3, <1>4, <1>5

-----------------------------------------------------------------------------
(* The theorems. *)

\* The invariant, in every behaviour.
THEOREM KsInvariant ==
  Spec => []KsInv
  BY KsInit, KsNext, PTL DEF Spec

\* Every variable has its type.
THEOREM KsTypeCorrect ==
  Spec => []KsTypeOK
<1>1. KsInv => KsTypeOK
  BY KsInvGives
<1> QED
  BY <1>1, KsInvariant, PTL

\* The report is the heads of schedules in the dump, each once and in order,
\* whatever the threads do: scan_key_schedules and its callers.
THEOREM ReportExactAlways ==
  Spec => []ReportExact
<1>1. KsInv => ReportExact
  BY KsInvGives
<1> QED
  BY <1>1, KsInvariant, PTL

\* The shared counter counts every window of every size once.
THEOREM KsTriedExactAlways ==
  Spec => []KsTriedExact
<1>1. KsInv => KsTriedExact
  BY KsInvGives
<1> QED
  BY <1>1, KsInvariant, PTL

\* No later round of a live schedule is reported as a key, however many rounds
\* of it the dump holds.
THEOREM LiveScheduleOnceAlways ==
  Spec => []LiveScheduleOnce
<1>1. KsInv => LiveScheduleOnce
  BY KsInvGives
<1> QED
  BY <1>1, KsInvariant, PTL

\* Memory filled with one byte holds no AES key.
THEOREM FillIsNoKeyAlways ==
  Spec => []FillIsNoKey
<1>1. KsInv => FillIsNoKey
  BY KsInvGives
<1> QED
  BY <1>1, KsInvariant, PTL

\* The exit code of the command tells what the dump holds.
THEOREM EndTellsDumpAlways ==
  Spec => []EndTellsDump
<1>1. KsInv => EndTellsDump
  BY KsInvGives
<1> QED
  BY <1>1, KsInvariant, PTL
=============================================================================
