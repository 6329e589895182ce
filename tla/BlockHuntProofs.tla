--------------------------- MODULE BlockHuntProofs ---------------------------
(***************************************************************************)
(* What holds of the decision on a window for every ciphertext, dump, list *)
(* of oracles and block length: the algebra of CBC and of the paddings,    *)
(* the order of the IV candidates, and the invariant BhInv of BlockHunt.   *)
(* The oracles are never opened: any Verify will do.                       *)
(***************************************************************************)
EXTENDS BlockHunt, CommonLemmas, SequenceTheorems, TLAPS

-----------------------------------------------------------------------------
(* Bytes. *)

\* A whole number of blocks, not zero, is at least a block.
LEMMA WholeBlocks ==
  ASSUME NEW a \in Nat \ {0}, NEW b \in Nat \ {0}, a % b = 0
  PROVE  b <= a
<1> DEFINE q == a \div b
<1>1. q \in Nat /\ a = q * b + (a % b)
  BY DivMod
<1> HIDE DEF q
<1>2. a = q * b
  BY <1>1
<1>3. 0 < q
  BY <1>1, <1>2
<1>4. 0 * b + b <= q * b
  <2>1. 0 \in Nat /\ q \in Nat /\ b \in Nat /\ 0 < q
    BY <1>1, <1>3
  <2> QED
    BY <2>1, TimesGap
<1> QED
  BY <1>2, <1>4

\* What BlockHuntAssumption says of a trial.
LEMMA TrialFacts ==
  ASSUME NEW t \in Trials
  PROVE  /\ t.ct \in Seq(Byte) /\ t.dec \in Seq(Byte) /\ t.dump \in Seq(Byte)
         /\ t.fixedIv \in Seq(Byte) /\ t.message \in Seq(Byte) /\ t.iv \in Seq(Byte)
         /\ t.oracles \in Seq(OracleSet)
         /\ t.block \in Nat /\ 1 <= t.block /\ t.block <= 255
         /\ Len(t.dec) = Len(t.ct) /\ t.block <= Len(t.ct)
         /\ t.fixedIv # NoIv => Len(t.fixedIv) = t.block
         /\ t.mode \in {"ecb", "cbc", "none"} /\ t.padding \in {"pkcs7", "zero", "none"}
         /\ t.mode = "cbc" => Len(t.iv) = t.block
         /\ Encrypts(t)
<1>1. /\ {t.ct, t.dec, t.dump, t.fixedIv, t.message, t.iv} \subseteq Seq(Byte)
      /\ t.oracles \in Seq(OracleSet)
      /\ t.block \in 1 .. 255 /\ t.ct # <<>>
      /\ Len(t.ct) = Len(t.dec) /\ Len(t.ct) % t.block = 0
      /\ t.fixedIv # NoIv => Len(t.fixedIv) = t.block
      /\ t.mode \in {"ecb", "cbc", "none"} /\ t.padding \in {"pkcs7", "zero", "none"}
      /\ t.mode = "cbc" => Len(t.iv) = t.block
      /\ Encrypts(t)
  BY Zenon, BlockHuntAssumption
<1>2. /\ t.ct \in Seq(Byte) /\ t.dec \in Seq(Byte) /\ t.dump \in Seq(Byte)
      /\ t.fixedIv \in Seq(Byte) /\ t.message \in Seq(Byte) /\ t.iv \in Seq(Byte)
  BY Zenon, <1>1
<1>3. /\ t.ct # <<>> /\ t.block \in 1 .. 255
      /\ Len(t.ct) % t.block = 0 /\ Len(t.ct) = Len(t.dec)
  BY Zenon, <1>1
<1>4. Len(t.ct) \in Nat \ {0}
  BY <1>2, <1>3
<1>5. t.block \in Nat \ {0} /\ 1 <= t.block /\ t.block <= 255
  <2>1. t.block \in 1 .. 255
    BY Zenon, <1>3
  <2> QED
    BY <2>1
<1>6. t.block <= Len(t.ct)
  BY <1>3, <1>4, <1>5, WholeBlocks
<1>7. t.block \in Nat /\ Len(t.dec) = Len(t.ct)
  BY <1>3, <1>5
<1> QED
  BY Zenon, <1>1, <1>2, <1>5, <1>6, <1>7

\* The exclusive or of bytes undoes itself.
LEMMA XorBack ==
  ASSUME NEW a \in Byte, NEW b \in Byte
  PROVE  Xor(a, b) \in Byte /\ Xor(Xor(a, b), b) = a
BY BlockHuntAssumption

\* A sequence given by its elements.
LEMMA BytesOf ==
  ASSUME NEW n \in Nat, NEW f, f = [k \in 1 .. n |-> f[k]],
         \A k \in 1 .. n : f[k] \in Byte
  PROVE  f \in Seq(Byte) /\ Len(f) = n
<1>1. f \in [1 .. n -> Byte]
  OBVIOUS
<1> QED
  BY <1>1

\* The first bytes of a sequence.
LEMMA TakeFacts ==
  ASSUME NEW S, NEW s \in Seq(S), NEW n \in Nat
  PROVE  /\ Take(s, n) \in Seq(S)
         /\ Len(Take(s, n)) = IF n < Len(s) THEN n ELSE Len(s)
         /\ \A k \in 1 .. Len(Take(s, n)) : Take(s, n)[k] = s[k]
BY DEF Take

\* All the bytes are the sequence.
LEMMA TakeAll ==
  ASSUME NEW S, NEW s \in Seq(S), NEW n \in Nat, Len(s) <= n
  PROVE  Take(s, n) = s
<1>1. Take(s, n) = SubSeq(s, 1, Len(s))
  BY DEF Take
<1> QED
  BY <1>1

\* One byte many times.
LEMMA TimesFacts ==
  ASSUME NEW b \in Byte, NEW n \in Nat
  PROVE  /\ Times(b, n) \in Seq(Byte) /\ Len(Times(b, n)) = n
         /\ \A k \in 1 .. n : Times(b, n)[k] = b
BY DEF Times

\* Two sequences with the same elements are the same.
LEMMA SameSeq ==
  ASSUME NEW S, NEW s \in Seq(S), NEW u \in Seq(S), Len(s) = Len(u),
         \A k \in 1 .. Len(s) : s[k] = u[k]
  PROVE  s = u
OBVIOUS

\* Two sequences, one behind the other.
LEMMA CatFacts ==
  ASSUME NEW S, NEW s \in Seq(S), NEW u \in Seq(S)
  PROVE  /\ s \o u \in Seq(S) /\ Len(s \o u) = Len(s) + Len(u)
         /\ \A k \in 1 .. Len(s) : (s \o u)[k] = s[k]
         /\ \A k \in 1 .. Len(u) : (s \o u)[Len(s) + k] = u[k]
<1>1. Len(s) \in Nat /\ Len(u) \in Nat
  OBVIOUS
<1>2. s \o u \in Seq(S) /\ Len(s \o u) = Len(s) + Len(u)
  OBVIOUS
<1>3. \A k \in 1 .. Len(s) + Len(u) :
        (s \o u)[k] = IF k <= Len(s) THEN s[k] ELSE u[k - Len(s)]
  OBVIOUS
<1>4. ASSUME NEW k \in 1 .. Len(u) PROVE (s \o u)[Len(s) + k] = u[k]
  <2>1. Len(s) + k \in 1 .. Len(s) + Len(u) /\ ~(Len(s) + k <= Len(s))
    BY <1>1
  <2>2. (Len(s) + k) - Len(s) = k
    BY <1>1
  <2> QED
    BY <1>3, <2>1, <2>2
<1>5. ASSUME NEW k \in 1 .. Len(s) PROVE (s \o u)[k] = s[k]
  <2>1. k \in 1 .. Len(s) + Len(u) /\ k <= Len(s)
    BY <1>1
  <2> QED
    BY <1>3, <2>1
<1> QED
  BY <1>2, <1>4, <1>5

\* A sequence without its first elements.
LEMMA DropFacts ==
  ASSUME NEW S, NEW s \in Seq(S), NEW n \in Nat, n <= Len(s)
  PROVE  /\ SubSeq(s, n + 1, Len(s)) \in Seq(S)
         /\ Len(SubSeq(s, n + 1, Len(s))) = Len(s) - n
         /\ \A k \in 1 .. Len(s) - n : SubSeq(s, n + 1, Len(s))[k] = s[n + k]
<1> DEFINE u == SubSeq(s, n + 1, Len(s))
           m == Len(s)
<1>1. u \in Seq(S)
  <2>1. \A i \in n + 1 .. m : s[i] \in S
    OBVIOUS
  <2> QED
    BY <2>1, SubSeqProperties
<1>2. Len(u) = m - n /\ \A k \in 1 .. m - n : u[k] = s[(n + 1) + k - 1]
  BY SubSeqProperties
<1>3. \A k \in 1 .. m - n : (n + 1) + k - 1 = n + k
  OBVIOUS
<1> QED
  BY <1>1, <1>2, <1>3

-----------------------------------------------------------------------------
(* The readings. *)

\* Block 0 under an IV.
LEMMA Block0Facts ==
  ASSUME NEW t \in Trials, NEW i \in Seq(Byte), Len(i) = t.block
  PROVE  /\ Block0(t, i) \in Seq(Byte) /\ Len(Block0(t, i)) = t.block
         /\ \A k \in 1 .. t.block : Block0(t, i)[k] = Xor(t.dec[k], i[k])
<1> DEFINE d == Take(t.dec, t.block)
<1>1. /\ t.dec \in Seq(Byte) /\ t.block \in Nat /\ t.block <= Len(t.dec)
  BY TrialFacts
<1>2. d \in Seq(Byte) /\ Len(d) = t.block /\ \A k \in 1 .. t.block : d[k] = t.dec[k]
  <2>1. /\ d \in Seq(Byte)
        /\ Len(d) = IF t.block < Len(t.dec) THEN t.block ELSE Len(t.dec)
        /\ \A k \in 1 .. Len(d) : d[k] = t.dec[k]
    BY <1>1, TakeFacts
  <2> HIDE DEF d
  <2> QED
    BY <1>1, <2>1
<1> HIDE DEF d
<1>3. Block0(t, i) = [k \in 1 .. t.block |-> Xor(d[k], i[k])]
  <2>1. DOMAIN d = 1 .. t.block
    BY <1>2
  <2>2. Block0(t, i) = [k \in DOMAIN d |-> Xor(d[k], i[k])]
    BY DEF d, Block0, XorSeq
  <2> QED
    BY <2>1, <2>2
<1>4. \A k \in 1 .. t.block : d[k] \in Byte /\ i[k] \in Byte
  BY <1>1, <1>2
<1>5. \A k \in 1 .. t.block : Xor(d[k], i[k]) \in Byte
  BY <1>4, XorBack
<1>6. \A k \in 1 .. t.block : Block0(t, i)[k] = Xor(t.dec[k], i[k])
  BY <1>2, <1>3
<1>7. Block0(t, i) \in [1 .. t.block -> Byte]
  BY <1>3, <1>5
<1> QED
  BY <1>1, <1>6, <1>7

\* The blocks of CBC after the first.
LEMMA CbcTailFacts ==
  ASSUME NEW t \in Trials
  PROVE  /\ CbcTail(t) \in Seq(Byte) /\ Len(CbcTail(t)) = Len(t.ct) - t.block
         /\ \A k \in 1 .. Len(t.ct) - t.block :
              CbcTail(t)[k] = Xor(t.dec[t.block + k], t.ct[k])
<1>1. /\ t.dec \in Seq(Byte) /\ t.ct \in Seq(Byte) /\ Len(t.dec) = Len(t.ct)
      /\ t.block \in Nat /\ t.block <= Len(t.ct)
  BY TrialFacts
<1>2. \A k \in 1 .. Len(t.ct) - t.block :
        t.dec[t.block + k] \in Byte /\ t.ct[k] \in Byte
  BY <1>1
<1>3. \A k \in 1 .. Len(t.ct) - t.block : Xor(t.dec[t.block + k], t.ct[k]) \in Byte
  BY <1>2, XorBack
<1>4. /\ CbcTail(t) \in [1 .. Len(t.ct) - t.block -> Byte]
      /\ \A k \in 1 .. Len(t.ct) - t.block :
              CbcTail(t)[k] = Xor(t.dec[t.block + k], t.ct[k])
  BY <1>3 DEF CbcTail
<1>5. Len(t.ct) - t.block \in Nat
  BY <1>1
<1> QED
  BY <1>4, <1>5

\* The question marks.
LEMMA UnknownFacts ==
  ASSUME NEW t \in Trials
  PROVE  Unknown(t) \in Seq(Byte) /\ Len(Unknown(t)) = t.block
<1>1. t.block \in Nat /\ 63 \in Byte
  BY TrialFacts DEF Byte
<1> QED
  BY <1>1, TimesFacts DEF Unknown

\* The IV at a window of the dump.
LEMMA IvAtFacts ==
  ASSUME NEW t \in Trials, NEW o \in Windows(t)
  PROVE  IvAt(t, o) \in Seq(Byte) /\ Len(IvAt(t, o)) = t.block
<1>1. t.dump \in Seq(Byte) /\ t.block \in Nat /\ 1 <= t.block
  BY TrialFacts
<1>2. o \in Nat /\ o + t.block <= Len(t.dump)
  BY <1>1 DEF Windows
<1> QED
  BY <1>1, <1>2 DEF IvAt

-----------------------------------------------------------------------------
(* The message under its key. *)

\* What is added to the message, by each padding.
LEMMA PaddedFacts ==
  ASSUME NEW t \in Trials
  PROVE  \E n \in Nat, b \in Byte :
           /\ Padded(t) = t.message \o Times(b, n)
           /\ t.padding = "pkcs7" => n = b /\ n \in 1 .. t.block
           /\ t.padding # "pkcs7" => b = 0
<1> DEFINE r == Len(t.message) % t.block
<1>1. /\ t.message \in Seq(Byte) /\ t.block \in Nat \ {0} /\ t.block <= 255
      /\ t.padding \in {"pkcs7", "zero", "none"}
  BY TrialFacts
<1>2. r \in Nat /\ r < t.block
  <2>1. Len(t.message) \in Nat
    BY <1>1
  <2>2. r \in 0 .. t.block - 1
    BY <1>1, <2>1, DivMod
  <2> HIDE DEF r
  <2> QED
    BY <1>1, <2>2
<1> DEFINE m == t.block - r
<1>3. Padded(t) = t.message \o CASE t.padding = "pkcs7" -> Times(m, m)
                                 [] t.padding = "zero"  -> Times(0, m % t.block)
                                 [] t.padding = "none"  -> <<>>
  BY DEF Padded
<1> HIDE DEF r
<1>4. m \in 1 .. t.block /\ m \in Byte
  <2>1. m \in Int /\ 1 <= m /\ m <= t.block /\ m <= 255
    BY <1>1, <1>2
  <2> HIDE DEF m
  <2> QED
    BY <1>1, <2>1 DEF Byte
<1>5. m % t.block \in Nat
  BY <1>1, <1>4
<1>6. 0 \in Byte /\ Times(0, 0) = <<>>
  <2>1. Times(0, 0) = [k \in 1 .. 0 |-> 0]
    BY DEF Times
  <2>2. Times(0, 0) \in [1 .. 0 -> {0}]
    BY <2>1
  <2>3. Times(0, 0) \in Seq({0}) /\ Len(Times(0, 0)) = 0
    BY <2>2
  <2> QED
    BY <2>3 DEF Byte
<1> HIDE DEF m
<1>7. CASE t.padding = "pkcs7"
  <2>1. Padded(t) = t.message \o Times(m, m)
    BY <1>3, <1>7
  <2> QED
    BY <1>4, <1>7, <2>1
<1>8. CASE t.padding = "zero"
  <2>1. Padded(t) = t.message \o Times(0, m % t.block)
    BY <1>3, <1>8
  <2> QED
    BY <1>5, <1>6, <1>8, <2>1
<1>9. CASE t.padding = "none"
  <2>1. Padded(t) = t.message \o Times(0, 0)
    BY <1>3, <1>6, <1>9
  <2>2. 0 \in Nat
    OBVIOUS
  <2> QED
    BY <1>6, <1>9, <2>1, <2>2
<1> QED
  BY <1>1, <1>7, <1>8, <1>9

\* It is a text of bytes.
LEMMA PaddedType ==
  ASSUME NEW t \in Trials
  PROVE  Padded(t) \in Seq(Byte)
<1>1. PICK n \in Nat, b \in Byte : Padded(t) = t.message \o Times(b, n)
  BY PaddedFacts
<1>2. Times(b, n) \in Seq(Byte) /\ t.message \in Seq(Byte)
  BY TimesFacts, TrialFacts
<1> QED
  BY <1>1, <1>2

\* The message is the padded text but for its end.
LEMMA PaddedElements ==
  ASSUME NEW t \in Trials
  PROVE  \E n \in Nat, b \in Byte :
           /\ Len(Padded(t)) = Len(t.message) + n
           /\ \A k \in 1 .. Len(t.message) : Padded(t)[k] = t.message[k]
           /\ \A k \in Len(t.message) + 1 .. Len(Padded(t)) : Padded(t)[k] = b
           /\ t.padding = "pkcs7" => n = b /\ n \in 1 .. t.block
           /\ t.padding # "pkcs7" => b = 0
<1>1. PICK n \in Nat, b \in Byte :
        /\ Padded(t) = t.message \o Times(b, n)
        /\ t.padding = "pkcs7" => n = b /\ n \in 1 .. t.block
        /\ t.padding # "pkcs7" => b = 0
  BY PaddedFacts
<1> DEFINE u == Times(b, n)
           m == t.message
           p == Padded(t)
<1>2. u \in Seq(Byte) /\ Len(u) = n /\ \A k \in 1 .. n : u[k] = b
  BY TimesFacts
<1>3. m \in Seq(Byte) /\ p = m \o u
  BY <1>1, TrialFacts
<1> HIDE DEF u, m, p
<1>4. /\ Len(p) = Len(m) + n /\ \A k \in 1 .. Len(m) : p[k] = m[k]
      /\ \A j \in 1 .. n : p[Len(m) + j] = u[j]
  <2>1. m \in Seq(Byte) /\ u \in Seq(Byte)
    BY <1>2, <1>3
  <2>2. /\ Len(m \o u) = Len(m) + Len(u)
        /\ \A k \in 1 .. Len(m) : (m \o u)[k] = m[k]
        /\ \A k \in 1 .. Len(u) : (m \o u)[Len(m) + k] = u[k]
    BY <2>1, CatFacts
  <2> QED
    BY <1>2, <1>3, <2>2
<1>5. \A k \in Len(m) + 1 .. Len(p) : p[k] = b
  <2> SUFFICES ASSUME NEW k \in Len(m) + 1 .. Len(p) PROVE p[k] = b
    OBVIOUS
  <2>1. k - Len(m) \in 1 .. n /\ Len(m) + (k - Len(m)) = k
    BY <1>3, <1>4
  <2> QED
    BY <1>2, <1>4, <2>1
<1> QED
  BY <1>1, <1>4, <1>5 DEF m, p

\* In ECB the decrypted blocks are the padded message.
LEMMA EcbPlain ==
  ASSUME NEW t \in Trials, t.mode = "ecb"
  PROVE  t.dec = Padded(t)
<1>1. Encrypts(t)
  BY TrialFacts
<1> QED
  BY <1>1 DEF Encrypts

\* In CBC the padded message is xored with the IV and the ciphertext.
LEMMA CbcPlain ==
  ASSUME NEW t \in Trials, t.mode = "cbc"
  PROVE  /\ Len(Padded(t)) = Len(t.ct)
         /\ \A k \in 1 .. Len(t.ct) : t.dec[k] = Xor(Padded(t)[k], (t.iv \o t.ct)[k])
<1> DEFINE p == Padded(t)
<1>1. Encrypts(t) /\ t.dec \in Seq(Byte) /\ Len(t.dec) = Len(t.ct)
  BY TrialFacts
<1>2. t.dec = [k \in DOMAIN p |-> Xor(p[k], (t.iv \o t.ct)[k])]
  BY <1>1 DEF Encrypts, XorSeq
<1>3. p \in Seq(Byte)
  BY PaddedType
<1> HIDE DEF p
<1>4. DOMAIN t.dec = DOMAIN p
  BY <1>2
<1>5. Len(p) = Len(t.dec) /\ DOMAIN p = 1 .. Len(t.dec)
  BY <1>1, <1>3, <1>4
<1> QED
  BY <1>1, <1>2, <1>5 DEF p

\* The ciphertext behind the IV.
LEMMA CbcChain ==
  ASSUME NEW t \in Trials
  PROVE  /\ \A n \in 1 .. Len(t.iv) : (t.iv \o t.ct)[n] = t.iv[n]
         /\ \A n \in 1 .. Len(t.ct) : (t.iv \o t.ct)[Len(t.iv) + n] = t.ct[n]
<1> DEFINE s == t.iv
           u == t.ct
<1>1. s \in Seq(Byte) /\ u \in Seq(Byte)
  BY TrialFacts
<1> HIDE DEF s, u
<1>2. /\ \A n \in 1 .. Len(s) : (s \o u)[n] = s[n]
      /\ \A n \in 1 .. Len(u) : (s \o u)[Len(s) + n] = u[n]
  BY <1>1, CatFacts
<1> QED
  BY <1>2 DEF s, u

\* With the right IV, block 0 is the first of the message.
LEMMA CbcFirstBlock ==
  ASSUME NEW t \in Trials, t.mode = "cbc"
  PROVE  \A k \in 1 .. t.block : Block0(t, t.iv)[k] = Padded(t)[k]
<1> SUFFICES ASSUME NEW k \in 1 .. t.block
             PROVE  Block0(t, t.iv)[k] = Padded(t)[k]
  OBVIOUS
<1>1. /\ t.iv \in Seq(Byte) /\ Len(t.iv) = t.block /\ t.block \in Nat
      /\ t.block <= Len(t.ct) /\ t.ct \in Seq(Byte)
  BY TrialFacts
<1>2. Padded(t) \in Seq(Byte) /\ Len(Padded(t)) = Len(t.ct)
  BY CbcPlain, PaddedType
<1>3. k \in 1 .. Len(t.ct) /\ (t.iv \o t.ct)[k] = t.iv[k]
  <2>2. \A n \in 1 .. Len(t.iv) : (t.iv \o t.ct)[n] = t.iv[n]
    BY Zenon, CbcChain
  <2>3. k \in 1 .. Len(t.iv) /\ k \in 1 .. Len(t.ct)
    BY <1>1
  <2> QED
    BY <2>2, <2>3
<1>4. t.dec[k] = Xor(Padded(t)[k], t.iv[k])
  BY <1>3, CbcPlain
<1>5. Padded(t)[k] \in Byte /\ t.iv[k] \in Byte
  BY <1>1, <1>2, <1>3
<1>6. Xor(t.dec[k], t.iv[k]) = Padded(t)[k]
  BY <1>4, <1>5, XorBack
<1>7. Block0(t, t.iv)[k] = Xor(t.dec[k], t.iv[k])
  BY <1>1, Block0Facts
<1> QED
  BY <1>6, <1>7

\* The blocks after it need no IV.
LEMMA CbcOtherBlocks ==
  ASSUME NEW t \in Trials, t.mode = "cbc"
  PROVE  \A k \in 1 .. Len(t.ct) - t.block : CbcTail(t)[k] = Padded(t)[t.block + k]
<1> SUFFICES ASSUME NEW k \in 1 .. Len(t.ct) - t.block
             PROVE  CbcTail(t)[k] = Padded(t)[t.block + k]
  OBVIOUS
<1> DEFINE j == t.block + k
<1>1. /\ t.iv \in Seq(Byte) /\ Len(t.iv) = t.block /\ t.block \in Nat
      /\ t.block <= Len(t.ct) /\ t.ct \in Seq(Byte)
  BY TrialFacts
<1>2. Padded(t) \in Seq(Byte) /\ Len(Padded(t)) = Len(t.ct)
  BY CbcPlain, PaddedType
<1>3. j \in 1 .. Len(t.ct) /\ (t.iv \o t.ct)[j] = t.ct[k] /\ k \in 1 .. Len(t.ct)
  <2>1. \A n \in 1 .. Len(t.ct) : (t.iv \o t.ct)[Len(t.iv) + n] = t.ct[n]
    BY Zenon, CbcChain
  <2>2. j \in 1 .. Len(t.ct) /\ k \in 1 .. Len(t.ct) /\ j = Len(t.iv) + k
    BY <1>1
  <2> QED
    BY <2>1, <2>2
<1> HIDE DEF j
<1>4. t.dec[j] = Xor(Padded(t)[j], t.ct[k])
  BY <1>3, CbcPlain
<1>5. Padded(t)[j] \in Byte /\ t.ct[k] \in Byte
  BY <1>1, <1>2, <1>3
<1>6. Xor(t.dec[j], t.ct[k]) = Padded(t)[j]
  BY <1>4, <1>5, XorBack
<1>7. CbcTail(t)[k] = Xor(t.dec[j], t.ct[k])
  BY CbcTailFacts DEF j
<1> QED
  BY <1>6, <1>7 DEF j

\* The head the code verifies as CBC is that of the message, with more than
\* one block or with the IV.
LEMMA CbcHeadTrue ==
  ASSUME NEW t \in Trials, t.mode = "cbc"
  PROVE  /\ Len(t.ct) > t.block =>
              CbcTail(t) = SubSeq(Padded(t), t.block + 1, Len(Padded(t)))
         /\ Len(t.ct) = t.block => Block0(t, t.iv) = Padded(t)
<1> DEFINE p == Padded(t)
           s == SubSeq(p, t.block + 1, Len(p))
<1>1. /\ t.iv \in Seq(Byte) /\ Len(t.iv) = t.block /\ t.block \in Nat
      /\ t.block <= Len(t.ct) /\ t.ct \in Seq(Byte)
  BY TrialFacts
<1>2. p \in Seq(Byte) /\ Len(p) = Len(t.ct)
  BY CbcPlain, PaddedType
<1>3. ASSUME Len(t.ct) > t.block PROVE CbcTail(t) = s
  <2>1. CbcTail(t) \in Seq(Byte) /\ Len(CbcTail(t)) = Len(t.ct) - t.block
    BY CbcTailFacts
  <2>2. \A k \in 1 .. Len(t.ct) - t.block : CbcTail(t)[k] = p[t.block + k]
    BY CbcOtherBlocks
  <2> HIDE DEF p
  <2>3. /\ s \in Seq(Byte) /\ Len(s) = Len(t.ct) - t.block
        /\ \A k \in 1 .. Len(t.ct) - t.block : s[k] = p[t.block + k]
    <3>1. p \in Seq(Byte) /\ t.block \in Nat /\ t.block <= Len(p)
      BY <1>1, <1>2
    <3>2. /\ s \in Seq(Byte) /\ Len(s) = Len(p) - t.block
          /\ \A k \in 1 .. Len(p) - t.block : s[k] = p[t.block + k]
      BY <3>1, DropFacts
    <3> HIDE DEF s
    <3> QED
      BY <1>2, <3>2
  <2> HIDE DEF s
  <2>4. \A k \in 1 .. Len(CbcTail(t)) : CbcTail(t)[k] = s[k]
    BY <2>1, <2>2, <2>3
  <2> QED
    BY <2>1, <2>3, <2>4, SameSeq
<1>4. ASSUME Len(t.ct) = t.block PROVE Block0(t, t.iv) = p
  <2>1. Block0(t, t.iv) \in Seq(Byte) /\ Len(Block0(t, t.iv)) = t.block
    BY <1>1, Block0Facts
  <2>2. \A k \in 1 .. t.block : Block0(t, t.iv)[k] = p[k]
    BY CbcFirstBlock
  <2> HIDE DEF p
  <2> QED
    BY <1>2, <1>4, <2>1, <2>2, SameSeq
<1> QED
  BY <1>3, <1>4

-----------------------------------------------------------------------------
(* The oracle reported. *)

\* A nonempty set of places in a list has a last one.
LEMMA LastPlace ==
  ASSUME NEW n \in Nat, NEW T, T \subseteq 1 .. n, T # {}
  PROVE  \E m \in T : \A k \in T : k <= m
<1> DEFINE S == {n - m : m \in T}
<1>1. S \subseteq Nat /\ S # {}
  <2>1. \A m \in T : n - m \in Nat
    OBVIOUS
  <2> QED
    BY <2>1
<1> HIDE DEF S
<1>2. PICK d \in S : \A e \in S : d <= e
  BY <1>1, LeastNat
<1>3. PICK m \in T : d = n - m
  BY <1>2 DEF S
<1>4. \A k \in T : n - k \in S
  BY DEF S
<1>5. \A k \in T : n - m <= n - k
  BY <1>2, <1>3, <1>4
<1>6. \A k \in T : k \in Int /\ m \in Int
  BY <1>3
<1> QED
  BY <1>3, <1>5, <1>6

\* No oracle is called as no match is.
LEMMA OracleNames ==
  ASSUME NEW o \in OracleSet
  PROVE  o # NoMatch
BY DEF OracleSet, NoMatch

\* The ranks.
LEMMA RankType ==
  ASSUME NEW o
  PROVE  Rank(o) \in 1 .. 2
BY DEF Rank

\* best_match has an answer exactly when an oracle accepts, and it is one of
\* the list that does.
LEMMA BestMatchFacts ==
  ASSUME NEW os \in Seq(OracleSet), NEW h
  PROVE  /\ Accepts(os, h) => \E n \in DOMAIN os :
                                BestMatch(os, h) = os[n] /\ Verify(os[n], h)
         /\ Accepts(os, h) <=> BestMatch(os, h) # NoMatch
<1> DEFINE ok == {n \in DOMAIN os : Verify(os[n], h)}
           Beats(m, n) == \/ Rank(os[m]) > Rank(os[n])
                          \/ Rank(os[m]) = Rank(os[n]) /\ m > n
           Top(n) == \A m \in ok \ {n} : Beats(n, m)
<1>1. BestMatch(os, h) = IF ok = {} THEN NoMatch ELSE os[CHOOSE n \in ok : Top(n)]
  BY Zenon DEF BestMatch
<1>2. Accepts(os, h) <=> ok # {}
  BY Zenon DEF Accepts
<1>3. ok \subseteq 1 .. Len(os) /\ Len(os) \in Nat /\ ok \subseteq DOMAIN os
  OBVIOUS
<1>4. \A n \in ok : Verify(os[n], h) /\ os[n] \in OracleSet
  OBVIOUS
<1>5. \A n \in ok : Rank(os[n]) \in 1 .. 2
  BY Zenon, RankType
<1> HIDE DEF ok
<1>6. ASSUME ok # {} PROVE \E n \in ok : Top(n)
  <2> DEFINE high == {n \in ok : Rank(os[n]) = 2}
             T == IF high = {} THEN ok ELSE high
  <2>1. T \subseteq ok /\ T # {}
    BY <1>6
  <2>2. PICK n \in T : \A k \in T : k <= n
    <3> HIDE DEF T
    <3> QED
      BY <1>3, <2>1, LastPlace
  <2>3. n \in ok /\ n \in Nat
    BY <1>3, <2>1, <2>2
  <2>4. ASSUME NEW m \in ok \ {n} PROVE Beats(n, m)
    <3>1. m \in Nat /\ m # n
      BY <1>3
    <3>2. CASE m \in T
      <4>1. m < n
        BY <2>2, <2>3, <3>1, <3>2
      <4>2. Rank(os[n]) = Rank(os[m])
        BY <1>5, <2>2, <2>3, <3>2
      <4> QED
        BY <4>1, <4>2
    <3>3. CASE m \notin T
      <4>1. Rank(os[n]) = 2 /\ Rank(os[m]) # 2
        BY <2>2, <3>3
      <4> QED
        BY <1>5, <4>1
    <3> QED
      BY <3>2, <3>3
  <2> QED
    BY <2>3, <2>4
<1> HIDE DEF Top
<1>7. ASSUME ok # {}
      PROVE  \E n \in ok : BestMatch(os, h) = os[n]
  BY <1>1, <1>6, <1>7
<1>8. ASSUME ok # {} PROVE BestMatch(os, h) # NoMatch
  BY <1>4, <1>7, <1>8, OracleNames
<1> QED
  BY <1>1, <1>2, <1>3, <1>4, <1>7, <1>8

-----------------------------------------------------------------------------
(* The candidates. *)

\* The printable share of a text is a number of thousandths.
LEMMA PlausibilityType ==
  ASSUME NEW s \in Seq(Byte)
  PROVE  Plausibility(s) \in 0 .. 1000
<1> DEFINE p == Cardinality(Printable(s))
           c == Cardinality(Chars(s))
           q == (p * 1000) \div c
           A == Utf8Valid(s) /\ s # <<>>
           v == Plausibility(s)
<1>1. ASSUME A PROVE q \in 0 .. 1000
  <2>1. 1 \in DOMAIN s /\ DOMAIN s = 1 .. Len(s) /\ Len(s) \in Nat
    BY <1>1
  <2>2. s[1] \notin Continuation
    <3>1. s[1] \in Continuation => \E k \in 1 .. 3 : k < 1 /\ k <= Follow(s[1 - k])
      BY <1>1, <2>1 DEF Utf8Valid
    <3> QED
      BY <3>1
  <2>3. 1 \in Chars(s) /\ Chars(s) \subseteq 1 .. Len(s) /\ Printable(s) \subseteq Chars(s)
    BY <2>1, <2>2 DEF Chars, Printable
  <2>4. IsFiniteSet(1 .. Len(s))
    BY <2>1, FS_Interval
  <2>5. IsFiniteSet(Chars(s)) /\ Chars(s) # {}
    BY <2>3, <2>4, FS_Subset
  <2>6. IsFiniteSet(Printable(s)) /\ p <= c
    BY <2>3, <2>5, FS_Subset
  <2>7. p \in Nat /\ c \in Nat /\ c # 0
    BY <2>5, <2>6, FS_CardinalityType, FS_EmptySet
  <2> DEFINE x == p * 1000
             y == 1000 * c + 0
  <2>8. x <= y /\ x \in Nat /\ y \in Nat
    <3> HIDE DEF p, c
    <3> QED
      BY <2>6, <2>7
  <2>9. y \div c = 1000
    <3> HIDE DEF c
    <3>1. c \in Nat \ {0} /\ 1000 \in Nat /\ 0 \in 0 .. c - 1
      BY <2>7
    <3> QED
      BY <3>1, DivModUnique
  <2>10. q <= y \div c /\ q \in Nat
    <3> HIDE DEF c, x, y
    <3>1. c \in Nat \ {0}
      BY <2>7
    <3>2. x \div c <= y \div c
      BY <2>8, <3>1, DivMonotone
    <3>3. x \div c \in Nat
      BY <2>8, <3>1, DivMod
    <3>4. q = x \div c
      BY DEF x
    <3> HIDE DEF q
    <3> QED
      BY <3>2, <3>3, <3>4
  <2> HIDE DEF c, q, y
  <2> QED
    BY <2>9, <2>10
<1>2. v = IF A THEN q ELSE 0
  BY DEF Plausibility
<1> HIDE DEF A, q, v
<1>3. v \in 0 .. 1000
  BY <1>1, <1>2
<1> QED
  BY <1>3 DEF v

\* What a candidate is.
LEMMA CandidateFacts ==
  ASSUME NEW t \in Trials, NEW o \in Windows(t)
  PROVE  /\ Candidate(t, o) \in [offset : {o}, rank : 1 .. 2, plaus : 0 .. 1000]
         /\ FirstUnder(t, o) \in Seq(Byte) /\ Len(FirstUnder(t, o)) = t.block
<1>1. FirstUnder(t, o) \in Seq(Byte) /\ Len(FirstUnder(t, o)) = t.block
  BY IvAtFacts, Block0Facts DEF FirstUnder
<1>2. Plausibility(FirstUnder(t, o)) \in 0 .. 1000
  <2> DEFINE f == FirstUnder(t, o)
  <2>1. f \in Seq(Byte)
    BY <1>1
  <2> HIDE DEF f
  <2>2. Plausibility(f) \in 0 .. 1000
    BY ZenonT(40), <2>1, PlausibilityType
  <2> QED
    BY <2>2 DEF f
<1>3. Rank(BestMatch(t.oracles, SeenUnder(t, o))) \in 1 .. 2
  BY RankType
<1> QED
  BY <1>1, <1>2, <1>3 DEF Candidate

\* The candidates among the windows W.
Hits(t, W) ==
  {Candidate(t, o) : o \in {p \in W : Accepts(t.oracles, SeenUnder(t, p))}}

\* They are finitely many, and Better orders them.
LEMMA HitsFacts ==
  ASSUME NEW t \in Trials, NEW W \in SUBSET Windows(t)
  PROVE  /\ IsFiniteSet(Hits(t, W))
         /\ Hits(t, W) \subseteq [offset : W, rank : 1 .. 2, plaus : 0 .. 1000]
         /\ \A c, d \in Hits(t, W) : c.offset = d.offset => c = d
<1> DEFINE A == {p \in W : Accepts(t.oracles, SeenUnder(t, p))}
<1>1. Windows(t) \subseteq Int /\ IsFiniteSet(Windows(t))
  <2>1. 0 \in Int /\ Len(t.dump) - t.block \in Int
    BY TrialFacts
  <2>2. IsFiniteSet(0 .. Len(t.dump) - t.block)
    BY <2>1, FS_Interval
  <2> QED
    BY <2>2 DEF Windows
<1>2. IsFiniteSet(A) /\ A \subseteq W /\ A \subseteq Windows(t)
  BY <1>1, FS_Subset
<1> HIDE DEF A
<1>3. Hits(t, W) = {Candidate(t, o) : o \in A}
  BY Zenon DEF Hits, A
<1>4. IsFiniteSet(Hits(t, W))
  <2> DEFINE f == [o \in A |-> Candidate(t, o)]
             H == {Candidate(t, o) : o \in A}
  <2>1. f \in [A -> H] /\ \A h \in H : \E o \in A : f[o] = h
    OBVIOUS
  <2>2. f \in Surjection(A, H)
    <3> HIDE DEF f, H
    <3> QED
      BY <2>1 DEF Surjection
  <2> HIDE DEF f, H
  <2>3. IsFiniteSet(H)
    BY <1>2, <2>2, FS_Surjection
  <2> QED
    BY <1>3, <2>3 DEF H
<1>5. \A o \in A : Candidate(t, o) \in [offset : {o}, rank : 1 .. 2, plaus : 0 .. 1000]
  BY <1>2, CandidateFacts
<1>6. \A o \in A : Candidate(t, o).offset = o
  BY <1>5
<1>7. Hits(t, W) \subseteq [offset : W, rank : 1 .. 2, plaus : 0 .. 1000]
  BY <1>2, <1>3, <1>5
<1>8. \A c, d \in Hits(t, W) : c.offset = d.offset => c = d
  BY <1>3, <1>6
<1> QED
  BY <1>4, <1>7, <1>8

\* They are listed best first, and the list is cut: whoever is not on it is
\* worse than a full list.
LEMMA BestIvsFacts ==
  ASSUME NEW t \in Trials, NEW W \in SUBSET Windows(t)
  PROVE  LET C == Hits(t, W)
             L == BestIvs(C)
         IN  /\ L \in Seq(C) /\ Len(L) <= IvMax
             /\ \A m, n \in 1 .. Len(L) : m < n => Better(L[m], L[n])
             /\ \A c \in C : \/ \E n \in 1 .. Len(L) : L[n] = c
                            \/ /\ Len(L) = IvMax
                               /\ \A n \in 1 .. Len(L) : Better(L[n], c)
<1> DEFINE C == Hits(t, W)
           R == {x \in C \X C : Better(x[1], x[2])}
           K == Ranked(C)
           L == BestIvs(C)
           N == Cardinality(C)
<1>1. /\ IsFiniteSet(C) /\ C \subseteq [offset : W, rank : 1 .. 2, plaus : 0 .. 1000]
      /\ \A c, d \in C : c.offset = d.offset => c = d
  BY HitsFacts
<1>2. \A c \in C : c.offset \in Int /\ c.rank \in Int /\ c.plaus \in Int
  <2>1. W \subseteq Int
    BY DEF Windows
  <2> HIDE DEF C
  <2> SUFFICES ASSUME NEW c \in C
               PROVE  c.offset \in Int /\ c.rank \in Int /\ c.plaus \in Int
    OBVIOUS
  <2>2. c \in [offset : W, rank : 1 .. 2, plaus : 0 .. 1000]
    BY <1>1
  <2>3. c.offset \in W /\ c.rank \in 1 .. 2 /\ c.plaus \in 0 .. 1000
    BY <2>2
  <2> DEFINE x == c.offset
             y == c.rank
             z == c.plaus
  <2>4. x \in W /\ y \in 1 .. 2 /\ z \in 0 .. 1000
    BY <2>3
  <2> HIDE DEF x, y, z
  <2>5. x \in Int
    BY <2>1, <2>4
  <2>6. y \in Int /\ z \in Int
    BY <2>4
  <2> QED
    BY <2>5, <2>6 DEF x, y, z
<1>3. IvMax \in Nat /\ IvMax # 0
  BY BlockHuntAssumption
<1> HIDE DEF C
<1>4. \A c, d \in C : <<c, d>> \in R <=> Better(c, d)
  OBVIOUS
<1> HIDE DEF R
<1>5. Orders(R, C)
  <2>1. \A c, d \in C : c # d => <<c, d>> \in R \/ <<d, c>> \in R
    BY <1>1, <1>2, <1>4 DEF Better
  <2>2. \A c, d \in C : ~(<<c, d>> \in R /\ <<d, c>> \in R)
    <3> SUFFICES ASSUME NEW c \in C, NEW d \in C, Better(c, d), Better(d, c)
                 PROVE  FALSE
      BY <1>4
    <3> QED
      BY <1>2 DEF Better
  <2>3. \A b, c, d \in C : <<b, c>> \in R /\ <<c, d>> \in R => <<b, d>> \in R
    BY <1>2, <1>4 DEF Better
  <2> QED
    BY <2>1, <2>2, <2>3 DEF Orders
<1>6. Ranks(K, R, C)
  <2> DEFINE f(n) == CHOOSE c \in C : Cardinality({d \in C : Better(d, c)}) = n - 1
             g(n) == CHOOSE c \in C : Cardinality({d \in C : <<d, c>> \in R}) = n - 1
  <2>1. \A c \in C : {d \in C : Better(d, c)} = {d \in C : <<d, c>> \in R}
    BY <1>4
  <2>2. \A n \in 1 .. N : f(n) = g(n)
    BY <2>1
  <2>3. K = [n \in 1 .. N |-> f(n)]
    BY Zenon DEF Ranked
  <2>4. Ranks(K, R, C) <=> K = [n \in 1 .. N |-> g(n)]
    BY Zenon DEF Ranks
  <2> HIDE DEF f, g, K, N
  <2> QED
    BY <2>2, <2>3, <2>4
<1>7. L = Take(K, IvMax)
  BY DEF BestIvs
<1> HIDE DEF K, L
<1>8. /\ N \in Nat
      /\ K \in [1 .. N -> C]
      /\ \A m, n \in 1 .. N : m < n => <<K[m], K[n]>> \in R
      /\ \A c \in C : \E n \in 1 .. N : K[n] = c
  BY <1>1, <1>5, <1>6, RankList
<1> HIDE DEF N
<1>9. K \in Seq(C) /\ Len(K) = N
  BY <1>8
<1>10. /\ L \in Seq(C) /\ Len(L) = IF IvMax < N THEN IvMax ELSE N
       /\ \A k \in 1 .. Len(L) : L[k] = K[k]
  <2>1. /\ Take(K, IvMax) \in Seq(C)
        /\ Len(Take(K, IvMax)) = IF IvMax < Len(K) THEN IvMax ELSE Len(K)
        /\ \A k \in 1 .. Len(Take(K, IvMax)) : Take(K, IvMax)[k] = K[k]
    BY <1>3, <1>9, TakeFacts
  <2> QED
    BY <1>7, <1>9, <2>1
<1>11. Len(L) \in Nat /\ Len(L) <= IvMax /\ Len(L) <= N
  BY <1>3, <1>8, <1>10
<1>12. ASSUME NEW m \in 1 .. Len(L), NEW n \in 1 .. Len(L), m < n
       PROVE  Better(L[m], L[n])
  <2>1. m \in 1 .. N /\ n \in 1 .. N
    BY <1>8, <1>11
  <2>2. <<K[m], K[n]>> \in R /\ K[m] \in C /\ K[n] \in C
    BY <1>8, <1>12, <2>1
  <2> QED
    BY <1>4, <1>10, <2>2
<1>13. ASSUME NEW c \in C, ~ \E n \in 1 .. Len(L) : L[n] = c
       PROVE  Len(L) = IvMax /\ \A n \in 1 .. Len(L) : Better(L[n], c)
  <2>1. PICK k \in 1 .. N : K[k] = c
    BY <1>8
  <2>2. k \notin 1 .. Len(L)
    BY <1>10, <1>13, <2>1
  <2>3. Len(L) < k /\ Len(L) = IvMax
    BY <1>8, <1>10, <1>11, <2>1, <2>2
  <2>4. ASSUME NEW n \in 1 .. Len(L) PROVE Better(L[n], c)
    <3>1. n \in 1 .. N /\ n < k
      BY <1>8, <1>11, <2>3
    <3>2. <<K[n], K[k]>> \in R /\ K[n] \in C /\ L[n] = K[n]
      BY <1>8, <1>10, <2>1, <3>1
    <3> QED
      BY <1>4, <2>1, <3>2
  <2> QED
    BY <2>3, <2>4
<1>14. \A c \in C : \/ \E n \in 1 .. Len(L) : L[n] = c
                    \/ Len(L) = IvMax /\ \A n \in 1 .. Len(L) : Better(L[n], c)
  BY <1>13
<1>15. \A m, n \in 1 .. Len(L) : m < n => Better(L[m], L[n])
  BY <1>12
<1> QED
  BY <1>10, <1>11, <1>14, <1>15 DEF C, L

-----------------------------------------------------------------------------
(* The padding stripped. *)

\* A text without the zeros at its end is a beginning of it that is empty or
\* ends in another byte.
LEMMA StripZerosFacts ==
  ASSUME NEW s \in Seq(Byte)
  PROVE  \E n \in 0 .. Len(s) :
           /\ StripZeros(s) = SubSeq(s, 1, n)
           /\ n > 0 => s[n] # 0
           /\ \A m \in n + 1 .. Len(s) : s[m] = 0
<1> DEFINE P(n) == /\ n > 0 => s[n] # 0
                   /\ \A m \in n + 1 .. Len(s) : s[m] = 0
           T == {n \in 1 .. Len(s) : s[n] # 0}
<1>1. \E n \in 0 .. Len(s) : P(n)
  <2>1. CASE T = {}
    <3>1. 0 \in 0 .. Len(s) /\ \A m \in 0 + 1 .. Len(s) : s[m] = 0
      BY <2>1
    <3>2. P(0)
      BY <3>1
    <3> QED
      BY <3>1, <3>2
  <2>2. CASE T # {}
    <3>1. Len(s) \in Nat /\ T \subseteq 1 .. Len(s)
      OBVIOUS
    <3>2. PICK n \in T : \A k \in T : k <= n
      <4> HIDE DEF T
      <4> QED
        BY <2>2, <3>1, LastPlace
    <3>3. \A m \in n + 1 .. Len(s) : m \in 1 .. Len(s) /\ ~(m <= n)
      BY <3>1
    <3>4. \A m \in n + 1 .. Len(s) : s[m] = 0
      BY <3>2, <3>3
    <3> QED
      BY <3>1, <3>4
  <2> QED
    BY <2>1, <2>2
<1> DEFINE c == CHOOSE n \in 0 .. Len(s) : P(n)
<1>2. StripZeros(s) = SubSeq(s, 1, c)
  BY Zenon DEF StripZeros
<1> HIDE DEF P
<1>3. c \in 0 .. Len(s) /\ P(c)
  BY <1>1
<1> HIDE DEF c
<1> QED
  BY <1>2, <1>3 DEF P

\* There is only one such beginning.
LEMMA StripZerosIs ==
  ASSUME NEW s \in Seq(Byte), NEW n \in 0 .. Len(s), n > 0 => s[n] # 0,
         \A m \in n + 1 .. Len(s) : s[m] = 0
  PROVE  StripZeros(s) = SubSeq(s, 1, n)
<1>1. PICK k \in 0 .. Len(s) :
        /\ StripZeros(s) = SubSeq(s, 1, k)
        /\ k > 0 => s[k] # 0
        /\ \A m \in k + 1 .. Len(s) : s[m] = 0
  BY StripZerosFacts
<1>2. k \in Nat /\ n \in Nat /\ Len(s) \in Nat
  OBVIOUS
<1>3. ~(k < n)
  BY <1>1, <1>2
<1>4. ~(n < k)
  BY <1>1, <1>2
<1> QED
  BY <1>1, <1>2, <1>3, <1>4

\* A text that keeps its last byte does not end in a zero.
LEMMA StripZerosKept ==
  ASSUME NEW s \in Seq(Byte), StripZeros(s) = s, s # <<>>
  PROVE  s[Len(s)] # 0
<1>1. PICK k \in 0 .. Len(s) :
        /\ StripZeros(s) = SubSeq(s, 1, k)
        /\ k > 0 => s[k] # 0
        /\ \A m \in k + 1 .. Len(s) : s[m] = 0
  BY StripZerosFacts
<1>2. Len(SubSeq(s, 1, k)) = k
  OBVIOUS
<1>3. k = Len(s) /\ Len(s) > 0
  BY <1>1, <1>2
<1> QED
  BY <1>1, <1>3

\* The padding found is no longer than the text.
LEMMA Pkcs7Type ==
  ASSUME NEW s \in Seq(Byte), s # <<>>
  PROVE  Pkcs7Len(s) \in 0 .. Len(s)
<1>1. Len(s) \in Nat
  OBVIOUS
<1> QED
  BY <1>1 DEF Pkcs7Len

\* What Strip leaves of a text.
Stripped(s) ==
  IF Pkcs7Len(s) > 0 THEN Take(s, Len(s) - Pkcs7Len(s)) ELSE StripZeros(s)

\* It is a text.
LEMMA StrippedType ==
  ASSUME NEW s \in Seq(Byte), s # <<>>
  PROVE  Stripped(s) \in Seq(Byte)
<1>1. Pkcs7Len(s) \in 0 .. Len(s) /\ Len(s) \in Nat
  BY Pkcs7Type
<1>2. Len(s) - Pkcs7Len(s) \in Nat
  BY <1>1
<1>3. Take(s, Len(s) - Pkcs7Len(s)) \in Seq(Byte)
  BY <1>2, TakeFacts
<1>4. StripZeros(s) \in Seq(Byte)
  <2>1. PICK k \in 0 .. Len(s) : StripZeros(s) = SubSeq(s, 1, k)
    BY StripZerosFacts
  <2> QED
    BY <2>1
<1> QED
  BY <1>3, <1>4 DEF Stripped

\* Stripping gives the message back from any text that agrees with the padded
\* message but for its first b bytes, fewer than the message has (or as many,
\* with PKCS#7, which says itself where it begins).
LEMMA StrippedMessage ==
  ASSUME NEW t \in Trials, NEW s \in Seq(Byte), Len(s) = Len(Padded(t)),
         s # <<>>,
         NEW b \in Nat, b < Len(t.message) \/ b = 0,
         \A k \in b + 1 .. Len(s) : s[k] = Padded(t)[k],
         \/ t.padding = "pkcs7"
         \/ Pkcs7Len(s) = 0 /\ StripZeros(t.message) = t.message
  PROVE  /\ Stripped(s) \in Seq(Byte) /\ Len(Stripped(s)) = Len(t.message)
         /\ \A k \in b + 1 .. Len(t.message) : Stripped(s)[k] = t.message[k]
<1> DEFINE m == t.message
           p == Padded(t)
<1>1. PICK n \in Nat, v \in Byte :
           /\ Len(p) = Len(m) + n
           /\ \A k \in 1 .. Len(m) : p[k] = m[k]
           /\ \A k \in Len(m) + 1 .. Len(p) : p[k] = v
           /\ t.padding = "pkcs7" => n = v /\ n \in 1 .. t.block
           /\ t.padding # "pkcs7" => v = 0
  BY PaddedElements
<1>2. m \in Seq(Byte) /\ p \in Seq(Byte) /\ Len(m) \in Nat /\ Len(s) = Len(p)
  BY TrialFacts, PaddedType
<1>3. \A k \in b + 1 .. Len(s) : s[k] = p[k]
  OBVIOUS
<1>4. b < Len(m) \/ b = 0
  OBVIOUS
<1> HIDE DEF m, p
<1>5. Stripped(s) = SubSeq(s, 1, Len(m))
  <2>1. CASE t.padding = "pkcs7"
    <3>1. n = v /\ n \in Nat /\ 1 <= n /\ Len(s) = Len(m) + n
      <4>1. n \in 1 .. t.block /\ t.block \in Nat
        BY <1>1, <2>1, TrialFacts
      <4> QED
        BY <1>1, <1>2, <2>1, <4>1
    <3>2. \A k \in Len(m) + 1 .. Len(s) : s[k] = n
      BY <1>1, <1>2, <1>3, <1>4, <3>1
    <3>3. s[Len(s)] = n /\ Len(s) - n + 1 = Len(m) + 1 /\ n \in 1 .. Len(s)
      <4>1. Len(s) \in Len(m) + 1 .. Len(s)
        BY <1>2, <3>1
      <4>2. s[Len(s)] = n
        BY <3>2, <4>1
      <4>3. Len(s) - n + 1 = Len(m) + 1 /\ n \in 1 .. Len(s)
        BY <1>2, <3>1
      <4> QED
        BY <4>2, <4>3
    <3>4. Pkcs7Len(s) = n
      BY <3>2, <3>3 DEF Pkcs7Len
    <3>5. Stripped(s) = Take(s, Len(s) - n)
      BY <3>1, <3>4 DEF Stripped
    <3>6. Len(s) - n = Len(m) /\ Len(m) < Len(s)
      BY <1>2, <3>1
    <3> QED
      BY <3>5, <3>6 DEF Take
  <2>2. CASE t.padding # "pkcs7"
    <3>1. Pkcs7Len(s) = 0 /\ StripZeros(m) = m
      BY <2>2 DEF m
    <3>2. Stripped(s) = StripZeros(s)
      BY <3>1 DEF Stripped
    <3>3. \A k \in Len(m) + 1 .. Len(s) : s[k] = 0
      BY <1>1, <1>2, <1>3, <1>4, <2>2
    <3>4. Len(m) > 0 => s[Len(m)] # 0
      <4> SUFFICES ASSUME Len(m) > 0 PROVE s[Len(m)] # 0
        OBVIOUS
      <4>1. Len(m) \in b + 1 .. Len(s) /\ Len(m) \in 1 .. Len(m)
        BY <1>1, <1>2, <1>4
      <4>2. s[Len(m)] = m[Len(m)]
        BY <1>1, <1>3, <4>1
      <4>3. m # <<>>
        BY <1>2
      <4>4. m[Len(m)] # 0
        BY <1>2, <3>1, <4>3, StripZerosKept
      <4> QED
        BY <4>2, <4>4
    <3>5. Len(m) \in 0 .. Len(s)
      BY <1>1, <1>2
    <3>6. StripZeros(s) = SubSeq(s, 1, Len(m))
      BY <3>3, <3>4, <3>5, StripZerosIs
    <3> QED
      BY <3>2, <3>6
  <2> QED
    BY <2>1, <2>2
<1>6. Len(m) <= Len(s)
  BY <1>1, <1>2
<1>7. /\ SubSeq(s, 1, Len(m)) \in Seq(Byte) /\ Len(SubSeq(s, 1, Len(m))) = Len(m)
      /\ \A k \in 1 .. Len(m) : SubSeq(s, 1, Len(m))[k] = s[k]
  BY <1>2, <1>6
<1>8. ASSUME NEW k \in b + 1 .. Len(m)
      PROVE  Stripped(s)[k] = m[k]
  <2>1. k \in 1 .. Len(m) /\ k \in b + 1 .. Len(s)
    BY <1>2, <1>6
  <2>2. s[k] = m[k]
    BY <1>1, <1>3, <2>1
  <2> QED
    BY <1>5, <1>7, <2>1, <2>2
<1> QED
  BY <1>5, <1>7, <1>8 DEF m

-----------------------------------------------------------------------------
(* The invariant. *)

\* Block 0 of a hit, and the plaintext before its padding is stripped.
FirstOf(t, i) == IF i = NoIv THEN Unknown(t) ELSE Block0(t, i)

PlainOf(t, r, i) == IF r = "ecb" THEN t.dec ELSE FirstOf(t, i) \o CbcTail(t)

\* They have bytes, as many as the ciphertext.
LEMMA PlainOfFacts ==
  ASSUME NEW t \in Trials, NEW i \in Seq(Byte), i = NoIv \/ Len(i) = t.block
  PROVE  /\ FirstOf(t, i) \in Seq(Byte) /\ Len(FirstOf(t, i)) = t.block
         /\ \A r \in {"ecb", "cbc"} :
              /\ PlainOf(t, r, i) \in Seq(Byte)
              /\ Len(PlainOf(t, r, i)) = Len(t.ct)
              /\ PlainOf(t, r, i) # <<>>
         /\ \A k \in 1 .. t.block : PlainOf(t, "cbc", i)[k] = FirstOf(t, i)[k]
         /\ \A k \in 1 .. Len(t.ct) - t.block :
              PlainOf(t, "cbc", i)[t.block + k] = CbcTail(t)[k]
<1> DEFINE f == FirstOf(t, i)
           u == CbcTail(t)
<1>1. /\ t.block \in Nat /\ 1 <= t.block /\ t.block <= Len(t.ct)
      /\ t.dec \in Seq(Byte) /\ Len(t.dec) = Len(t.ct) /\ Len(t.ct) \in Nat
  BY TrialFacts
<1>2. f \in Seq(Byte) /\ Len(f) = t.block
  <2>1. CASE i = NoIv
    BY <2>1, UnknownFacts DEF FirstOf
  <2>2. CASE i # NoIv
    BY <2>2, Block0Facts DEF FirstOf
  <2> QED
    BY <2>1, <2>2
<1>3. u \in Seq(Byte) /\ Len(u) = Len(t.ct) - t.block
  BY CbcTailFacts
<1>4. PlainOf(t, "ecb", i) = t.dec /\ PlainOf(t, "cbc", i) = f \o u
  BY DEF PlainOf
<1> HIDE DEF f, u
<1>5. /\ f \o u \in Seq(Byte) /\ Len(f \o u) = Len(f) + Len(u)
      /\ \A k \in 1 .. Len(f) : (f \o u)[k] = f[k]
      /\ \A k \in 1 .. Len(u) : (f \o u)[Len(f) + k] = u[k]
  <2>1. f \in Seq(Byte) /\ u \in Seq(Byte)
    BY <1>2, <1>3
  <2> QED
    BY <2>1, CatFacts
<1> DEFINE w == f \o u
<1>6. w \in Seq(Byte) /\ Len(w) = Len(t.ct) /\ PlainOf(t, "cbc", i) = w
  BY <1>1, <1>2, <1>3, <1>4, <1>5
<1> HIDE DEF w
<1>7. w # <<>> /\ t.dec # <<>>
  BY <1>1, <1>6
<1>8. \A r \in {"ecb", "cbc"} :
              /\ PlainOf(t, r, i) \in Seq(Byte)
              /\ Len(PlainOf(t, r, i)) = Len(t.ct)
              /\ PlainOf(t, r, i) # <<>>
  BY <1>1, <1>4, <1>6, <1>7
<1>9. /\ \A k \in 1 .. t.block : w[k] = f[k]
      /\ \A k \in 1 .. Len(t.ct) - t.block : w[t.block + k] = u[k]
  BY <1>2, <1>3, <1>5 DEF w
<1> QED
  BY <1>2, <1>6, <1>8, <1>9 DEF f, u

\* The two readings that may satisfy an oracle.
EcbAccepted(t) == Accepts(t.oracles, EcbHead(t))

CbcReadable(t) == CbcVerifiable(t) /\ Accepts(t.oracles, CbcHead(t))

\* Types.
BhTypes ==
  /\ trial \in Trials
  /\ pc \in {"ecb", "cbc", "scan", "strip", "done"}
  /\ reading \in {"none", "ecb", "cbc"}
  /\ left \subseteq Windows(trial)
  /\ iv \in Seq(Byte) /\ (iv = NoIv \/ Len(iv) = trial.block)
  /\ padding \in {"none", "pkcs7", "zero"}

\* Which reading is taken where.
BhControl ==
  /\ reading = "none" <=> match = NoMatch
  /\ pc \in {"ecb", "cbc"} => reading = "none"
  /\ pc = "scan" => reading = "cbc" /\ ScansIv(trial)
  /\ pc = "strip" => reading # "none"
  /\ reading = "ecb" => EcbAccepted(trial)
  /\ pc # "ecb" /\ reading # "ecb" => ~EcbAccepted(trial)
  /\ pc = "done" /\ reading = "none" => ~CbcReadable(trial)

\* The pass for the IV: nothing outside it, and in it the candidates among
\* the windows tried.
BhPass ==
  /\ pc # "scan" => left = {}
  /\ found = IF reading = "cbc" /\ ScansIv(trial)
             THEN Hits(trial, Windows(trial) \ left) ELSE {}
  /\ cands = IF reading = "cbc" /\ ScansIv(trial) /\ pc # "scan"
             THEN BestIvs(Hits(trial, Windows(trial))) ELSE <<>>

\* The plaintext shown.
BhPlain ==
  /\ pc \in {"ecb", "cbc", "scan"} => iv = NoIv /\ plain = <<>>
  /\ pc = "strip" => plain = PlainOf(trial, reading, iv)
  /\ pc = "done" => plain = IF reading = "none" THEN <<>>
                            ELSE Stripped(PlainOf(trial, reading, iv))

\* The invariant of BlockHunt that the theorems rest on.
BhInv == BhTypes /\ BhControl /\ BhPass /\ BhPlain

\* It holds at the start.
LEMMA InvStart ==
  ASSUME Init
  PROVE  BhInv
<1>1. BhTypes
  BY DEF Init, BhTypes, NoIv
<1>2. BhControl
  BY DEF Init, BhControl
<1>3. BhPass
  BY DEF Init, BhPass
<1>4. BhPlain
  BY DEF Init, BhPlain
<1> QED
  BY <1>1, <1>2, <1>3, <1>4 DEF BhInv

\* A hit as ECB.
LEMMA StepEcbHit ==
  ASSUME BhInv, EcbHit
  PROVE  BhInv'
<1> USE DEF BhInv, EcbHit
<1>1. EcbAccepted(trial) /\ match' # NoMatch
  BY TrialFacts, BestMatchFacts DEF EcbAccepted, BhTypes
<1>2. BhTypes'
  BY DEF BhTypes
<1>3. BhControl'
  BY <1>1 DEF BhControl
<1>4. BhPass'
  BY DEF BhPass, BhControl
<1>5. BhPlain'
  BY DEF BhPlain, PlainOf
<1> QED
  BY <1>2, <1>3, <1>4, <1>5

\* No hit as ECB.
LEMMA StepEcbMiss ==
  ASSUME BhInv, EcbMiss
  PROVE  BhInv'
<1> USE DEF BhInv, EcbMiss
<1>1. ~EcbAccepted(trial)
  BY DEF EcbAccepted
<1>2. BhTypes'
  BY DEF BhTypes
<1>3. BhControl'
  BY <1>1 DEF BhControl
<1>4. BhPass'
  BY DEF BhPass, BhControl
<1>5. BhPlain'
  BY DEF BhPlain
<1> QED
  BY <1>2, <1>3, <1>4, <1>5

\* No hit at all.
LEMMA StepCbcMiss ==
  ASSUME BhInv, CbcMiss
  PROVE  BhInv'
<1> USE DEF BhInv, CbcMiss
<1>1. ~CbcReadable(trial)
  BY DEF CbcReadable
<1>2. BhTypes'
  BY DEF BhTypes
<1>3. BhControl'
  BY <1>1 DEF BhControl
<1>4. BhPass'
  BY DEF BhPass, BhControl
<1>5. BhPlain'
  BY DEF BhPlain, BhControl
<1> QED
  BY <1>2, <1>3, <1>4, <1>5

\* What every hit as CBC has.
LEMMA AcceptedFacts ==
  ASSUME BhInv, CbcAccepted
  PROVE  /\ reading' = "cbc" /\ match' # NoMatch
         /\ ~EcbAccepted(trial) /\ reading = "none"
         /\ left = {} /\ found = {} /\ cands = <<>> /\ iv = NoIv /\ plain = <<>>
<1> USE DEF BhInv, CbcAccepted
<1>1. match' # NoMatch
  BY TrialFacts, BestMatchFacts DEF BhTypes
<1> QED
  BY <1>1 DEF BhControl, BhPass, BhPlain

\* A hit with the IV given.
LEMMA StepCbcFixed ==
  ASSUME BhInv, CbcFixed
  PROVE  BhInv'
<1>1. /\ reading' = "cbc" /\ match' # NoMatch
      /\ ~EcbAccepted(trial) /\ reading = "none"
      /\ left = {} /\ found = {} /\ cands = <<>> /\ iv = NoIv /\ plain = <<>>
  BY AcceptedFacts DEF CbcFixed
<1>2. /\ trial.fixedIv # NoIv /\ iv' = trial.fixedIv
      /\ plain' = Block0(trial, trial.fixedIv) \o CbcTail(trial)
      /\ pc' = "strip" /\ UNCHANGED <<trial, left, found, cands, padding>>
  BY DEF CbcFixed
<1>3. trial \in Trials
  BY DEF BhInv, BhTypes
<1>4. /\ trial.fixedIv \in Seq(Byte)
      /\ trial.fixedIv # NoIv => Len(trial.fixedIv) = trial.block
  BY <1>3, TrialFacts
<1>5. BhTypes'
  BY <1>1, <1>2, <1>4 DEF BhInv, BhTypes
<1>6. BhControl'
  BY <1>1, <1>2 DEF BhControl
<1>7. ~ScansIv(trial)
  BY <1>2 DEF ScansIv
<1>8. BhPass'
  BY <1>1, <1>2, <1>7 DEF BhPass
<1>9. BhPlain'
  BY <1>1, <1>2 DEF BhPlain, PlainOf, FirstOf
<1> QED
  BY <1>5, <1>6, <1>8, <1>9 DEF BhInv

\* A hit without an IV.
LEMMA StepCbcNoIv ==
  ASSUME BhInv, CbcNoIv
  PROVE  BhInv'
<1>1. /\ reading' = "cbc" /\ match' # NoMatch
      /\ ~EcbAccepted(trial) /\ reading = "none"
      /\ left = {} /\ found = {} /\ cands = <<>> /\ iv = NoIv /\ plain = <<>>
  BY AcceptedFacts DEF CbcNoIv
<1>2. /\ ~ScansIv(trial)
      /\ plain' = Unknown(trial) \o CbcTail(trial)
      /\ pc' = "strip" /\ UNCHANGED <<trial, left, found, cands, iv, padding>>
  BY DEF CbcNoIv
<1>5. BhTypes'
  BY <1>1, <1>2 DEF BhInv, BhTypes
<1>6. BhControl'
  BY <1>1, <1>2 DEF BhControl
<1>8. BhPass'
  BY <1>1, <1>2 DEF BhPass
<1>9. BhPlain'
  BY <1>1, <1>2 DEF BhPlain, PlainOf, FirstOf
<1> QED
  BY <1>5, <1>6, <1>8, <1>9 DEF BhInv

\* A hit whose IV is looked for: no window is tried yet.
LEMMA StepCbcScan ==
  ASSUME BhInv, CbcScan
  PROVE  BhInv'
<1>1. /\ reading' = "cbc" /\ match' # NoMatch
      /\ ~EcbAccepted(trial) /\ reading = "none"
      /\ left = {} /\ found = {} /\ cands = <<>> /\ iv = NoIv /\ plain = <<>>
  BY AcceptedFacts DEF CbcScan
<1>2. /\ ScansIv(trial) /\ left' = Windows(trial) /\ pc' = "scan"
      /\ UNCHANGED <<trial, found, cands, iv, plain, padding>>
  BY DEF CbcScan
<1>5. BhTypes'
  BY <1>1, <1>2 DEF BhInv, BhTypes
<1>6. BhControl'
  BY <1>1, <1>2 DEF BhControl
<1>7. Hits(trial, Windows(trial) \ Windows(trial)) = {}
  BY DEF Hits
<1>8. BhPass'
  BY <1>1, <1>2, <1>7 DEF BhPass
<1>9. BhPlain'
  BY <1>1, <1>2 DEF BhPlain
<1> QED
  BY <1>5, <1>6, <1>8, <1>9 DEF BhInv

\* One more window, whichever it is.
LEMMA StepTryIv ==
  ASSUME BhInv, NEW o \in left, TryIv(o)
  PROVE  BhInv'
<1>1. /\ pc = "scan" /\ left' = left \ {o}
      /\ found' = IF Accepts(trial.oracles, SeenUnder(trial, o))
                  THEN found \cup {Candidate(trial, o)} ELSE found
      /\ UNCHANGED <<trial, pc, reading, match, cands, iv, plain, padding>>
  BY DEF TryIv
<1>2. reading = "cbc" /\ ScansIv(trial) /\ o \in Windows(trial)
  BY <1>1 DEF BhInv, BhControl, BhTypes
<1>5. BhTypes'
  BY <1>1 DEF BhInv, BhTypes
<1>6. BhControl'
  BY <1>1 DEF BhInv, BhControl
<1>8. BhPass'
  <2> DEFINE W == Windows(trial) \ left
             W1 == Windows(trial) \ (left \ {o})
  <2>1. W1 = W \cup {o}
    BY <1>2
  <2>2. found = Hits(trial, W) /\ cands = <<>>
    BY <1>1, <1>2 DEF BhInv, BhPass
  <2>3. Hits(trial, W \cup {o}) =
          IF Accepts(trial.oracles, SeenUnder(trial, o))
          THEN Hits(trial, W) \cup {Candidate(trial, o)} ELSE Hits(trial, W)
    <3> HIDE DEF W
    <3> QED
      BY DEF Hits
  <2>4. found' = Hits(trial, W1)
    BY Zenon, <1>1, <2>1, <2>2, <2>3
  <2> HIDE DEF W1
  <2>5. found' = Hits(trial', Windows(trial') \ left')
    BY <1>1, <2>4 DEF W1
  <2> QED
    BY <1>1, <1>2, <2>2, <2>5 DEF BhPass
<1>9. BhPlain'
  BY <1>1 DEF BhInv, BhPlain
<1> QED
  BY <1>5, <1>6, <1>8, <1>9 DEF BhInv

\* The pass ends.
LEMMA StepRankIvs ==
  ASSUME BhInv, RankIvs
  PROVE  BhInv'
<1> DEFINE C == Hits(trial, Windows(trial))
<1>1. /\ pc = "scan" /\ left = {} /\ cands' = BestIvs(found) /\ pc' = "strip"
      /\ UNCHANGED <<trial, reading, match, left, found, padding>>
      /\ cands' = <<>> => plain' = Unknown(trial) \o CbcTail(trial) /\ iv' = iv
      /\ cands' # <<>> => /\ iv' = IvAt(trial, cands'[1].offset)
                          /\ plain' = FirstUnder(trial, cands'[1].offset) \o CbcTail(trial)
  BY DEF RankIvs
<1>2. /\ reading = "cbc" /\ ScansIv(trial) /\ trial \in Trials /\ iv = NoIv
      /\ ~EcbAccepted(trial)
  BY <1>1 DEF BhInv, BhControl, BhTypes, BhPlain
<1>3. found = C
  <2>1. Windows(trial) \ left = Windows(trial)
    BY <1>1
  <2> QED
    BY <1>1, <1>2, <2>1 DEF BhInv, BhPass
<1>4. cands' # <<>> => cands'[1].offset \in Windows(trial)
  <2>1. BestIvs(C) \in Seq(C)
    BY <1>2, BestIvsFacts
  <2>2. C \subseteq [offset : Windows(trial), rank : 1 .. 2, plaus : 0 .. 1000]
    BY <1>2, HitsFacts
  <2> HIDE DEF C
  <2>3. cands' \in Seq(C)
    BY <1>1, <1>3, <2>1
  <2>4. cands' # <<>> => cands'[1] \in C
    BY <2>3
  <2> QED
    BY <2>2, <2>4
<1> HIDE DEF C
<1>5. BhTypes'
  <2>1. cands' # <<>> => iv' \in Seq(Byte) /\ Len(iv') = trial.block
    BY <1>1, <1>2, <1>4, IvAtFacts
  <2>2. iv' \in Seq(Byte) /\ (iv' = NoIv \/ Len(iv') = trial.block)
    BY <1>1, <2>1 DEF BhInv, BhTypes
  <2> QED
    BY <1>1, <2>2 DEF BhInv, BhTypes
<1>6. BhControl'
  BY <1>1, <1>2 DEF BhInv, BhControl
<1>8. BhPass'
  <2>1. Windows(trial) \ left = Windows(trial)
    BY <1>1
  <2> QED
    BY <1>1, <1>2, <1>3, <2>1 DEF BhPass, C
<1>9. BhPlain'
  <2>1. plain' = PlainOf(trial, "cbc", iv')
    <3>1. CASE cands' = <<>>
      BY <1>1, <1>2, <3>1 DEF PlainOf, FirstOf
    <3>2. CASE cands' # <<>>
      <4>1. iv' \in Seq(Byte) /\ Len(iv') = trial.block /\ trial.block \in Nat
            /\ 1 <= trial.block
        BY <1>1, <1>2, <1>4, <3>2, IvAtFacts, TrialFacts
      <4>2. iv' # NoIv
        BY <4>1 DEF NoIv
      <4> QED
        BY <1>1, <3>2, <4>2 DEF PlainOf, FirstOf, FirstUnder
    <3> QED
      BY <3>1, <3>2
  <2> QED
    BY <1>1, <1>2, <2>1 DEF BhPlain
<1> QED
  BY <1>5, <1>6, <1>8, <1>9 DEF BhInv

\* The padding is stripped.
LEMMA StepStrip ==
  ASSUME BhInv, Strip
  PROVE  BhInv'
<1>1. /\ pc = "strip" /\ pc' = "done" /\ plain' = Stripped(plain)
      /\ padding' \in {"pkcs7", "zero"}
      /\ UNCHANGED <<trial, reading, match, left, found, cands, iv>>
  BY DEF Strip, Stripped
<1>2. reading # "none"
  BY <1>1 DEF BhInv, BhControl
<1>5. BhTypes'
  BY <1>1 DEF BhInv, BhTypes
<1>6. BhControl'
  BY <1>1, <1>2 DEF BhInv, BhControl
<1>8. BhPass'
  BY <1>1 DEF BhInv, BhPass
<1>9. BhPlain'
  BY <1>1, <1>2 DEF BhInv, BhPlain
<1> QED
  BY <1>5, <1>6, <1>8, <1>9 DEF BhInv

\* BhInv is an invariant of the decision on a window.
THEOREM BhInvariant == Spec => []BhInv
<1>1. Init => BhInv
  BY InvStart
<1>2. BhInv /\ [Next]_vars => BhInv'
  <2> SUFFICES ASSUME BhInv, [Next]_vars PROVE BhInv'
    OBVIOUS
  <2>1. CASE EcbHit
    BY <2>1, StepEcbHit
  <2>2. CASE EcbMiss
    BY <2>2, StepEcbMiss
  <2>3. CASE CbcMiss
    BY <2>3, StepCbcMiss
  <2>4. CASE CbcFixed
    BY <2>4, StepCbcFixed
  <2>5. CASE CbcNoIv
    BY <2>5, StepCbcNoIv
  <2>6. CASE CbcScan
    BY <2>6, StepCbcScan
  <2>7. CASE \E o \in left : TryIv(o)
    BY <2>7, StepTryIv
  <2>8. CASE RankIvs
    BY <2>8, StepRankIvs
  <2>9. CASE Strip
    BY <2>9, StepStrip
  <2>10. CASE Done \/ UNCHANGED vars
    BY <2>10 DEF Done, vars, BhInv, BhTypes, BhControl, BhPass, BhPlain
  <2> QED
    BY <2>1, <2>2, <2>3, <2>4, <2>5, <2>6, <2>7, <2>8, <2>9, <2>10 DEF Next
<1> QED
  BY <1>1, <1>2, PTL DEF Spec

-----------------------------------------------------------------------------
(* The properties. *)

\* Every variable has its type.
THEOREM BhTypeCorrect == Spec => []BhTypeOK
<1>1. BhInv => BhTypeOK
  <2> SUFFICES ASSUME BhInv PROVE BhTypeOK
    OBVIOUS
  <2>1. BhTypes /\ trial \in Trials /\ iv \in Seq(Byte) /\ (iv = NoIv \/ Len(iv) = trial.block)
    BY DEF BhInv, BhTypes
  <2>2. found \subseteq [offset : Windows(trial) \ left, rank : 1 .. 2, plaus : 0 .. 1000]
    <3> DEFINE W == Windows(trial) \ left
    <3>1. W \in SUBSET Windows(trial)
      OBVIOUS
    <3>2. found = {} \/ found = Hits(trial, W)
      BY DEF BhInv, BhPass
    <3> HIDE DEF W
    <3>3. Hits(trial, W) \subseteq [offset : W, rank : 1 .. 2, plaus : 0 .. 1000]
      <4>1. trial \in Trials
        BY <2>1
      <4> QED
        BY <3>1, <4>1, HitsFacts
    <3>4. found \subseteq [offset : W, rank : 1 .. 2, plaus : 0 .. 1000]
      BY <3>2, <3>3
    <3> QED
      BY <3>4 DEF W
  <2>3. Len(cands) <= IvMax
    <3>1. Len(BestIvs(Hits(trial, Windows(trial)))) <= IvMax
      BY <2>1, BestIvsFacts
    <3>2. Len(<<>>) = 0 /\ IvMax \in Nat
      BY BlockHuntAssumption
    <3>3. cands = <<>> \/ cands = BestIvs(Hits(trial, Windows(trial)))
      BY DEF BhInv, BhPass
    <3>4. CASE cands = <<>>
      BY <3>2, <3>4
    <3>5. CASE cands = BestIvs(Hits(trial, Windows(trial)))
      BY <3>1, <3>5
    <3> QED
      BY <3>3, <3>4, <3>5
  <2>4. plain \in Seq(Byte)
    <3>1. CASE plain = <<>>
      BY <3>1
    <3>2. CASE plain # <<>>
      <4>1. /\ reading \in {"ecb", "cbc"}
            /\ \/ plain = PlainOf(trial, reading, iv)
               \/ plain = Stripped(PlainOf(trial, reading, iv))
        BY <2>1, <3>2 DEF BhInv, BhTypes, BhControl, BhPlain
      <4>2. PlainOf(trial, reading, iv) \in Seq(Byte) /\ PlainOf(trial, reading, iv) # <<>>
        BY <2>1, <4>1, PlainOfFacts
      <4>3. Stripped(PlainOf(trial, reading, iv)) \in Seq(Byte)
        BY <4>2, StrippedType
      <4> QED
        BY <4>1, <4>2, <4>3
    <3> QED
      BY <3>1, <3>2
  <2> QED
    BY <2>1, <2>2, <2>3, <2>4 DEF BhInv, BhTypes, BhControl, BhTypeOK
<1> QED
  BY <1>1, BhInvariant, PTL

\* The IV reported explains the first block shown.
THEOREM IvExplainsBlock0Always == Spec => []IvExplainsBlock0
<1>1. BhInv => IvExplainsBlock0
  <2> SUFFICES ASSUME BhInv, pc = "strip", reading = "cbc"
               PROVE  Take(plain, trial.block) = FirstShown
    BY DEF IvExplainsBlock0
  <2> DEFINE b == trial.block
             f == FirstOf(trial, iv)
             w == PlainOf(trial, "cbc", iv)
  <2>1. trial \in Trials /\ iv \in Seq(Byte) /\ (iv = NoIv \/ Len(iv) = trial.block)
    BY DEF BhInv, BhTypes
  <2>2. plain = w /\ FirstShown = f
    BY DEF BhInv, BhPlain, FirstShown, FirstOf
  <2>3. /\ f \in Seq(Byte) /\ Len(f) = b /\ w \in Seq(Byte) /\ Len(w) = Len(trial.ct)
        /\ \A k \in 1 .. b : w[k] = f[k]
    BY <2>1, PlainOfFacts
  <2>4. b \in Nat /\ b <= Len(trial.ct)
    BY <2>1, TrialFacts
  <2> HIDE DEF b, f, w
  <2>5. /\ Take(w, b) \in Seq(Byte)
        /\ Len(Take(w, b)) = IF b < Len(w) THEN b ELSE Len(w)
        /\ \A k \in 1 .. Len(Take(w, b)) : Take(w, b)[k] = w[k]
    BY <2>3, <2>4, TakeFacts
  <2>6. Len(Take(w, b)) = b
    BY <2>3, <2>4, <2>5
  <2>7. Take(w, b) = f
    <3>1. Len(Take(w, b)) = Len(f) /\ \A k \in 1 .. Len(Take(w, b)) : Take(w, b)[k] = f[k]
      BY <2>3, <2>5, <2>6
    <3> QED
      BY <2>3, <2>5, <3>1, SameSeq
  <2> QED
    BY <2>2, <2>7 DEF b
<1> QED
  BY <1>1, BhInvariant, PTL

\* Whatever the order of the threads, the IV candidates are the best.
THEOREM BestIvsKeptAlways == Spec => []BestIvsKept
<1>1. BhInv => BestIvsKept
  <2> SUFFICES ASSUME BhInv, pc = "strip", reading = "cbc", ScansIv(trial)
               PROVE  LET listed == {cands[n] : n \in DOMAIN cands}
                      IN  /\ listed \subseteq Plausible
                          /\ \A m, n \in DOMAIN cands : m < n => Better(cands[m], cands[n])
                          /\ \A c \in Plausible \ listed :
                               Len(cands) = IvMax /\ \A d \in listed : Better(d, c)
    BY DEF BestIvsKept
  <2> DEFINE C == Hits(trial, Windows(trial))
             L == BestIvs(C)
  <2>1. trial \in Trials /\ cands = L
    BY DEF BhInv, BhTypes, BhPass
  <2>2. Plausible = C
    BY Zenon DEF Plausible, Hits
  <2>3. /\ L \in Seq(C) /\ Len(L) <= IvMax
        /\ \A m, n \in 1 .. Len(L) : m < n => Better(L[m], L[n])
        /\ \A c \in C : \/ \E n \in 1 .. Len(L) : L[n] = c
                       \/ /\ Len(L) = IvMax
                          /\ \A n \in 1 .. Len(L) : Better(L[n], c)
    BY <2>1, BestIvsFacts
  <2> HIDE DEF C, L
  <2>4. DOMAIN L = 1 .. Len(L) /\ \A n \in DOMAIN L : L[n] \in C
    BY <2>3
  <2> QED
    BY <2>1, <2>2, <2>3, <2>4
<1> QED
  BY <1>1, BhInvariant, PTL

\* The right key is not lost.
THEOREM RightKeyKeptAlways == Spec => []RightKeyKept
<1>1. BhInv => RightKeyKept
  <2> SUFFICES ASSUME BhInv, pc = "done", trial.mode # "none",
                      Accepts(trial.oracles, TrueHead),
                      trial.mode = "cbc" /\ Len(trial.ct) = trial.block
                        => trial.fixedIv = trial.iv
               PROVE  \/ reading = trial.mode
                      \/ reading = "ecb" /\ Accepts(trial.oracles, EcbHead(trial))
    BY DEF RightKeyKept
  <2> DEFINE t == trial
             p == Padded(t)
  <2>1. /\ t \in Trials /\ reading \in {"none", "ecb", "cbc"}
        /\ reading = "ecb" => EcbAccepted(t)
        /\ reading # "ecb" => ~EcbAccepted(t)
        /\ reading = "none" => ~CbcReadable(t)
    BY DEF BhInv, BhTypes, BhControl
  <2>2. t.mode \in {"ecb", "cbc"}
    BY <2>1, TrialFacts
  <2>3. CASE t.mode = "ecb"
    <3>1. TrueHead = EcbHead(t)
      BY <2>1, <2>3, EcbPlain DEF TrueHead, EcbHead
    <3> QED
      BY <2>1, <3>1 DEF EcbAccepted
  <2>4. CASE t.mode = "cbc"
    <3> SUFFICES ASSUME reading = "none" PROVE FALSE
      BY <2>1, <2>4 DEF EcbAccepted
    <3>1. /\ Len(p) = Len(t.ct) /\ p \in Seq(Byte)
          /\ Len(t.ct) > t.block => CbcTail(t) = SubSeq(p, t.block + 1, Len(p))
          /\ Len(t.ct) = t.block => Block0(t, t.iv) = p
      BY <2>1, <2>4, CbcPlain, CbcHeadTrue, PaddedType
    <3>2. /\ t.block \in Nat /\ 1 <= t.block /\ t.block <= Len(t.ct) /\ Len(t.iv) = t.block
          /\ t.iv \in Seq(Byte) /\ Len(t.ct) \in Nat
      BY <2>1, <2>4, TrialFacts
    <3>3. CASE Len(t.ct) > t.block
      <4>1. TrueHead = CbcHead(t)
        BY <2>4, <3>1, <3>3 DEF TrueHead, CbcHead
      <4>2. CbcVerifiable(t)
        BY <3>3 DEF CbcVerifiable
      <4> QED
        BY <2>1, <4>1, <4>2 DEF CbcReadable
    <3>4. CASE Len(t.ct) = t.block
      <4>1. t.fixedIv = t.iv /\ t.iv # NoIv
        BY <2>4, <3>2, <3>4 DEF NoIv
      <4>2. CbcHead(t) = p
        <5>1. ~(Len(t.ct) > t.block)
          BY <3>2, <3>4
        <5> QED
          BY <3>1, <3>4, <4>1, <5>1 DEF CbcHead
      <4>3. TrueHead = Head2(t, p)
        <5>1. ~(Len(p) > t.block)
          BY <3>1, <3>2, <3>4
        <5> QED
          BY <5>1 DEF TrueHead
      <4>4. Head2(t, p) = p
        <5>1. VerifyBlocks \in Nat /\ 1 <= VerifyBlocks
          BY BlockHuntAssumption
        <5> DEFINE n == VerifyBlocks * t.block
        <5>2. n \in Nat /\ t.block <= n
          <6>1. PICK d \in Nat : VerifyBlocks = 1 + d
            <7>1. VerifyBlocks - 1 \in Nat /\ VerifyBlocks = 1 + (VerifyBlocks - 1)
              BY <5>1
            <7> QED
              BY <7>1
          <6>2. n = t.block + d * t.block /\ d * t.block \in Nat
            BY <3>2, <6>1
          <6> QED
            BY <3>2, <6>2
        <5> HIDE DEF n
        <5>3. Len(p) <= n
          BY <3>1, <3>4, <5>2
        <5>4. Take(p, n) = p
          BY <3>1, <5>2, <5>3, TakeAll
        <5> QED
          BY <5>4 DEF Head2, n
      <4>5. CbcVerifiable(t)
        BY <4>1 DEF CbcVerifiable
      <4> QED
        BY <2>1, <4>2, <4>3, <4>4, <4>5 DEF CbcReadable
    <3> QED
      BY <3>2, <3>3, <3>4
  <2> QED
    BY <2>2, <2>3, <2>4
<1> QED
  BY <1>1, BhInvariant, PTL

\* A hit in the true mode shows the message.
THEOREM PlaintextRightAlways == Spec => []PlaintextRight
<1>1. BhInv => PlaintextRight
  <2> DEFINE t == trial
             p == Padded(t)
             m == t.message
             b == t.block
             s == PlainOf(t, reading, iv)
  <2> SUFFICES ASSUME BhInv, pc = "done", reading = t.mode, t.mode # "none",
                      \/ t.padding = "pkcs7"
                      \/ Pkcs7Len(Shown) = 0 /\ StripZeros(m) = m
               PROVE  IF reading = "ecb" \/ iv = t.iv THEN plain = m
                      ELSE Len(m) > b =>
                             SubSeq(plain, b + 1, Len(plain)) = SubSeq(m, b + 1, Len(m))
    BY DEF PlaintextRight
  <2>1. /\ t \in Trials /\ iv \in Seq(Byte) /\ (iv = NoIv \/ Len(iv) = b)
        /\ plain = Stripped(s) /\ t.mode \in {"ecb", "cbc"}
    BY TrialFacts DEF BhInv, BhTypes, BhPlain
  <2>2. Shown = s
    BY DEF Shown, PlainOf, FirstShown, FirstOf
  <2>3. \/ t.padding = "pkcs7"
        \/ Pkcs7Len(s) = 0 /\ StripZeros(m) = m
    BY <2>2
  <2>4. s \in Seq(Byte) /\ s # <<>> /\ Len(s) = Len(t.ct)
    BY <2>1, PlainOfFacts
  <2>5. /\ b \in Nat /\ 1 <= b /\ b <= Len(t.ct) /\ Len(t.dec) = Len(t.ct)
        /\ m \in Seq(Byte) /\ Len(t.ct) \in Nat
    BY <2>1, TrialFacts
  <2>6. Len(s) = Len(p)
    BY <2>1, <2>4, <2>5, EcbPlain, CbcPlain
  <2>7. ASSUME t.mode = "cbc"
        PROVE  \A k \in b + 1 .. Len(s) : s[k] = p[k]
    <3> SUFFICES ASSUME NEW k \in b + 1 .. Len(s) PROVE s[k] = p[k]
      OBVIOUS
    <3>1. k - b \in 1 .. Len(t.ct) - b /\ b + (k - b) = k
      BY <2>4, <2>5
    <3>2. \A j \in 1 .. Len(t.ct) - b : s[b + j] = CbcTail(t)[j]
      BY <2>1, <2>7, PlainOfFacts
    <3>3. \A j \in 1 .. Len(t.ct) - b : CbcTail(t)[j] = p[b + j]
      BY <2>1, <2>7, CbcOtherBlocks
    <3> HIDE DEF s, p, b
    <3> QED
      BY <3>1, <3>2, <3>3
  <2>8. CASE reading = "ecb" \/ iv = t.iv
    <3>1. \A k \in 1 .. Len(s) : s[k] = p[k]
      <4>1. CASE t.mode = "ecb"
        BY <2>1, <4>1, EcbPlain DEF PlainOf
      <4>2. CASE t.mode = "cbc"
        <5>1. iv = t.iv /\ Len(t.iv) = b /\ iv # NoIv
          <6>1. Len(t.iv) = b /\ iv = t.iv
            BY <2>1, <2>8, <4>2, TrialFacts
          <6> QED
            BY <2>5, <6>1 DEF NoIv
        <5>2. \A k \in 1 .. b : s[k] = FirstOf(t, iv)[k]
          BY <2>1, <4>2, PlainOfFacts
        <5>3. \A k \in 1 .. b : FirstOf(t, iv)[k] = p[k]
          BY <2>1, <4>2, <5>1, CbcFirstBlock DEF FirstOf
        <5>4. \A k \in b + 1 .. Len(s) : s[k] = p[k]
          BY <2>7, <4>2
        <5> HIDE DEF s, p, b
        <5> QED
          BY <2>4, <2>5, <5>2, <5>3, <5>4
      <4> QED
        BY <2>1, <4>1, <4>2
    <3> HIDE DEF s
    <3>2. \A k \in 0 + 1 .. Len(s) : s[k] = p[k]
      BY <3>1
    <3>3. /\ Stripped(s) \in Seq(Byte) /\ Len(Stripped(s)) = Len(m)
          /\ \A k \in 0 + 1 .. Len(m) : Stripped(s)[k] = m[k]
      <4>1. 0 \in Nat /\ (0 < Len(m) \/ 0 = 0)
        OBVIOUS
      <4> QED
        BY <2>1, <2>3, <2>4, <2>6, <3>2, <4>1, StrippedMessage
    <3>4. Stripped(s) = m
      <4>1. \A k \in 1 .. Len(Stripped(s)) : Stripped(s)[k] = m[k]
        BY <3>3
      <4> QED
        BY <2>5, <3>3, <4>1, SameSeq
    <3> QED
      BY <2>1, <2>8, <3>4
  <2>9. CASE ~(reading = "ecb" \/ iv = t.iv)
    <3> SUFFICES ASSUME Len(m) > b
                 PROVE  SubSeq(plain, b + 1, Len(plain)) = SubSeq(m, b + 1, Len(m))
      BY <2>9
    <3> DEFINE u == Stripped(s)
    <3>1. t.mode = "cbc"
      BY <2>1, <2>9
    <3>2. \A k \in b + 1 .. Len(s) : s[k] = p[k]
      BY <2>7, <3>1
    <3> HIDE DEF s
    <3>3. /\ u \in Seq(Byte) /\ Len(u) = Len(m)
          /\ \A k \in b + 1 .. Len(m) : u[k] = m[k]
      <4>1. b \in Nat /\ (b < Len(m) \/ b = 0)
        BY <2>5
      <4> QED
        BY <2>1, <2>3, <2>4, <2>6, <3>2, <4>1, StrippedMessage
    <3> DEFINE d == SubSeq(u, b + 1, Len(u))
               e == SubSeq(m, b + 1, Len(m))
    <3>4. b <= Len(m) /\ b <= Len(u)
      BY <2>5, <3>3
    <3> HIDE DEF u
    <3>5. /\ d \in Seq(Byte) /\ Len(d) = Len(u) - b
          /\ \A k \in 1 .. Len(u) - b : d[k] = u[b + k]
      <4>1. u \in Seq(Byte) /\ b \in Nat /\ b <= Len(u)
        BY <2>5, <3>3, <3>4
      <4> HIDE DEF b, m
      <4> QED
        BY <4>1, DropFacts
    <3>6. /\ e \in Seq(Byte) /\ Len(e) = Len(m) - b
          /\ \A k \in 1 .. Len(m) - b : e[k] = m[b + k]
      <4>1. m \in Seq(Byte) /\ b \in Nat /\ b <= Len(m)
        BY <2>5, <3>4
      <4> HIDE DEF b, m
      <4> QED
        BY <4>1, DropFacts
    <3> HIDE DEF d, e
    <3>7. d = e
      <4>1. \A k \in 1 .. Len(m) - b : b + k \in b + 1 .. Len(m)
        BY <2>5
      <4>2. \A k \in 1 .. Len(d) : d[k] = e[k]
        BY <3>3, <3>5, <3>6, <4>1
      <4> QED
        BY <3>3, <3>5, <3>6, <4>2, SameSeq
    <3> QED
      BY <2>1, <3>7 DEF d, e, u
  <2> QED
    BY <2>8, <2>9
<1> QED
  BY <1>1, BhInvariant, PTL
=============================================================================
