-------------------------- MODULE StreamHuntProofs --------------------------
(***************************************************************************)
(* Proofs about StreamHunt, for every width of the counters, every size of *)
(* the blocks and every set of trials: a closed form of the counter after  *)
(* any number of chunks, and from it what a window decrypts to.            *)
(***************************************************************************)
EXTENDS StreamHunt, CommonLemmas

-----------------------------------------------------------------------------
(* The constants and the trials. *)

\* The constants are numbers other than 0.
LEMMA Positive ==
  /\ NonceSpan \in Nat \ {0} /\ CounterSpan \in Nat \ {0} /\ CounterSpan > 2
  /\ ChunkLen \in Nat \ {0} /\ StreamChunk \in Nat \ {0}
  /\ VerifyBlocks \in Nat \ {0}
  /\ BlockSpan \in Nat \ {0}
  <1>1. /\ NonceSpan \in Nat \ {0} /\ CounterSpan \in Nat \ {0} /\ CounterSpan > 2
        /\ ChunkLen \in Nat \ {0} /\ StreamChunk \in Nat \ {0}
        /\ VerifyBlocks \in Nat \ {0}
    BY StreamHuntAssumption
  <1>2. NonceSpan * CounterSpan \in Nat
    BY <1>1
  <1>3. 0 * CounterSpan + CounterSpan <= NonceSpan * CounterSpan
    BY <1>1, TimesGap
  <1> QED BY <1>1, <1>2, <1>3 DEF BlockSpan

\* What the assumption says of one trial.
LEMMA TrialShape ==
  ASSUME NEW t \in Trials
  PROVE  /\ t.mode \in {"ctr", "gcm", "stream"}
         /\ t.len \in Nat \ {0}
         /\ t.mode = "ctr" => t.nonce \in 0 .. BlockSpan - 1 /\ t.tag = "none"
         /\ t.mode = "gcm" => t.nonce \in 0 .. NonceSpan - 1
         /\ HeadLen(t) \in 1 .. t.len
  <1>1. /\ t.mode \in {"ctr", "gcm", "stream"}
        /\ t.len \in Nat \ {0}
        /\ t.mode = "ctr" => t.nonce \in 0 .. BlockSpan - 1 /\ t.tag = "none"
        /\ t.mode = "gcm" => t.nonce \in 0 .. NonceSpan - 1
    BY StreamHuntAssumption DEF Counters
  <1>2. VerifyBlocks * ChunkLen \in Nat \ {0}
    <2>1. 0 * ChunkLen + ChunkLen <= VerifyBlocks * ChunkLen
      BY Positive, TimesGap
    <2> QED BY <2>1, Positive
  <1>3. HeadLen(t) \in 1 .. t.len
    BY <1>1, <1>2 DEF HeadLen
  <1> QED BY <1>1, <1>3

-----------------------------------------------------------------------------
(* The counter of a block, in closed form. *)

\* A counter of GCM consists of the nonce and the low bits.
LEMMA GcmCounter ==
  ASSUME NEW n \in 0 .. NonceSpan - 1, NEW r \in 0 .. CounterSpan - 1
  PROVE  /\ n * CounterSpan + r \in Counters
         /\ (n * CounterSpan + r) \div CounterSpan = n
         /\ (n * CounterSpan + r) % CounterSpan = r
  <1>1. n * CounterSpan + CounterSpan <= NonceSpan * CounterSpan
    BY Positive, TimesGap
  <1>2. n * CounterSpan \in Nat /\ NonceSpan * CounterSpan \in Nat
    BY Positive
  <1>3. n * CounterSpan + r \in Counters
    BY <1>1, <1>2, Positive DEF Counters, BlockSpan
  <1> QED BY <1>3, Positive, DivModUnique

\* The counter of every block fits its width.
LEMMA SentCounterType ==
  ASSUME NEW t \in Trials, t.mode # "stream", NEW k \in Nat
  PROVE  SentCounter(t, k) \in Counters
  <1>1. CASE t.mode = "ctr"
    <2>1. t.nonce + k \in Nat
      BY <1>1, Positive, TrialShape
    <2>2. (t.nonce + k) % BlockSpan \in 0 .. BlockSpan - 1
      BY <2>1, Positive, DivMod
    <2> QED BY <1>1, <2>2 DEF SentCounter, Counters
  <1>2. CASE t.mode = "gcm"
    <2>1. t.nonce \in 0 .. NonceSpan - 1
      BY <1>2, TrialShape
    <2>2. (k + 2) % CounterSpan \in 0 .. CounterSpan - 1
      BY Positive, DivMod
    <2> QED BY <1>2, <2>1, <2>2, GcmCounter DEF SentCounter
  <1> QED BY <1>1, <1>2, TrialShape

\* The first counter of stream_decrypt is the one of the sender's first block.
LEMMA FirstCounter ==
  ASSUME NEW t \in Trials, t.mode # "stream"
  PROVE  InitialCounter(t) = SentCounter(t, 0)
  <1>1. CASE t.mode = "ctr"
    <2>1. t.nonce \in 0 .. BlockSpan - 1
      BY <1>1, TrialShape
    <2>2. t.nonce % BlockSpan = t.nonce /\ t.nonce + 0 = t.nonce
      BY <2>1, Positive, ModSmall
    <2> QED BY <1>1, <2>2 DEF InitialCounter, SentCounter
  <1>2. CASE t.mode = "gcm"
    <2> DEFINE n == t.nonce
    <2>1. n \in 0 .. NonceSpan - 1
      BY <1>2, TrialShape
    <2> HIDE DEF n
    <2>2. (n * CounterSpan + 1) \div CounterSpan = n
      BY <2>1, Positive, GcmCounter
    <2>3. n * CounterSpan \in Nat
      BY <2>1, Positive
    <2>4. (n * CounterSpan + 1) + 1 = n * CounterSpan + 2
      BY <2>3
    <2>5. (n * CounterSpan + 2) % CounterSpan = 2 % CounterSpan
      BY <2>1, Positive, ModPlus
    <2>6. IncrementCounter32(GcmJ0(n)) = n * CounterSpan + (2 % CounterSpan)
      BY <2>2, <2>4, <2>5 DEF IncrementCounter32, GcmJ0
    <2> QED BY <1>2, <2>6 DEF InitialCounter, SentCounter, n
  <1> QED BY <1>1, <1>2, TrialShape

\* The increment of the mode leads from the counter of a block to that of the
\* next, also where it wraps.
LEMMA FollowingCounter ==
  ASSUME NEW t \in Trials, t.mode # "stream", NEW k \in Nat
  PROVE  NextCounter(t, SentCounter(t, k)) = SentCounter(t, k + 1)
  <1>1. CASE t.mode = "ctr"
    <2>1. t.nonce + k \in Nat /\ t.nonce + (k + 1) = (t.nonce + k) + 1
      BY <1>1, Positive, TrialShape
    <2>2. (((t.nonce + k) % BlockSpan) + 1) % BlockSpan = ((t.nonce + k) + 1) % BlockSpan
      BY <2>1, Positive, ModSum
    <2> QED BY <1>1, <2>1, <2>2 DEF NextCounter, SentCounter, IncrementCounter
  <1>2. CASE t.mode = "gcm"
    <2> DEFINE n == t.nonce
               r == (k + 2) % CounterSpan
               c == n * CounterSpan + r
    <2>1. n \in 0 .. NonceSpan - 1 /\ r \in 0 .. CounterSpan - 1
      BY <1>2, TrialShape, Positive, DivMod
    <2>2. (r + 1) % CounterSpan = ((k + 1) + 2) % CounterSpan
      <3>1. k + 2 \in Nat
        OBVIOUS
      <3>3. (((k + 2) % CounterSpan) + 1) % CounterSpan = ((k + 2) + 1) % CounterSpan
        BY <3>1, Positive, ModSum
      <3>2. (k + 2) + 1 = (k + 1) + 2
        OBVIOUS
      <3> QED BY <3>2, <3>3
    <2> HIDE DEF n, r
    <2>3. c \div CounterSpan = n
      BY <2>1, GcmCounter
    <2>4. (c + 1) % CounterSpan = (r + 1) % CounterSpan
      <3>1. n * CounterSpan \in Nat
        BY <2>1, Positive
      <3>2. c + 1 = n * CounterSpan + (r + 1) /\ r + 1 \in Nat
        BY <2>1, <3>1
      <3>3. (n * CounterSpan + (r + 1)) % CounterSpan = (r + 1) % CounterSpan
        BY <2>1, <3>2, Positive, ModPlus
      <3> QED BY <3>2, <3>3
    <2>5. IncrementCounter32(c) = n * CounterSpan + (((k + 1) + 2) % CounterSpan)
      BY <2>2, <2>3, <2>4 DEF IncrementCounter32
    <2> QED BY <1>2, <2>5 DEF NextCounter, SentCounter, n, r
  <1> QED BY <1>1, <1>2, TrialShape

-----------------------------------------------------------------------------
(* Strings of keystream. *)

\* A byte of keystream: its counter and its place.
Byte == Nat \X Nat

\* Byte number k * ChunkLen + j is byte j of block k.
LEMMA PlaceOfByte ==
  ASSUME NEW k \in Nat, NEW j \in 1 .. ChunkLen
  PROVE  /\ ((k * ChunkLen + j) - 1) \div ChunkLen = k
         /\ ((k * ChunkLen + j) - 1) % ChunkLen = j - 1
  <1>1. k * ChunkLen \in Nat
    BY Positive
  <1>2. (k * ChunkLen + j) - 1 = k * ChunkLen + (j - 1) /\ j - 1 \in 0 .. ChunkLen - 1
    BY <1>1, Positive
  <1> QED BY <1>2, Positive, DivModUnique

\* What the sender uses is a sequence of bytes of keystream.
LEMMA SentType ==
  ASSUME NEW t \in Trials, NEW n \in Nat
  PROVE  /\ Sent(t, n) \in Seq(Byte) /\ Len(Sent(t, n)) = n
         /\ \A i \in 1 .. n : Sent(t, n)[i] = SentByte(t, i)
  <1>1. ASSUME NEW i \in 1 .. n PROVE SentByte(t, i) \in Byte
    <2>1. i - 1 \in Nat
      OBVIOUS
    <2>2. CASE t.mode = "stream"
      <3>1. (i - 1) \div StreamChunk \in Nat /\ (i - 1) % StreamChunk \in Nat
        BY <2>1, Positive, DivMod
      <3> QED BY <2>2, <3>1 DEF SentByte, Byte
    <2>3. CASE t.mode # "stream"
      <3>1. (i - 1) \div ChunkLen \in Nat /\ (i - 1) % ChunkLen \in Nat
        BY <2>1, Positive, DivMod
      <3>2. SentCounter(t, (i - 1) \div ChunkLen) \in Nat
        BY <2>3, <3>1, SentCounterType, Positive DEF Counters
      <3> QED BY <2>3, <3>1, <3>2 DEF SentByte, Byte
    <2> QED BY <2>2, <2>3
  <1>2. Sent(t, n) \in [1 .. n -> Byte]
    BY <1>1 DEF Sent
  <1>3. Sent(t, n) \in Seq(Byte) /\ Len(Sent(t, n)) = n
    BY <1>2
  <1> QED BY <1>3 DEF Sent

\* So is the keystream of the ChaCha adapter.
LEMMA KeystreamType ==
  ASSUME NEW n \in Nat
  PROVE  /\ Keystream(n) \in Seq(Byte) /\ Len(Keystream(n)) = n
         /\ \A i \in 1 .. n : Keystream(n)[i] =
              <<(i - 1) \div StreamChunk, ((i - 1) % StreamChunk) + 1>>
  <1>1. ASSUME NEW i \in 1 .. n
        PROVE  <<(i - 1) \div StreamChunk, ((i - 1) % StreamChunk) + 1>> \in Byte
    <2>1. i - 1 \in Nat
      OBVIOUS
    <2>2. (i - 1) \div StreamChunk \in Nat /\ (i - 1) % StreamChunk \in Nat
      BY <2>1, Positive, DivMod
    <2> QED BY <2>2 DEF Byte
  <1>2. Keystream(n) \in [1 .. n -> Byte]
    BY <1>1 DEF Keystream
  <1>3. Keystream(n) \in Seq(Byte) /\ Len(Keystream(n)) = n
    BY <1>2
  <1> QED BY <1>3 DEF Keystream

\* One chunk more, whole or not, is what the sender used next.
LEMMA SentChunk ==
  ASSUME NEW t \in Trials, t.mode # "stream", NEW k \in Nat, NEW m \in 0 .. ChunkLen
  PROVE  Sent(t, k * ChunkLen) \o [j \in 1 .. m |-> <<SentCounter(t, k), j>>]
           = Sent(t, k * ChunkLen + m)
  <1> DEFINE n == k * ChunkLen
             s == Sent(t, n)
             u == [j \in 1 .. m |-> <<SentCounter(t, k), j>>]
             w == Sent(t, n + m)
  <1>1. n \in Nat /\ n + m \in Nat /\ m \in Nat
    BY Positive
  <1>2. /\ s \in Seq(Byte) /\ Len(s) = n /\ \A i \in 1 .. n : s[i] = SentByte(t, i)
        /\ w \in Seq(Byte) /\ Len(w) = n + m
        /\ \A i \in 1 .. n + m : w[i] = SentByte(t, i)
    <2> HIDE DEF n
    <2> QED BY <1>1, SentType
  <1>3. u \in Seq(Byte) /\ Len(u) = m
    <2>1. SentCounter(t, k) \in Nat
      BY SentCounterType, Positive DEF Counters
    <2>2. u \in [1 .. m -> Byte]
      BY <2>1 DEF Byte
    <2> HIDE DEF u
    <2> QED BY <1>1, <2>2
  <1>4. ASSUME NEW j \in 1 .. m
        PROVE  u[j] = SentByte(t, n + j)
    <2>1. ((n + j) - 1) \div ChunkLen = k /\ ((n + j) - 1) % ChunkLen = j - 1
      BY PlaceOfByte, Positive
    <2>2. (j - 1) + 1 = j
      OBVIOUS
    <2> QED BY <2>1, <2>2 DEF SentByte
  <1> HIDE DEF n, s, u, w
  <1>5. s \o u \in Seq(Byte) /\ Len(s \o u) = n + m
    BY <1>1, <1>2, <1>3
  <1>6. ASSUME NEW i \in 1 .. n + m PROVE (s \o u)[i] = w[i]
    <2>1. CASE i <= n
      <3>1. i \in 1 .. n
        BY <1>1, <2>1
      <3>2. (s \o u)[i] = s[i]
        BY <1>1, <1>2, <1>3, <3>1
      <3> QED BY <1>2, <3>1, <3>2
    <2>2. CASE i > n
      <3>1. i - n \in 1 .. m /\ n + (i - n) = i
        BY <1>1, <2>2
      <3>2. (s \o u)[i] = u[i - n]
        BY <1>1, <1>2, <1>3, <2>2, <3>1
      <3> QED BY <1>2, <1>4, <3>1, <3>2
    <2>3. i \in Nat /\ (i <= n \/ i > n)
      BY <1>1
    <2> QED BY <2>1, <2>2, <2>3
  <1>7. s \o u = w
    BY <1>1, <1>2, <1>5, <1>6
  <1> QED BY <1>7 DEF n, s, u, w

-----------------------------------------------------------------------------
(* The inductive invariant. *)

\* What a window decrypts the first n bytes to.
Decrypted(t, n) == IF t.mode = "stream" THEN Keystream(n) ELSE Sent(t, n)

\* stream_decrypt is between two chunks of the first n bytes: it holds what the
\* sender used so far, and the counter of the next block.
BetweenChunks(n) ==
  \E k \in Nat :
    /\ counter = SentCounter(trial, k)
    /\ Len(plain) = k * ChunkLen \/ Len(plain) = n

\* The state of a window as its place in the code determines it.
ShInv ==
  /\ trial \in Trials
  /\ pc \in {"start", "head", "verify", "full", "done"}
  /\ counter \in Counters
  /\ pc = "start" => plain = <<>>
  /\ pc # "done" => match = "none"
  /\ pc \in {"start", "head"} => head = <<>>
  /\ pc \in {"head", "verify", "full"} => trial.tag = "none"
  /\ pc \in {"head", "full"} =>
       /\ trial.mode # "stream"
       /\ Len(plain) \in 0 .. Target
       /\ plain = Sent(trial, Len(plain))
       /\ BetweenChunks(Target)
  /\ pc \in {"verify", "full"} => head = Decrypted(trial, HeadLen(trial))
  /\ pc = "verify" => plain = IF trial.mode = "stream" THEN <<>> ELSE head
  /\ pc = "full" => Accepted(trial, head)
  /\ pc = "done" =>
       \/ /\ trial.tag = "match" /\ match = "tag"
          /\ plain = Sent(trial, trial.len) /\ head = <<>>
       \/ /\ trial.tag \notin {"none", "match"} /\ match = "none"
          /\ plain = <<>> /\ head = <<>>
       \/ /\ trial.tag = "none" /\ head = Decrypted(trial, HeadLen(trial))
          /\ \/ /\ ~Accepted(trial, head) /\ match = "none"
                /\ plain = IF trial.mode = "stream" THEN <<>> ELSE head
             \/ /\ Accepted(trial, head) /\ match = "oracle"
                /\ plain = Decrypted(trial, trial.len)

\* The first state satisfies the invariant.
LEMMA InitShInv == Init => ShInv
  <1> SUFFICES ASSUME Init PROVE ShInv
    OBVIOUS
  <1>1. 0 \in Counters
    BY Positive DEF Counters
  <1> QED BY <1>1 DEF Init, ShInv

\* Nothing is decrypted before the first chunk.
LEMMA BeforeChunks ==
  ASSUME NEW t \in Trials
  PROVE  Sent(t, 0) = <<>> /\ Len(<<>>) = 0 /\ 0 * ChunkLen = 0
  <1>1. Sent(t, 0) \in Seq(Byte) /\ Len(Sent(t, 0)) = 0
    BY SentType
  <1>2. Sent(t, 0) = <<>>
    BY <1>1
  <1> QED BY <1>2, Positive

\* Both calls of stream_decrypt begin with the first counter and no plaintext.
LEMMA StartChunks ==
  ASSUME NEW t \in Trials, t.mode # "stream",
         trial' = t, counter' = InitialCounter(t), plain' = <<>>,
         Target' \in Nat
  PROVE  /\ counter' \in Counters
         /\ (Len(plain) \in 0 .. Target)'
         /\ (plain = Sent(trial, Len(plain)))'
         /\ BetweenChunks(Target)'
  <1>1. counter' = SentCounter(t, 0) /\ counter' \in Counters
    BY FirstCounter, SentCounterType
  <1>2. Sent(t, 0) = <<>> /\ Len(<<>>) = 0 /\ 0 * ChunkLen = 0
    BY BeforeChunks
  <1>3. BetweenChunks(Target)'
    <2>1. counter' = SentCounter(trial', 0) /\ Len(plain') = 0 * ChunkLen /\ 0 \in Nat
      BY <1>1, <1>2
    <2> QED BY <2>1 DEF BetweenChunks, SentCounter
  <1>4. plain' = Sent(trial', Len(plain'))
    BY <1>2
  <1>5. Len(plain') \in 0 .. Target'
    BY <1>2
  <1> QED BY <1>1, <1>3, <1>4, <1>5 DEF Sent, SentByte, SentCounter

\* One chunk more keeps stream_decrypt between two chunks.
LEMMA ChunkKeeps ==
  ASSUME ShInv, DecryptChunk
  PROVE  /\ counter' \in Counters
         /\ Len(plain') \in 0 .. Target
         /\ plain' = Sent(trial, Len(plain'))
         /\ \E k \in Nat : /\ counter' = SentCounter(trial, k)
                           /\ Len(plain') = k * ChunkLen \/ Len(plain') = Target
  <1> DEFINE rest == Target - Len(plain)
             m == IF rest < ChunkLen THEN rest ELSE ChunkLen
  <1>1. /\ trial \in Trials /\ trial.mode # "stream" /\ Target \in Nat
        /\ Len(plain) \in 0 .. Target /\ Len(plain) < Target
        /\ plain = Sent(trial, Len(plain))
    BY TrialShape DEF ShInv, DecryptChunk, Target
  <1>2. PICK k \in Nat : /\ counter = SentCounter(trial, k)
                         /\ Len(plain) = k * ChunkLen
    BY <1>1 DEF ShInv, DecryptChunk, BetweenChunks
  <1>3. m \in 0 .. ChunkLen /\ k * ChunkLen \in Nat /\ k + 1 \in Nat
    BY <1>1, Positive
  <1>4. plain' = Sent(trial, k * ChunkLen + m)
    <2>1. plain' = plain \o [j \in 1 .. m |-> <<counter, j>>]
      BY DEF DecryptChunk
    <2>2. plain = Sent(trial, k * ChunkLen)
      BY <1>1, <1>2
    <2> HIDE DEF m
    <2> QED BY <1>1, <1>2, <1>3, <2>1, <2>2, SentChunk
  <1>5. Len(plain') = k * ChunkLen + m
    <2>1. k * ChunkLen + m \in Nat
      BY <1>3, Positive
    <2> HIDE DEF m
    <2> QED BY <1>1, <1>4, <2>1, SentType
  <1>6. counter' = SentCounter(trial, k + 1) /\ counter' \in Counters
    <2>1. counter' = NextCounter(trial, counter)
      BY DEF DecryptChunk
    <2> QED BY <1>1, <1>2, <1>3, <2>1, FollowingCounter, SentCounterType
  <1>7. (k + 1) * ChunkLen = k * ChunkLen + ChunkLen
    BY Positive
  <1>8. Len(plain') = (k + 1) * ChunkLen \/ Len(plain') = Target
    <2>1. CASE rest < ChunkLen
      BY <1>1, <1>2, <1>3, <1>5, <2>1
    <2>2. CASE ~(rest < ChunkLen)
      BY <1>5, <1>7, <2>2
    <2> QED BY <2>1, <2>2
  <1>9. Len(plain') \in 0 .. Target
    BY <1>1, <1>2, <1>3, <1>5, Positive
  <1> QED BY <1>3, <1>4, <1>5, <1>6, <1>8, <1>9

\* Every step keeps the invariant.
LEMMA NextShInv == ShInv /\ [Next]_vars => ShInv'
  <1> SUFFICES ASSUME ShInv, [Next]_vars PROVE ShInv'
    OBVIOUS
  <1>1. /\ trial' = trial /\ trial \in Trials
        /\ HeadLen(trial) \in 1 .. trial.len /\ trial.len \in Nat \ {0}
    <2>1. trial' = trial
      BY DEF Next, CheckGcmTag, CheckPolyTag, TagVerdict, StartHead, DecryptChunk,
             EndHead, XorHead, Miss, StartFull, EndFull, XorFull, Done, vars
    <2> QED BY <2>1, TrialShape DEF ShInv
  <1>2. ASSUME NEW n
        PROVE  /\ (Decrypted(trial, n) = Decrypted(trial, n)')
               /\ (Sent(trial, n) = Sent(trial, n)')
               /\ (HeadLen(trial) = HeadLen(trial)')
               /\ \A h : Accepted(trial, h) = Accepted(trial, h)'
    BY <1>1
  <1>3. CASE CheckGcmTag \/ CheckPolyTag
    BY <1>1, <1>2, <1>3 DEF CheckGcmTag, CheckPolyTag, TagVerdict, ShInv
  <1>4. CASE StartHead
    <2>1. /\ pc = "start" /\ pc' = "head" /\ trial.tag = "none" /\ trial.mode # "stream"
          /\ counter' = InitialCounter(trial) /\ plain' = <<>>
          /\ match' = "none" /\ head' = <<>>
      BY <1>4 DEF StartHead, ShInv
    <2>2. Target' \in Nat
      BY <1>1, <2>1 DEF Target
    <2>3. /\ counter' \in Counters
          /\ (Len(plain) \in 0 .. Target)'
          /\ (plain = Sent(trial, Len(plain)))'
          /\ BetweenChunks(Target)'
      BY <1>1, <2>1, <2>2, StartChunks
    <2> QED BY <1>1, <1>2, <2>1, <2>3 DEF ShInv
  <1>5. CASE DecryptChunk
    <2>1. /\ pc \in {"head", "full"} /\ UNCHANGED <<pc, head, match>>
          /\ Target' = Target
      BY <1>1, <1>5 DEF DecryptChunk, Target
    <2>2. /\ counter' \in Counters
          /\ Len(plain') \in 0 .. Target
          /\ plain' = Sent(trial, Len(plain'))
          /\ \E k \in Nat : /\ counter' = SentCounter(trial, k)
                            /\ Len(plain') = k * ChunkLen \/ Len(plain') = Target
      BY <1>5, ChunkKeeps
    <2>3. BetweenChunks(Target)'
      BY <1>1, <2>1, <2>2 DEF BetweenChunks
    <2> QED BY <1>1, <1>2, <2>1, <2>2, <2>3 DEF ShInv
  <1>6. CASE EndHead
    <2>1. /\ pc = "head" /\ pc' = "verify" /\ Target = HeadLen(trial)
          /\ Len(plain) = HeadLen(trial) /\ head' = plain
          /\ UNCHANGED <<counter, plain, match>>
      BY <1>6 DEF EndHead, Target
    <2>2. head' = Decrypted(trial, HeadLen(trial)) /\ trial.mode # "stream"
      BY <2>1 DEF ShInv, Decrypted
    <2> QED BY <1>1, <1>2, <2>1, <2>2 DEF ShInv
  <1>7. CASE XorHead
    <2>1. head' = Decrypted(trial, HeadLen(trial))
      BY <1>7 DEF XorHead, Decrypted
    <2> QED BY <1>1, <1>2, <1>7, <2>1 DEF XorHead, ShInv
  <1>8. CASE Miss
    BY <1>1, <1>2, <1>8 DEF Miss, ShInv
  <1>9. CASE StartFull
    <2>1. /\ pc = "verify" /\ pc' = "full" /\ trial.tag = "none" /\ trial.mode # "stream"
          /\ counter' = InitialCounter(trial) /\ plain' = <<>>
          /\ Accepted(trial, head) /\ match' = "none" /\ head' = head
      BY <1>9 DEF StartFull, ShInv
    <2>2. Target' \in Nat
      BY <1>1, <2>1 DEF Target
    <2>3. /\ counter' \in Counters
          /\ (Len(plain) \in 0 .. Target)'
          /\ (plain = Sent(trial, Len(plain)))'
          /\ BetweenChunks(Target)'
      BY <1>1, <2>1, <2>2, StartChunks
    <2> QED BY <1>1, <1>2, <2>1, <2>3 DEF ShInv
  <1>10. CASE EndFull
    <2>1. /\ pc = "full" /\ pc' = "done" /\ Target = trial.len
          /\ Len(plain) = trial.len /\ match' = "oracle"
          /\ UNCHANGED <<counter, plain, head>>
      BY <1>10 DEF EndFull, Target
    <2>2. plain = Decrypted(trial, trial.len)
      BY <2>1 DEF ShInv, Decrypted
    <2> QED BY <1>1, <1>2, <2>1, <2>2 DEF ShInv
  <1>11. CASE XorFull
    <2>1. plain' = Decrypted(trial, trial.len)
      BY <1>11 DEF XorFull, Decrypted
    <2> QED BY <1>1, <1>2, <1>11, <2>1 DEF XorFull, ShInv
  <1>12. CASE Done \/ UNCHANGED vars
    BY <1>1, <1>2, <1>12 DEF Done, vars, ShInv, BetweenChunks, Target
  <1> QED BY <1>3, <1>4, <1>5, <1>6, <1>7, <1>8, <1>9, <1>10, <1>11, <1>12 DEF Next

-----------------------------------------------------------------------------
(* What the invariant implies. *)

\* The plaintext so far is a string of keystream no longer than the ciphertext.
LEMMA PlainShape ==
  ASSUME ShInv
  PROVE  \E n \in 0 .. trial.len :
           plain = Sent(trial, n) \/ (trial.mode = "stream" /\ plain = Keystream(n))
  <1>1. /\ trial \in Trials /\ trial.len \in Nat \ {0}
        /\ HeadLen(trial) \in 1 .. trial.len /\ Sent(trial, 0) = <<>>
    BY TrialShape, BeforeChunks DEF ShInv
  <1>2. CASE pc = "start"
    BY <1>1, <1>2 DEF ShInv
  <1>3. CASE pc \in {"head", "full"}
    <2>1. Len(plain) \in 0 .. trial.len
      BY <1>1, <1>3 DEF ShInv, Target
    <2> QED BY <1>3, <2>1 DEF ShInv
  <1>4. CASE pc = "verify"
    BY <1>1, <1>4 DEF ShInv, Decrypted
  <1>5. CASE pc = "done"
    BY <1>1, <1>5 DEF ShInv, Decrypted
  <1> QED BY <1>2, <1>3, <1>4, <1>5 DEF ShInv

\* What is decrypted is as long as what it was decrypted from, and its first
\* bytes are what these decrypt to.
LEMMA DecryptedPrefix ==
  ASSUME NEW t \in Trials, NEW n \in Nat, NEW m \in 0 .. n
  PROVE  /\ Len(Decrypted(t, m)) = m
         /\ SubSeq(Decrypted(t, n), 1, m) = Decrypted(t, m)
  <1> DEFINE s == Decrypted(t, n)
             u == Decrypted(t, m)
  <1>1. m \in Nat
    OBVIOUS
  <1>2. /\ s \in Seq(Byte) /\ Len(s) = n /\ u \in Seq(Byte) /\ Len(u) = m
        /\ \A i \in 1 .. m : s[i] = u[i]
    <2>1. \A i \in 1 .. m : i \in 1 .. n
      OBVIOUS
    <2>2. CASE t.mode = "stream"
      BY <1>1, <2>1, <2>2, KeystreamType DEF Decrypted
    <2>3. CASE t.mode # "stream"
      BY <1>1, <2>1, <2>3, SentType DEF Decrypted
    <2> QED BY <2>2, <2>3
  <1> HIDE DEF s, u
  <1>3. SubSeq(s, 1, m) = u
    BY <1>1, <1>2
  <1> QED BY <1>2, <1>3 DEF s, u

\* The invariant gives the types.
LEMMA ShInvType == ShInv => ShTypeOK
  <1> SUFFICES ASSUME ShInv PROVE ShTypeOK
    OBVIOUS
  <1>1. trial \in Trials /\ trial.len \in Nat /\ HeadLen(trial) \in 0 .. trial.len
    BY TrialShape DEF ShInv
  <1>2. Len(plain) <= trial.len
    <2>1. PICK n \in 0 .. trial.len :
            plain = Sent(trial, n) \/ (trial.mode = "stream" /\ plain = Keystream(n))
      BY PlainShape
    <2>2. n \in Nat
      BY <1>1
    <2>3. Len(Sent(trial, n)) = n /\ Len(Keystream(n)) = n
      BY <1>1, <2>2, SentType, KeystreamType
    <2> QED BY <1>1, <2>1, <2>3
  <1>3. Len(Decrypted(trial, HeadLen(trial))) = HeadLen(trial)
    <2>1. HeadLen(trial) \in Nat /\ HeadLen(trial) \in 0 .. HeadLen(trial)
      BY <1>1
    <2> QED BY <1>1, <2>1, DecryptedPrefix
  <1>4. head = <<>> \/ Len(head) = HeadLen(trial)
    BY <1>3 DEF ShInv
  <1>5. match \in {"none", "tag", "oracle"}
    BY DEF ShInv
  <1> QED BY <1>2, <1>4, <1>5 DEF ShInv, ShTypeOK

\* The invariant tells the two verdicts of a tag from the oracles'.
LEMMA ShInvTag == ShInv => TagDecides
  BY DEF ShInv, TagDecides

\* The head is a prefix of a hit.
LEMMA ShInvPrefix == ShInv => HeadIsPrefix
  <1> SUFFICES ASSUME ShInv, pc = "done", match = "oracle"
               PROVE  SubSeq(plain, 1, Len(head)) = head
    BY DEF HeadIsPrefix, Hit
  <1>1. trial \in Trials /\ trial.len \in Nat /\ HeadLen(trial) \in 0 .. trial.len
    BY TrialShape DEF ShInv
  <1>2. head = Decrypted(trial, HeadLen(trial)) /\ plain = Decrypted(trial, trial.len)
    BY DEF ShInv
  <1> QED BY <1>1, <1>2, DecryptedPrefix

\* The head of the right key is the sender's, so the oracle is asked about it.
LEMMA ShInvKept == ShInv => StreamKeyKept
  <1> SUFFICES ASSUME ShInv, pc = "done", trial.key, SameStart,
                      IF trial.tag = "none" THEN trial.accepts ELSE trial.tag = "match"
               PROVE  Hit /\ plain = Sent(trial, trial.len)
    BY DEF StreamKeyKept
  <1>1. trial \in Trials /\ trial.len \in Nat /\ HeadLen(trial) \in 0 .. trial.len
    BY TrialShape DEF ShInv
  <1>2. CASE trial.tag # "none"
    BY <1>2 DEF ShInv, Hit
  <1>3. CASE trial.tag = "none"
    <2>1. ASSUME NEW n \in Nat PROVE Decrypted(trial, n) = Sent(trial, n)
      <3>1. CASE trial.mode = "stream"
        <4>1. trial.sender # "aead"
          BY <1>3, <3>1 DEF SameStart
        <4>2. ASSUME NEW i \in 1 .. n
              PROVE  SentByte(trial, i) =
                       <<(i - 1) \div StreamChunk, ((i - 1) % StreamChunk) + 1>>
          <5>1. (i - 1) \div StreamChunk \in Nat
            BY Positive, DivMod
          <5> QED BY <3>1, <4>1, <5>1 DEF SentByte
        <4> QED BY <3>1, <4>2 DEF Decrypted, Sent, Keystream
      <3>2. CASE trial.mode # "stream"
        BY <3>2 DEF Decrypted
      <3> QED BY <3>1, <3>2
    <2>2. HeadLen(trial) \in Nat /\ HeadLen(trial) \in 0 .. HeadLen(trial)
      BY <1>1
    <2>3. Len(Decrypted(trial, HeadLen(trial))) = HeadLen(trial)
      BY <1>1, <2>2, DecryptedPrefix
    <2>4. head = Sent(trial, Len(head))
      BY <1>3, <2>1, <2>2, <2>3 DEF ShInv
    <2>5. Accepted(trial, head)
      BY <1>3, <2>4 DEF Accepted
    <2>6. match = "oracle" /\ plain = Decrypted(trial, trial.len)
      BY <1>3, <2>5 DEF ShInv
    <2> QED BY <1>1, <2>1, <2>6 DEF Hit
  <1> QED BY <1>2, <1>3

-----------------------------------------------------------------------------
(* Keystream is not used twice. *)

\* A byte is determined by its block and its place in it.
LEMMA SamePlace ==
  ASSUME NEW c \in Nat \ {0}, NEW i \in Nat \ {0}, NEW j \in Nat \ {0},
         (i - 1) \div c = (j - 1) \div c, (i - 1) % c = (j - 1) % c
  PROVE  i = j
  <1>1. i - 1 \in Nat /\ j - 1 \in Nat
    OBVIOUS
  <1>2. /\ i - 1 = ((i - 1) \div c) * c + ((i - 1) % c)
        /\ j - 1 = ((j - 1) \div c) * c + ((j - 1) % c)
    BY <1>1, DivMod
  <1>3. i - 1 = j - 1
    BY <1>2
  <1> QED BY <1>3

\* The block of a byte is one of those that the ciphertext has.
LEMMA BlockBound ==
  ASSUME NEW n \in Nat, NEW i \in 1 .. n
  PROVE  (i - 1) \div ChunkLen \in 0 .. Chunks(n) - 1 /\ Chunks(n) \in Nat
  <1>1. (i - 1) \in Nat /\ (i - 1) \div ChunkLen \in Nat /\ (i - 1) % ChunkLen \in 0 .. ChunkLen - 1
        /\ i - 1 = ((i - 1) \div ChunkLen) * ChunkLen + ((i - 1) % ChunkLen)
    BY Positive, DivMod
  <1>2. n + ChunkLen - 1 \in Nat /\ (i - 1) + ChunkLen <= n + ChunkLen - 1
    BY Positive
  <1>3. ((i - 1) + ChunkLen) \div ChunkLen = ((i - 1) \div ChunkLen) + 1
    <2> DEFINE q == (i - 1) \div ChunkLen
               r == (i - 1) % ChunkLen
    <2>1. q \in Nat /\ r \in 0 .. ChunkLen - 1 /\ i - 1 = q * ChunkLen + r
      BY <1>1
    <2> HIDE DEF q, r
    <2>2. (i - 1) + ChunkLen = (q + 1) * ChunkLen + r /\ q + 1 \in Nat
      <3>1. (q + 1) * ChunkLen = q * ChunkLen + ChunkLen /\ q * ChunkLen \in Nat
        BY <2>1, Positive
      <3> QED BY <2>1, <3>1, Positive
    <2>3. ((q + 1) * ChunkLen + r) \div ChunkLen = q + 1
      BY <2>1, <2>2, Positive, DivModUnique
    <2> QED BY <2>2, <2>3 DEF q
  <1>4. (i - 1) + ChunkLen \in Nat
    BY <1>1, Positive
  <1>5. ((i - 1) + ChunkLen) \div ChunkLen <= (n + ChunkLen - 1) \div ChunkLen
    BY <1>2, <1>4, Positive, DivMonotone
  <1>6. (n + ChunkLen - 1) \div ChunkLen \in Nat
    BY <1>2, Positive, DivMod
  <1> QED BY <1>1, <1>3, <1>5, <1>6 DEF Chunks

\* Below the limits of the modes, two blocks have different counters, and none
\* of GCM has the one the tag is made with.
LEMMA CountersDiffer ==
  ASSUME NEW t \in Trials, t.mode # "stream", NEW N \in Nat,
         IF t.mode = "gcm" THEN N <= GcmMax ELSE N <= BlockSpan,
         NEW k \in 0 .. N - 1
  PROVE  /\ t.mode = "gcm" => SentCounter(t, k) # GcmJ0(t.nonce)
         /\ \A l \in 0 .. N - 1 : SentCounter(t, k) = SentCounter(t, l) => k = l
  <1>1. CASE t.mode = "gcm"
    <2> DEFINE n == t.nonce
    <2>1. n \in 0 .. NonceSpan - 1
      BY <1>1, TrialShape
    <2>2. ASSUME NEW l \in 0 .. N - 1
          PROVE  /\ l + 2 \in 0 .. CounterSpan - 1
                 /\ SentCounter(t, l) = n * CounterSpan + (l + 2)
      <3>1. l + 2 \in 0 .. CounterSpan - 1
        BY <1>1, Positive DEF GcmMax
      <3>2. (l + 2) % CounterSpan = l + 2
        BY <3>1, Positive, ModSmall
      <3> QED BY <1>1, <3>1, <3>2 DEF SentCounter
    <2>3. n * CounterSpan \in Nat
      BY <2>1, Positive
    <2> QED BY <1>1, <2>2, <2>3 DEF GcmJ0
  <1>2. CASE t.mode = "ctr"
    <2> DEFINE a == t.nonce
    <2>1. a \in 0 .. BlockSpan - 1
      BY <1>2, TrialShape
    <2> SUFFICES ASSUME NEW l \in 0 .. N - 1, (a + k) % BlockSpan = (a + l) % BlockSpan
                 PROVE  k = l
      BY <1>2 DEF SentCounter
    <2> DEFINE W(x) == IF x < BlockSpan THEN x ELSE x - BlockSpan
    <2>2. ASSUME NEW x \in 0 .. BlockSpan + BlockSpan - 1
          PROVE  x % BlockSpan = W(x)
      <3>1. CASE x < BlockSpan
        BY <3>1, Positive, ModSmall
      <3>2. CASE x >= BlockSpan
        <4> DEFINE q == 1
                   y == x - BlockSpan
        <4>1. q \in Nat /\ y \in 0 .. BlockSpan - 1 /\ x = q * BlockSpan + y
          BY <3>2, Positive
        <4> HIDE DEF q, y
        <4>2. (q * BlockSpan + y) % BlockSpan = y
          BY ZenonT(40), <4>1, Positive, DivModUnique
        <4>3. W(x) = y
          BY <3>2, Positive DEF y
        <4> QED BY <4>1, <4>2, <4>3
      <3> QED BY <3>1, <3>2, Positive
    <2>3. /\ a + k \in 0 .. BlockSpan + BlockSpan - 1
          /\ a + l \in 0 .. BlockSpan + BlockSpan - 1
      BY <1>2, <2>1, Positive
    <2>4. W(a + k) = W(a + l)
      BY <2>2, <2>3
    <2>5. k \in 0 .. BlockSpan - 1 /\ l \in 0 .. BlockSpan - 1 /\ BlockSpan \in Nat
      BY <1>2, Positive
    <2> QED BY <2>1, <2>4, <2>5
  <1> QED BY <1>1, <1>2, TrialShape

\* What is decrypted uses each byte of keystream once.
LEMMA ShInvFresh == ShInv => CounterFresh
  <1> SUFFICES ASSUME ShInv PROVE CounterFresh
    OBVIOUS
  <1>1. trial \in Trials /\ trial.len \in Nat
    BY TrialShape DEF ShInv
  <1>2. PICK n \in 0 .. trial.len :
          plain = Sent(trial, n) \/ (trial.mode = "stream" /\ plain = Keystream(n))
    BY PlainShape
  <1>3. n \in Nat /\ Chunks(trial.len) \in Nat
    <2>1. trial.len \in 1 .. trial.len
      BY <1>1, TrialShape
    <2> QED BY <1>1, <2>1, BlockBound
  <1>4. CASE trial.mode = "stream"
    <2> DEFINE d == IF plain = Keystream(n) THEN 0 ELSE IF trial.sender = "aead" THEN 1 ELSE 0
    <2>1. DOMAIN plain = 1 .. n /\
          \A i \in 1 .. n : plain[i] =
             <<((i - 1) \div StreamChunk) + d, ((i - 1) % StreamChunk) + 1>>
      <3>1. \A i \in 1 .. n : (i - 1) \div StreamChunk \in Nat
        BY Positive, DivMod
      <3>2. CASE plain = Keystream(n)
        BY <3>1, <3>2 DEF Keystream
      <3>3. CASE plain # Keystream(n)
        BY <1>2, <1>4, <3>3 DEF Sent, SentByte
      <3> QED BY <3>2, <3>3
    <2>2. d \in Nat
      OBVIOUS
    <2> HIDE DEF d
    <2>3. ASSUME NEW i \in 1 .. n, NEW j \in 1 .. n, plain[i] = plain[j]
          PROVE  i = j
      <3>4. i - 1 \in Nat /\ j - 1 \in Nat
        OBVIOUS
      <3>5. ASSUME NEW a \in Nat
            PROVE  a \div StreamChunk \in Nat /\ a % StreamChunk \in Nat
        BY Positive, DivMod
      <3>1. /\ (i - 1) \div StreamChunk \in Nat /\ (i - 1) % StreamChunk \in Nat
            /\ (j - 1) \div StreamChunk \in Nat /\ (j - 1) % StreamChunk \in Nat
        BY <3>4, <3>5
      <3>2. /\ ((i - 1) \div StreamChunk) + d = ((j - 1) \div StreamChunk) + d
            /\ ((i - 1) % StreamChunk) + 1 = ((j - 1) % StreamChunk) + 1
        BY <2>1, <2>3
      <3>3. /\ (i - 1) \div StreamChunk = (j - 1) \div StreamChunk
            /\ (i - 1) % StreamChunk = (j - 1) % StreamChunk
        BY <2>2, <3>1, <3>2
      <3>6. i \in Nat \ {0} /\ j \in Nat \ {0}
        OBVIOUS
      <3> QED BY <3>3, <3>6, Positive, SamePlace
    <2> QED BY <1>4, <2>1, <2>3 DEF CounterFresh
  <1>5. CASE trial.mode # "stream"
    <2> DEFINE K(i) == (i - 1) \div ChunkLen
    <2>1. DOMAIN plain = 1 .. n /\
          \A i \in 1 .. n : plain[i] = <<SentCounter(trial, K(i)), ((i - 1) % ChunkLen) + 1>>
      BY <1>2, <1>5 DEF Sent, SentByte
    <2>2. ASSUME NEW i \in 1 .. n
          PROVE  /\ K(i) \in 0 .. Chunks(trial.len) - 1 /\ K(i) \in Nat
                 /\ i - 1 \in Nat /\ (i - 1) % ChunkLen \in Nat
      <3>1. i \in 1 .. trial.len
        BY <1>1
      <3> QED BY <1>1, <3>1, BlockBound, Positive, DivMod
    <2>3. ASSUME trial.mode = "gcm", NEW i \in 1 .. n
          PROVE  plain[i][1] \div CounterSpan = trial.nonce
      <3>1. (K(i) + 2) % CounterSpan \in 0 .. CounterSpan - 1
        <4>1. K(i) + 2 \in Nat
          BY <2>2
        <4> HIDE DEF K
        <4> QED BY <4>1, Positive, DivMod
      <3>2. trial.nonce \in 0 .. NonceSpan - 1
        BY <1>1, <2>3, TrialShape
      <3> HIDE DEF K
      <3>3. SentCounter(trial, K(i)) =
              trial.nonce * CounterSpan + ((K(i) + 2) % CounterSpan)
        BY <2>3 DEF SentCounter
      <3> QED BY <2>1, <3>1, <3>2, <3>3, GcmCounter
    <2> HIDE DEF K
    <2>4. ASSUME IF trial.mode = "gcm" THEN Chunks(trial.len) <= GcmMax
                                       ELSE Chunks(trial.len) <= BlockSpan
          PROVE  /\ trial.mode = "gcm" =>
                      \A i \in 1 .. n : plain[i][1] # GcmJ0(trial.nonce)
                 /\ \A i, j \in 1 .. n : plain[i] = plain[j] => i = j
      <3>1. ASSUME NEW i \in 1 .. n, NEW j \in 1 .. n, plain[i] = plain[j]
            PROVE  i = j
        <4>1. /\ SentCounter(trial, K(i)) = SentCounter(trial, K(j))
              /\ ((i - 1) % ChunkLen) + 1 = ((j - 1) % ChunkLen) + 1
          BY <2>1, <3>1
        <4>2. K(i) = K(j)
          BY <1>1, <1>3, <1>5, <2>2, <2>4, <4>1, CountersDiffer
        <4>3. (i - 1) % ChunkLen = (j - 1) % ChunkLen
          BY <2>2, <4>1
        <4>4. i \in Nat \ {0} /\ j \in Nat \ {0}
          OBVIOUS
        <4> QED BY <4>2, <4>3, <4>4, Positive, SamePlace DEF K
      <3>2. ASSUME trial.mode = "gcm", NEW i \in 1 .. n
            PROVE  plain[i][1] # GcmJ0(trial.nonce)
        <4>1. SentCounter(trial, K(i)) # GcmJ0(trial.nonce)
          BY <1>1, <1>3, <1>5, <2>2, <2>4, <3>2, CountersDiffer
        <4> QED BY <2>1, <4>1
      <3> QED BY <3>1, <3>2
    <2>5. trial.mode \in {"ctr", "gcm"}
      BY <1>1, <1>5, TrialShape
    <2> QED BY <2>1, <2>3, <2>4, <2>5 DEF CounterFresh
  <1> QED BY <1>4, <1>5

-----------------------------------------------------------------------------
(* The theorems. *)

\* The state of a window is what its place in the code determines.
THEOREM ShInvariant == Spec => []ShInv
  <1>1. Init => ShInv
    BY InitShInv
  <1>2. ShInv /\ [Next]_vars => ShInv'
    BY NextShInv
  <1> QED BY <1>1, <1>2, PTL DEF Spec

\* Every variable has its type, and a counter its width.
THEOREM ShTypeCorrect == Spec => []ShTypeOK
  <1> QED BY ShInvariant, ShInvType, PTL

\* The right key is not lost, whatever the counter wraps over, and its hit is
\* the message.
THEOREM StreamKeyKeptAlways == Spec => []StreamKeyKept
  <1> QED BY ShInvariant, ShInvKept, PTL

\* The head an oracle has accepted is the head of the plaintext reported.
THEOREM HeadIsPrefixAlways == Spec => []HeadIsPrefix
  <1> QED BY ShInvariant, ShInvPrefix, PTL

\* No byte of keystream is used twice, and in GCM none of another nonce or of
\* the tag.
THEOREM CounterFreshAlways == Spec => []CounterFresh
  <1> QED BY ShInvariant, ShInvFresh, PTL

\* With a tag the hit depends on nothing else.
THEOREM TagDecidesAlways == Spec => []TagDecides
  <1> QED BY ShInvariant, ShInvTag, PTL
=============================================================================
