----------------------------- MODULE StreamHunt -----------------------------
(***************************************************************************)
(* What `hunt_stream` and `hunt_stream_cipher` (crates/memhunt-core/src/   *)
(* engine.rs) do with one window of the dump: check the tag if there is    *)
(* one, else decrypt the head, ask the oracles, and decrypt all of the     *)
(* ciphertext.  A cipher is a keystream: a byte of it is a pair of a       *)
(* counter and a place in the block that this counter gives, and a byte of *)
(* plaintext is named by the byte of keystream it was xored with.          *)
(*                                                                         *)
(* A trial is a record with                                                *)
(*   mode    "ctr" or "gcm" (AES), "stream" (the ChaCha family)            *)
(*   nonce   the initial counter block of CTR, the nonce of GCM            *)
(*   len     the length of the ciphertext in bytes                         *)
(*   tag     "none", or whether it fits the window: "match", "mismatch"    *)
(*   accepts whether an oracle accepts the head of the message             *)
(*   garbage whether an oracle accepts what anything else decrypts to      *)
(* and, for the properties,                                                *)
(*   key     whether the window is the key                                 *)
(*   sender  "raw", or "aead" when the message was sent with a tag         *)
(***************************************************************************)
EXTENDS Integers, Sequences

CONSTANTS Trials,
          NonceSpan,     \* how many nonces GCM has, 2 ^ 96
          CounterSpan,   \* how many counters under one nonce, 2 ^ 32
          ChunkLen,      \* bytes of a block of AES, 16
          StreamChunk,   \* bytes of a block of ChaCha keystream, 64
          VerifyBlocks   \* blocks the oracles see, 2

\* The counter block as a number: the nonce in the high bits, the counter of
\* GCM in the low ones.
BlockSpan == NonceSpan * CounterSpan

Counters == 0 .. BlockSpan - 1

\* GCM encrypts no more blocks than this under one nonce.
GcmMax == CounterSpan - 2

Chunks(n) == (n + ChunkLen - 1) \div ChunkLen

\* What validate_config and the loop of scan let through; a tag that fits was
\* made by a sender, and with the key.
ASSUME StreamHuntAssumption ==
  /\ {NonceSpan, CounterSpan, ChunkLen, StreamChunk, VerifyBlocks}
       \subseteq Nat \ {0}
  /\ CounterSpan > 2
  /\ \A t \in Trials :
       /\ t.mode \in {"ctr", "gcm", "stream"} /\ t.len \in Nat \ {0}
       /\ t.mode = "ctr" => t.nonce \in Counters /\ t.tag = "none"
       /\ t.mode = "gcm" => t.nonce \in 0 .. NonceSpan - 1
       /\ t.tag = "match" =>
            t.key /\ t.sender = "aead" /\ (t.mode = "gcm" => Chunks(t.len) <= GcmMax)

VARIABLES trial,
          pc,       \* "start", "head", "verify", "full", "done"
          counter,  \* the counter block
          plain,    \* the plaintext so far
          head,     \* the head the oracles saw
          match     \* "none", "tag", "oracle": what the hit was matched by

vars == <<trial, pc, counter, plain, head, match>>

-----------------------------------------------------------------------------
(* The counters. *)

\* The nonce and the number 1 in the low bits.
GcmJ0(n) == n * CounterSpan + 1

\* Wrong variant: without the wrap.
IncrementCounterUnbounded(c) == c + 1

IncrementCounter(c) == (c + 1) % BlockSpan

\* Wrong variant: with a carry into the nonce.
IncrementCounter32Carries(c) == IncrementCounter(c)

\* The low bits only.
IncrementCounter32(c) ==
  (c \div CounterSpan) * CounterSpan + ((c + 1) % CounterSpan)

\* Wrong variant: with J0 itself.
InitialCounterJ0(t) == IF t.mode = "ctr" THEN t.nonce ELSE GcmJ0(t.nonce)

InitialCounter(t) ==
  IF t.mode = "ctr" THEN t.nonce ELSE IncrementCounter32(GcmJ0(t.nonce))

\* Wrong variant: the increment of GCM in CTR too.
NextCounterShort(t, c) == IncrementCounter32(c)

NextCounter(t, c) ==
  IF t.mode = "ctr" THEN IncrementCounter(c) ELSE IncrementCounter32(c)

\* xor_keystream: the adapter's keystream starts at block 0.
Keystream(n) ==
  [i \in 1 .. n |-> <<(i - 1) \div StreamChunk, ((i - 1) % StreamChunk) + 1>>]

\* The keystream of the libraries that check tags, from the block after the
\* one the tag is made with.
SentCounter(t, k) ==
  IF t.mode = "ctr" THEN (t.nonce + k) % BlockSpan
                    ELSE t.nonce * CounterSpan + ((k + 2) % CounterSpan)

SentByte(t, i) ==
  IF t.mode = "stream"
  THEN <<(i - 1) \div StreamChunk + (IF t.sender = "aead" THEN 1 ELSE 0),
         ((i - 1) % StreamChunk) + 1>>
  ELSE <<SentCounter(t, (i - 1) \div ChunkLen), ((i - 1) % ChunkLen) + 1>>

Sent(t, n) == [i \in 1 .. n |-> SentByte(t, i)]

HeadLen(t) ==
  IF VerifyBlocks * ChunkLen < t.len THEN VerifyBlocks * ChunkLen ELSE t.len

\* best_match: what the oracles say of a decrypted head.
Accepted(t, h) ==
  IF t.key /\ h = Sent(t, Len(h)) THEN t.accepts ELSE t.garbage

-----------------------------------------------------------------------------
(* One window. *)

Init ==
  /\ trial \in Trials
  /\ pc = "start" /\ counter = 0 /\ plain = <<>> /\ head = <<>> /\ match = "none"

\* Wrong variant: a tag that does not fit leaves it to the oracles.
CheckGcmTagOrAsk ==
  /\ pc = "start" /\ trial.tag # "none" /\ trial.mode = "gcm"
  /\ match' = CASE trial.tag = "match" -> "tag"
                [] trial.garbage       -> "oracle"
                [] OTHER               -> "none"
  /\ plain' = Sent(trial, trial.len)
  /\ pc' = "done"
  /\ UNCHANGED <<trial, counter, head>>

\* With a tag the library decides, and the oracles are not asked.
TagVerdict ==
  /\ IF trial.tag = "match"
     THEN match' = "tag" /\ plain' = Sent(trial, trial.len)
     ELSE UNCHANGED <<match, plain>>
  /\ pc' = "done"
  /\ UNCHANGED <<trial, counter, head>>

\* decrypt_gcm_tagged.
CheckGcmTag ==
  pc = "start" /\ trial.tag # "none" /\ trial.mode = "gcm" /\ TagVerdict

\* decrypt_poly1305_tagged.
CheckPolyTag ==
  pc = "start" /\ trial.tag # "none" /\ trial.mode = "stream" /\ TagVerdict

StartHead ==
  /\ pc = "start" /\ trial.tag = "none" /\ trial.mode # "stream"
  /\ counter' = InitialCounter(trial)
  /\ pc' = "head"
  /\ UNCHANGED <<trial, plain, head, match>>

\* The bytes to decrypt, of the head or of the whole ciphertext.
Target == IF pc = "head" THEN HeadLen(trial) ELSE trial.len

\* stream_decrypt, one block of keystream; the last chunk may be shorter.
DecryptChunk ==
  /\ pc \in {"head", "full"} /\ Len(plain) < Target
  /\ LET rest == Target - Len(plain)
     IN  plain' = plain \o [j \in 1 .. (IF rest < ChunkLen THEN rest ELSE ChunkLen)
                              |-> <<counter, j>>]
  /\ counter' = NextCounter(trial, counter)
  /\ UNCHANGED <<trial, pc, head, match>>

EndHead ==
  /\ pc = "head" /\ Len(plain) = Target
  /\ head' = plain
  /\ pc' = "verify"
  /\ UNCHANGED <<trial, counter, plain, match>>

XorHead ==
  /\ pc = "start" /\ trial.tag = "none" /\ trial.mode = "stream"
  /\ head' = Keystream(HeadLen(trial))
  /\ pc' = "verify"
  /\ UNCHANGED <<trial, counter, plain, match>>

Miss ==
  /\ pc = "verify" /\ ~Accepted(trial, head)
  /\ pc' = "done"
  /\ UNCHANGED <<trial, counter, plain, head, match>>

\* Wrong variant: goes on with the counter the head has left.
StartFullContinues ==
  /\ pc = "verify" /\ Accepted(trial, head) /\ trial.mode # "stream"
  /\ plain' = <<>>
  /\ pc' = "full"
  /\ UNCHANGED <<trial, counter, head, match>>

\* A second call decrypts from the start.
StartFull ==
  /\ pc = "verify" /\ Accepted(trial, head) /\ trial.mode # "stream"
  /\ counter' = InitialCounter(trial)
  /\ plain' = <<>>
  /\ pc' = "full"
  /\ UNCHANGED <<trial, head, match>>

EndFull ==
  /\ pc = "full" /\ Len(plain) = Target
  /\ match' = "oracle"
  /\ pc' = "done"
  /\ UNCHANGED <<trial, counter, plain, head>>

XorFull ==
  /\ pc = "verify" /\ Accepted(trial, head) /\ trial.mode = "stream"
  /\ plain' = Keystream(trial.len)
  /\ match' = "oracle"
  /\ pc' = "done"
  /\ UNCHANGED <<trial, counter, head>>

Done == pc = "done" /\ UNCHANGED vars

Next ==
  \/ CheckGcmTag \/ CheckPolyTag \/ StartHead \/ DecryptChunk \/ EndHead \/ XorHead
  \/ Miss \/ StartFull \/ EndFull \/ XorFull \/ Done

Spec == Init /\ [][Next]_vars

-----------------------------------------------------------------------------
(* Properties. *)

\* Every variable has its type, and a counter its width.
ShTypeOK ==
  /\ pc \in {"start", "head", "verify", "full", "done"}
  /\ counter \in Counters
  /\ Len(plain) <= trial.len
  /\ head = <<>> \/ Len(head) = HeadLen(trial)
  /\ match \in {"none", "tag", "oracle"}

Hit == pc = "done" /\ match # "none"

\* What the keystream of a window without a tag starts with is what the sender
\* started with: always but for the ChaCha family, whose senders with a tag
\* leave block 0 to it.
SameStart == ~(trial.mode = "stream" /\ trial.sender = "aead" /\ trial.tag = "none")

\* The right key is not lost, whatever the counter wraps over, and its hit is
\* the message: each byte of the ciphertext meets the byte of keystream that it
\* was encrypted with.  (A message of more than GcmMax blocks has no sender.)
StreamKeyKept ==
  /\ pc = "done" /\ trial.key /\ SameStart
  /\ IF trial.tag = "none" THEN trial.accepts ELSE trial.tag = "match"
  => Hit /\ plain = Sent(trial, trial.len)

\* The head an oracle has accepted is the head of the plaintext reported, also
\* when the window is not the key.
HeadIsPrefix ==
  Hit /\ match = "oracle" => SubSeq(plain, 1, Len(head)) = head

\* No byte of keystream is used twice, and in GCM none that belongs to another
\* nonce or to the tag, as long as there are counters left.
CounterFresh ==
  /\ trial.mode = "gcm" =>
       \A i \in DOMAIN plain : plain[i][1] \div CounterSpan = trial.nonce
  /\ trial.mode = "gcm" /\ Chunks(trial.len) <= GcmMax =>
       \A i \in DOMAIN plain : plain[i][1] # GcmJ0(trial.nonce)
  /\ (CASE trial.mode = "gcm" -> Chunks(trial.len) <= GcmMax
        [] trial.mode = "ctr" -> Chunks(trial.len) <= BlockSpan
        [] OTHER              -> TRUE)
     => \A i, j \in DOMAIN plain : plain[i] = plain[j] => i = j

\* With a tag the hit depends on nothing else: no oracle accepts a key whose
\* tag does not fit, or refuses one whose tag does.
TagDecides ==
  pc = "done" /\ trial.tag # "none" =>
    match = IF trial.tag = "match" THEN "tag" ELSE "none"
=============================================================================
