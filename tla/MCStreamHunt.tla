---------------------------- MODULE MCStreamHunt ----------------------------
(***************************************************************************)
(* Instances of StreamHunt for TLC: counters of four bits of which GCM     *)
(* owns three, blocks of two bytes, ciphertexts of one byte up to more     *)
(* blocks than GCM has counters.                                           *)
(***************************************************************************)
EXTENDS StreamHunt

Lens == {1, 2, 3, 4, 5, 6, 11, 12, 13, 14, 17, 32, 33}

Judged(mode, nonces, lens, tags) ==
  [mode : {mode}, nonce : nonces, len : lens, tag : tags,
   accepts : BOOLEAN, garbage : BOOLEAN, key : BOOLEAN, sender : {"raw", "aead"}]

\* A tag comes from a sender of tags and fits only the key; GCM always has one.
Possible(t) ==
  /\ t.mode = "ctr" => t.sender = "raw"
  /\ t.mode = "gcm" => t.sender = "aead"
  /\ t.tag # "none" => t.sender = "aead"
  /\ t.tag = "match" => t.key /\ (t.mode = "gcm" => Chunks(t.len) <= GcmMax)

StreamTrials ==
  {t \in Judged("ctr", Counters, Lens, {"none"})
         \cup Judged("gcm", 0 .. 1, Lens, {"none", "match", "mismatch"})
         \cup Judged("stream", {0}, Lens, {"none", "match", "mismatch"}) :
     Possible(t)}
=============================================================================
