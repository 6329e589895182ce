------------------------------ MODULE ScanInput ------------------------------
(***************************************************************************)
(* The input of one call of `scan` and what it means for each cipher of    *)
(* the list.  A request is a configuration (CipherConfig) with             *)
(*   maxHits  ScanConfig::max_hits, 0 for no limit                         *)
(*   oracles  the number of oracles passed                                 *)
(*   dumpLen  the length of the memory dump                                *)
(*   ctLen    the length of the ciphertext                                 *)
(*   match    the <<cipher, offset>> pairs whose window of the dump is a   *)
(*            key that the cipher's hunt function turns into a hit.  The   *)
(*            decision depends only on the bytes of the window and on the  *)
(*            request (the hunts share no state but `tried` and `stop`),   *)
(*            so a set of pairs stands for it.                             *)
(***************************************************************************)
EXTENDS CipherConfig

CONSTANTS Requests,   \* the calls considered
          KeyLen,     \* key length of each cipher
          BlockLen    \* block length of each block cipher

\* A key and a block are never empty (cipher_adapter.rs).
ASSUME LengthsAssumption ==
  /\ KeyLen \in [Ciphers -> Nat \ {0}]
  /\ BlockLen \in [BlockCiphers -> Nat \ {0}]

\* Every request is a record of the shape above.
ASSUME RequestsAssumption ==
  \A r \in Requests :
    /\ r.ciphers \in Seq(Ciphers)
    /\ r.mode \in Modes
    /\ {r.fixedIv, r.nonce, r.tag, r.aad} \subseteq Nat \cup {None}
    /\ {r.maxHits, r.oracles, r.dumpLen, r.ctLen} \subseteq Nat
    /\ r.match \subseteq Ciphers \X Nat

-----------------------------------------------------------------------------
\* The number of key-sized windows of the dump for the i-th cipher
\* (dump.par_windows(key_len)).
Windows(r, i) ==
  LET k == KeyLen[r.ciphers[i]]
  IN  IF r.dumpLen >= k THEN r.dumpLen - k + 1 ELSE 0

\* The window at offset o of the i-th cipher's pass is a hit.
Matches(r, i, o) ==
  /\ o < Windows(r, i)
  /\ <<r.ciphers[i], o>> \in r.match

IsStream(r, i) == r.ciphers[i] \in StreamCiphers

\* validate_config, then the oracle check at the head of `scan`: a tag
\* replaces the oracles, but only in GCM mode.
Accepts(r) ==
  /\ ValidateConfig(r)
  /\ r.oracles > 0 \/ (r.mode = "gcm" /\ r.tag # None)

\* `continue`: a block cipher whose key is longer than the dump.
Skips(r, i) == ~IsStream(r, i) /\ Windows(r, i) = 0

\* split_blocks fails: no block, or a last block that is not whole.
RejectsBlocks(r, i) ==
  \/ r.ctLen = 0
  \/ r.ctLen % BlockLen[r.ciphers[i]] # 0

\* The fixed IV is not one block of this cipher.
RejectsIv(r, i) ==
  /\ r.fixedIv # None
  /\ r.fixedIv # BlockLen[r.ciphers[i]]

\* The early `Err` returns of the loop body for the i-th cipher.  They come
\* after the `continue` above: a skipped cipher checks nothing.
Rejects(r, i) ==
  /\ ~Skips(r, i)
  /\ \/ r.ctLen = 0
     \/ /\ ~IsStream(r, i)
        /\ r.mode = "block"
        /\ RejectsBlocks(r, i) \/ RejectsIv(r, i)
=============================================================================
