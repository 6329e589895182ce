---------------------------- MODULE CipherConfig ----------------------------
(***************************************************************************)
(* The ciphers a scan can try and the configurations `scan` accepts        *)
(* (crates/memhunt-core/src/engine.rs: CipherChoice, CipherMode,           *)
(* ScanConfig, validate_config).                                           *)
(*                                                                         *)
(* A configuration is a record with                                        *)
(*   ciphers  the sequence of ciphers to try, in order                     *)
(*   mode     "block", "ctr" or "gcm"                                      *)
(*   fixedIv, nonce, tag, aad                                              *)
(*            the optional byte strings, abstracted to their length:       *)
(*            None when the option is absent.  No check in the code looks  *)
(*            at anything but presence and length.                         *)
(***************************************************************************)
EXTENDS Integers, Sequences

AesCiphers == {"aes128", "aes192", "aes256"}

StreamCiphers == {"chacha20", "xchacha20"}

BlockCiphers == AesCiphers \cup {"des", "tdes", "sm4"}

Ciphers == BlockCiphers \cup StreamCiphers

Modes == {"block", "ctr", "gcm"}

\* Option::None; Option::Some(bytes) is the length of bytes.
None == -1

Uses(cfg, S) == \E i \in DOMAIN cfg.ciphers : cfg.ciphers[i] \in S

UsesOnly(cfg, S) == \A i \in DOMAIN cfg.ciphers : cfg.ciphers[i] \in S

-----------------------------------------------------------------------------
(* Lengths in bytes of what the AEAD and counter constructions take. *)

GcmNonceLen == 12
CtrNonceLen == 16
TagLen      == 16

\* The nonce length of the two stream ciphers (cipher_adapter.rs).
StreamNonceLen(c) == IF c = "xchacha20" THEN 24 ELSE 12

-----------------------------------------------------------------------------
(* validate_config, one operator per branch. *)

\* Wrong variant: forgets that ChaCha20 takes a 12-byte nonce.
AcceptsStreamNoChaChaNonce(cfg) ==
  /\ UsesOnly(cfg, StreamCiphers)
  /\ cfg.fixedIv = None
  /\ cfg.nonce # None
  /\ Uses(cfg, {"xchacha20"}) => cfg.nonce = StreamNonceLen("xchacha20")
  /\ cfg.tag \in {None, TagLen}
  /\ cfg.mode # "ctr"

AcceptsStream(cfg) ==
  /\ UsesOnly(cfg, StreamCiphers)
  /\ cfg.fixedIv = None
  /\ cfg.nonce # None
  /\ \A c \in StreamCiphers : Uses(cfg, {c}) => cfg.nonce = StreamNonceLen(c)
  /\ cfg.tag \in {None, TagLen}
  /\ cfg.mode # "ctr"

AcceptsBlock(cfg) ==
  /\ cfg.mode = "block"
  /\ cfg.nonce = None
  /\ cfg.tag = None
  /\ cfg.aad = None

AcceptsCtr(cfg) ==
  /\ cfg.mode = "ctr"
  /\ cfg.fixedIv = None
  /\ cfg.tag = None
  /\ cfg.aad = None
  /\ cfg.nonce = CtrNonceLen
  /\ UsesOnly(cfg, AesCiphers)

AcceptsGcm(cfg) ==
  /\ cfg.mode = "gcm"
  /\ cfg.fixedIv = None
  /\ cfg.nonce = GcmNonceLen
  /\ \/ cfg.tag = TagLen
     \/ cfg.tag = None /\ cfg.aad = None
  /\ UsesOnly(cfg, AesCiphers)

ValidateConfig(cfg) ==
  IF Uses(cfg, StreamCiphers)
  THEN AcceptsStream(cfg)
  ELSE AcceptsBlock(cfg) \/ AcceptsCtr(cfg) \/ AcceptsGcm(cfg)
=============================================================================
