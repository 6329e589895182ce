---------------------------- MODULE MCScanEngine ----------------------------
(***************************************************************************)
(* Instances of ScanEngine for TLC.  Dump, key, block and ciphertext       *)
(* lengths are in units of 8 bytes (a block of DES); the lengths of nonce, *)
(* tag and aad stay in bytes.                                              *)
(***************************************************************************)
EXTENDS ScanEngine

MCKeyLen ==
  [c \in Ciphers |-> CASE c = "des" -> 1
                       [] c \in {"aes128", "sm4"} -> 2
                       [] c \in {"aes192", "tdes"} -> 3
                       [] OTHER -> 4]

MCBlockLen ==
  [c \in BlockCiphers |-> IF c \in {"des", "tdes"} THEN 1 ELSE 2]

Request(ciphers, maxHits, dumpLen, match) ==
  [ciphers |-> ciphers, mode |-> "block", fixedIv |-> None, nonce |-> None,
   tag |-> None, aad |-> None, oracles |-> 1, ctLen |-> 2,
   maxHits |-> maxHits, dumpLen |-> dumpLen, match |-> match]

\* All windows of the ciphers of a list.
AllWindows(ciphers, dumpLen) ==
  UNION {{c} \X {o \in 0 .. dumpLen - 1 : o + MCKeyLen[c] <= dumpLen} :
           c \in {ciphers[i] : i \in DOMAIN ciphers}}
=============================================================================
