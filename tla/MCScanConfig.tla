---------------------------- MODULE MCScanConfig ----------------------------
(***************************************************************************)
(* Requests over everything that the validation at the head of the call    *)
(* and the checks of the loop tell apart.                                  *)
(***************************************************************************)
EXTENDS MCScanEngine

\* Lists of one and of several ciphers, those the validation refuses included.
CipherLists ==
  {<<>>, <<"aes128">>, <<"des">>, <<"chacha20">>, <<"xchacha20">>,
   <<"aes128", "aes256">>, <<"des", "sm4">>, <<"des", "aes192">>,
   <<"chacha20", "xchacha20">>, <<"aes128", "chacha20">>}

\* Every combination of mode, optional arguments and oracles.
ValidationRequests ==
  {[Request(l, 0, 4, {}) EXCEPT
      !.mode = mode, !.fixedIv = iv, !.nonce = nonce, !.tag = tag,
      !.aad = aad, !.oracles = oracles] :
    l \in CipherLists, mode \in Modes, iv \in {None, 2},
    nonce \in {None, 12, 16, 24}, tag \in {None, 12, 16}, aad \in {None, 0},
    oracles \in {0, 1}}

\* The loop: ciphertext and IV lengths that fit some ciphers of a list and not
\* others, dumps shorter than some keys, a limit that hides a later error.
LoopRequests ==
  {[Request(l, m, d, IF found THEN AllWindows(l, d) ELSE {}) EXCEPT
      !.fixedIv = iv, !.ctLen = ctLen] :
    l \in CipherLists, m \in {0, 1}, d \in {0, 2, 4}, found \in BOOLEAN,
    iv \in {None, 1, 2}, ctLen \in 0 .. 3}

\* The same for a stream cipher and for counter mode.
NonceRequests ==
  {[Request(<<"chacha20">>, 0, d, AllWindows(<<"chacha20">>, d)) EXCEPT
      !.nonce = 12, !.ctLen = ctLen] : d \in 0 .. 4, ctLen \in {0, 1}}
  \cup
  {[Request(<<"aes128", "aes256">>, m, d, {}) EXCEPT
      !.mode = "ctr", !.nonce = 16, !.ctLen = ctLen] :
    m \in {0, 1}, d \in 0 .. 4, ctLen \in {0, 1}}

ConfigRequests == ValidationRequests \cup LoopRequests \cup NonceRequests
=============================================================================
