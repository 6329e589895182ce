----------------------------- MODULE CipherList -----------------------------
(***************************************************************************)
(* The --cipher list (engine.rs: CipherChoice::parse_list).  A list is a   *)
(* sequence of tokens, a token is a record with the name and the mode of   *)
(* its suffix ("ctr", "gcm", or "block" for none).  Case, blanks and the   *)
(* spellings of one name are left out: a name of this model stands for all *)
(* of them, and "other" for every word that is no name.                    *)
(***************************************************************************)
EXTENDS CipherConfig, FiniteSets

PlainNames == {"aes128", "aes192", "aes256", "aes", "chacha20", "xchacha20"}
PolyNames  == {"chacha20poly1305", "xchacha20poly1305"}
BlockNames == {"des", "tdes", "sm4", "all"}

TokenNames == PlainNames \cup PolyNames \cup BlockNames \cup {"other"}

Tokens == [name : TokenNames, suffix : Modes]

\* The order of the variants of CipherChoice, which `sort` uses.
CipherOrder == <<"aes128", "aes192", "aes256", "des", "tdes", "sm4",
                 "chacha20", "xchacha20">>

\* The ciphers a name adds.
Expand(name) ==
  CASE name = "aes" -> AesCiphers
    [] name = "all" -> Ciphers
    [] name = "chacha20poly1305" -> {"chacha20"}
    [] name = "xchacha20poly1305" -> {"xchacha20"}
    [] OTHER -> {name}

\* The match on the token: an unknown word, or a block-mode name with a suffix.
Unknown(t) ==
  \/ t.name = "other"
  \/ t.name \in BlockNames /\ t.suffix # "block"

\* The state of the loop over the tokens: no mode before the first.
NoMode == "none"

ParseStart == [mode |-> NoMode, out |-> {}, err |-> FALSE]

\* Wrong variant: each token may bring its own mode.
ParseTokenAnyMode(s, t) ==
  IF s.err \/ Unknown(t)
  THEN [s EXCEPT !.err = TRUE]
  ELSE [s EXCEPT !.mode = IF t.name \in PolyNames THEN "gcm" ELSE t.suffix,
                 !.out = @ \cup Expand(t.name)]

\* One turn of the loop.  A poly1305 name passes as a block-mode token and
\* then sets the mode to GCM.
ParseToken(s, t) ==
  IF s.err \/ s.mode \notin {NoMode, t.suffix} \/ Unknown(t)
  THEN [s EXCEPT !.err = TRUE]
  ELSE [s EXCEPT !.mode = IF t.name \in PolyNames THEN "gcm" ELSE t.suffix,
                 !.out = @ \cup Expand(t.name)]

\* The loop of parse_list, after all tokens.
EndOfLoop(tokens) ==
  LET after[n \in 0 .. Len(tokens)] ==
        IF n = 0 THEN ParseStart ELSE ParseToken(after[n - 1], tokens[n])
  IN  after[Len(tokens)]

\* The place of a cipher in the order of the variants.
Place(c) == CHOOSE n \in DOMAIN CipherOrder : CipherOrder[n] = c

\* sort and dedup: the k-th cipher is the one with k - 1 before it.
Sorted(out) ==
  [k \in 1 .. Cardinality(out) |->
     CHOOSE c \in out : Cardinality({d \in out : Place(d) < Place(c)}) = k - 1]

\* parse_list: the loop, the two checks after it, and the sorted selection.
ParseList(tokens) ==
  LET end == EndOfLoop(tokens)
  IN  [ok |-> /\ ~end.err
              /\ end.out # {}
              /\ end.mode = "block" \/ end.out \subseteq AesCiphers,
       ciphers |-> Sorted(end.out),
       mode |-> end.mode]

-----------------------------------------------------------------------------
(* What the list means, without a loop. *)

\* A list that is accepted: one suffix for all tokens, names that exist with
\* it, AES only in the counter modes, and no poly1305 name.
Acceptable(tokens) ==
  /\ tokens # <<>>
  /\ \E m \in Modes :
       \A i \in DOMAIN tokens :
         /\ tokens[i].suffix = m
         /\ tokens[i].name \notin PolyNames \cup {"other"}
         /\ m = "block" \/ Expand(tokens[i].name) \subseteq AesCiphers

\* The selection of a list depends only on the set of its tokens.
Selected(tokens) ==
  UNION {Expand(tokens[i].name) : i \in DOMAIN tokens}
=============================================================================
