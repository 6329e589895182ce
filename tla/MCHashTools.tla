----------------------------- MODULE MCHashTools -----------------------------
(***************************************************************************)
(* Instances of HashTools for TLC.  Lengths are small; the digest lengths  *)
(* are the real ones.                                                      *)
(***************************************************************************)
EXTENDS HashTools

MCFixedLens == <<1, 3>>

Given(by, kind, algos, digest, min, max, maxHits, dump, match) ==
  [by |-> by, kind |-> kind, algos |-> algos, readable |-> TRUE,
   digest |-> digest, min |-> min, max |-> max, maxHits |-> maxHits,
   dump |-> dump, match |-> match]

Lists == {<<"md5">>, <<"sha256">>, <<"sha256", "sm3">>, <<"sm3", "md5">>,
          <<"sha256", "sha256">>, <<"other">>, <<"md5", "other">>}

\* What decides before and between the passes: lists, digests and ranges that
\* fit and that do not.
CheckUses ==
  {[Given(by, kind, l, digest, r[1], r[2], m, d, s) EXCEPT !.readable = b] :
     by \in {"cli", "mcp"}, kind \in {"preimage", "hmac"}, l \in Lists,
     digest \in {0, 16, 32}, r \in {<<0, 1>>, <<1, 1>>, <<2, 1>>},
     m \in {0, 1}, d \in 0 .. 1, b \in BOOLEAN,
     s \in {{}, {<<"sm3", 1, 0>>}}}
  \cup
  {Given("mcp", "preimage", Absent, digest, 1, 1, 0, 1, {}) :
     digest \in {16, 20, 32}}

\* What the threads of a pass can do: lengths with several windows, matches in
\* several lengths and algorithms, and a limit that cuts them.
Matches ==
  {{<<"sha256", 1, 0>>, <<"sha256", 1, 2>>, <<"sha256", 2, 1>>, <<"sm3", 2, 0>>},
   {<<"sha256", 2, 0>>, <<"sha256", 3, 0>>, <<"sha256", 1, 1>>},
   {<<"sm3", 1, 0>>, <<"sm3", 1, 1>>}, {}}

PassUses ==
  {Given("mcp", "preimage", l, 32, r[1], r[2], m, 3, s) :
     l \in {<<"sha256", "sm3">>, <<"sha256", "sha256">>},
     r \in {<<1, 2>>, <<2, 3>>, <<1, 3>>}, m \in 0 .. 3, s \in Matches}
  \cup
  {Given(by, "hmac", <<"sha256">>, 32, r[1], r[2], m, 3, s) :
     by \in {"cli", "mcp"}, r \in {<<1, 2>>, <<2, 2>>, <<3, 2>>, <<4, 5>>},
     m \in 0 .. 1, s \in Matches}

HashUses == CheckUses \cup PassUses
=============================================================================
