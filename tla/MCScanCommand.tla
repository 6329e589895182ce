---------------------------- MODULE MCScanCommand ----------------------------
(***************************************************************************)
(* Instances of ScanCommand for TLC, with the scaled lengths of            *)
(* MCScanEngine (units of 8 bytes; nonce, tag and aad in bytes).           *)
(***************************************************************************)
EXTENDS ScanCommand

MCKeyLen ==
  [c \in Ciphers |-> CASE c = "des" -> 1
                       [] c \in {"aes128", "sm4"} -> 2
                       [] c \in {"aes192", "tdes"} -> 3
                       [] OTHER -> 4]

MCBlockLen ==
  [c \in BlockCiphers |-> IF c \in {"des", "tdes"} THEN 1 ELSE 2]

Token(name, suffix) == [name |-> name, suffix |-> suffix]

Plain(name) == <<Token(name, "block")>>

Options(maxHits, dumpLen, ctLen, nonce, tag, match) ==
  [fixedIv |-> None, nonce |-> nonce, tag |-> tag, aad |-> None,
   maxHits |-> maxHits, dumpLen |-> dumpLen, ctLen |-> ctLen, match |-> match]

Invocation(tokens, json, opts) ==
  [tokens |-> tokens, target |-> TRUE, oracle |-> TRUE, hex |-> TRUE,
   dump |-> TRUE, json |-> json, opts |-> opts]

NoKey == Options(0, 2, 2, None, None, {})

\* Every list of one or two tokens, and the lists of three that change the
\* mode on the way.  The dump cannot be read: only the list is of interest.
ParseInvocations ==
  LET lists == UNION {[1 .. n -> Tokens] : n \in 0 .. 2}
                 \cup [1 .. 3 -> {Token("aes", "block"), Token("aes", "gcm"),
                                  Token("chacha20poly1305", "block"),
                                  Token("des", "block"), Token("aes", "ctr")}]
  IN  {[Invocation(l, TRUE, NoKey) EXCEPT !.dump = FALSE] : l \in lists}

\* One stage of the arguments fails, or none.
ArgInvocations ==
  {[Invocation(Plain("des"), json, NoKey) EXCEPT
      !.target = a[1], !.oracle = a[2], !.hex = a[3], !.dump = a[4],
      !.opts.ctLen = ctLen] :
    json \in BOOLEAN, ctLen \in {0, 2},
    a \in [1 .. 4 -> BOOLEAN]}

\* Scans: one pass and two, with no key, one and several, cut and not; a list
\* whose second cipher rejects the ciphertext after the first found a key.
ScanInvocations ==
  {Invocation(Plain("des"), json, Options(m, 2, 2, None, None, s)) :
     json \in BOOLEAN, m \in 0 .. 1, s \in SUBSET ({"des"} \X {0, 1})}
  \cup
  {Invocation(<<Token("sm4", "block"), Token("des", "block")>>, json,
              Options(m, 2, ctLen, nonce, None, s)) :
     json \in BOOLEAN, m \in 0 .. 1, ctLen \in 1 .. 2, nonce \in {None, 16},
     s \in SUBSET ({<<"sm4", 0>>, <<"des", 1>>})}
  \cup
  {Invocation(Plain("chacha20"), json, Options(0, 4, 1, 12, tag, s)) :
     json \in BOOLEAN, tag \in {None, 12, 16}, s \in SUBSET {<<"chacha20", 0>>}}

CommandInvocations == ParseInvocations \cup ArgInvocations \cup ScanInvocations

\* The documented lists, alone.
ListInvocations ==
  {Invocation(Plain(name), TRUE, Options(0, 4, 2, nonce, tag, s)) :
     name \in {"all", "chacha20", "chacha20poly1305", "xchacha20poly1305"},
     nonce \in {None, 12, 24}, tag \in {None, 16},
     s \in {{}, {<<"aes128", 0>>, <<"chacha20", 0>>}}}

RequestsOf(invocations) ==
  {RequestOf(v) : v \in {w \in invocations : ArgsPass(w)}}

CommandRequests == RequestsOf(CommandInvocations)

ListRequests == RequestsOf(ListInvocations)
=============================================================================
