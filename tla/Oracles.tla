------------------------------- MODULE Oracles -------------------------------
(***************************************************************************)
(* The oracles (crates/memhunt-core/src/oracle.rs): predicates on the      *)
(* first bytes of a decrypted plaintext, and best_match, which asks a list *)
(* of them.  Bytes are numbers 0 .. 255 and texts sequences of bytes; an   *)
(* oracle is a record with its name, and for "known" the fragment.         *)
(***************************************************************************)
EXTENDS Integers, FiniteSets, Sequences

CONSTANTS MinUtf16,     \* the least length of UTF-16 text, 8 in the code
          VarintBytes,  \* the longest varint, 10
          VarintBits    \* the width of its value, 64

ASSUME OraclesAssumption ==
  /\ MinUtf16 \in Nat /\ VarintBytes \in Nat \ {0} /\ VarintBits \in Nat \ {0}

Byte == 0 .. 255

\* The oracles there are.
OracleSet ==
  [name : {"utf8", "json", "utf16le", "gzip", "protobuf"}]
  \cup [name : {"known"}, fragment : Seq(Byte)]

-----------------------------------------------------------------------------
(* UTF-8, as std::str::from_utf8 reads it but for the forms that are longer *)
(* than they need be and the surrogates, which no text here has.           *)

Continuation == 128 .. 191

\* How many continuation bytes follow a first byte.
Follow(b) ==
  CASE b \in 194 .. 223 -> 1
    [] b \in 224 .. 239 -> 2
    [] b \in 240 .. 244 -> 3
    [] OTHER            -> 0

Utf8Valid(s) ==
  \A n \in DOMAIN s :
    IF s[n] \in Continuation
    THEN \E k \in 1 .. 3 : k < n /\ k <= Follow(s[n - k])
    ELSE /\ s[n] < 128 \/ Follow(s[n]) > 0
         /\ \A k \in 1 .. Follow(s[n]) :
              n + k <= Len(s) /\ s[n + k] \in Continuation

\* The characters of a valid text, each by the place of its first byte.
Chars(s) == {n \in DOMAIN s : s[n] \notin Continuation}

\* char::is_control, but for \t, \n and \r.
Unprintable(s, n) ==
  \/ s[n] \in (0 .. 31 \cup {127}) \ {9, 10, 13}
  \/ s[n] = 194 /\ s[n + 1] < 160

Printable(s) == {n \in Chars(s) : ~Unprintable(s, n)}

\* The text without the zeros at its end.
StripZeros(s) ==
  SubSeq(s, 1, CHOOSE n \in 0 .. Len(s) :
                 /\ n > 0 => s[n] # 0
                 /\ \A m \in n + 1 .. Len(s) : s[m] = 0)

-----------------------------------------------------------------------------
(* The oracles. *)

Utf8Verify(head) ==
  LET s == StripZeros(head)
  IN  /\ s # <<>> /\ Utf8Valid(s)
      /\ Cardinality(Printable(s)) * 10 >= Cardinality(Chars(s)) * 9

\* {" or [ and the start of a value.
JsonVerify(head) ==
  /\ Len(head) >= 2
  /\ \/ head[1] = 123 /\ head[2] = 34
     \/ head[1] = 91 /\ head[2] \in 48 .. 57 \cup {34, 91, 123, 32, 9}
  /\ Utf8Valid(head) /\ Printable(head) = Chars(head)

\* No window equals an empty fragment.
KnownVerify(fragment, head) ==
  /\ fragment # <<>>
  /\ \E n \in 0 .. Len(head) - Len(fragment) :
       SubSeq(head, n + 1, n + Len(fragment)) = fragment

\* Whole 0x0000 units are stripped, but never the first.
Utf16End(head) ==
  CHOOSE e \in 0 .. Len(head) :
    LET IsUnit(n) == head[n] = 0 /\ head[n - 1] = 0
    IN  /\ (Len(head) - e) % 2 = 0
        /\ e >= 4 => ~IsUnit(e)
        /\ \A n \in e + 1 .. Len(head) :
             (Len(head) - n) % 2 = 0 => n >= 4 /\ IsUnit(n)

Utf16Verify(head) ==
  LET e == Utf16End(head)
      units == 1 .. e \div 2
      Unit(u) == head[2 * u - 1] + 256 * head[2 * u]
  IN  /\ e >= MinUtf16 /\ e % 2 = 0
      /\ 4 * Cardinality({u \in units : Unit(u) \in 32 .. 126}) >= 3 * (e \div 2)
      /\ \E u \in units : Unit(u) # 0
      /\ \E u \in units : Unit(u) # Unit(1)

GzipVerify(head) ==
  /\ Len(head) >= 4
  /\ SubSeq(head, 1, 3) = <<31, 139, 8>> /\ head[4] < 32

\* read_varint: the length of the varint at the start of data, 0 when it has
\* no end, and the value of n bytes, whose highest bits are shifted out.
VarintLen(data) ==
  LET ends == {n \in DOMAIN data : n <= VarintBytes /\ data[n] < 128}
  IN  IF ends = {} THEN 0 ELSE CHOOSE n \in ends : \A m \in ends : n <= m

VarintValue(data, n) ==
  LET sum[k \in 0 .. n] ==
        IF k = 0 THEN 0 ELSE sum[k - 1] + (data[k] % 128) * 2 ^ (7 * (k - 1))
  IN  sum[n] % 2 ^ VarintBits

\* A first field 1 .. 15 of wire type 2 whose length fits in the head.
ProtobufVerify(head) ==
  /\ head # <<>> /\ head[1] % 8 = 2 /\ head[1] \div 8 \in 1 .. 15
  /\ LET n == VarintLen(Tail(head))
     IN  n > 0 /\ VarintValue(Tail(head), n) \in 1 .. Len(head) - 1 - n

Verify(oracle, head) ==
  CASE oracle.name = "utf8"     -> Utf8Verify(head)
    [] oracle.name = "json"     -> JsonVerify(head)
    [] oracle.name = "known"    -> KnownVerify(oracle.fragment, head)
    [] oracle.name = "utf16le"  -> Utf16Verify(head)
    [] oracle.name = "gzip"     -> GzipVerify(head)
    [] oracle.name = "protobuf" -> ProtobufVerify(head)

\* Confidence::rank: high or medium.
Rank(oracle) == IF oracle.name \in {"json", "known", "gzip"} THEN 2 ELSE 1

NoMatch == [name |-> "none"]

\* best_match: of the oracles that accept, the last of the highest rank
\* (max_by_key).
BestMatch(oracles, head) ==
  LET ok == {n \in DOMAIN oracles : Verify(oracles[n], head)}
      Beats(m, n) == \/ Rank(oracles[m]) > Rank(oracles[n])
                     \/ Rank(oracles[m]) = Rank(oracles[n]) /\ m > n
  IN  IF ok = {} THEN NoMatch
      ELSE oracles[CHOOSE n \in ok : \A m \in ok \ {n} : Beats(n, m)]

Accepts(oracles, head) == \E n \in DOMAIN oracles : Verify(oracles[n], head)
=============================================================================
