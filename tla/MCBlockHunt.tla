----------------------------- MODULE MCBlockHunt -----------------------------
(***************************************************************************)
(* Instances of BlockHunt for TLC: blocks of four bytes, two IV candidates *)
(* kept, and messages of the kinds the oracles tell apart.                 *)
(***************************************************************************)
EXTENDS BlockHunt

\* Exclusive or of two numbers below 16, from their bits, and of two bytes.
XorNibble ==
  [a \in 0 .. 15 |-> [b \in 0 .. 15 |->
    LET Bit(k) == ((a \div 2 ^ k) + (b \div 2 ^ k)) % 2
    IN  Bit(0) + 2 * Bit(1) + 4 * Bit(2) + 8 * Bit(3)]]

MCXor(a, b) ==
  16 * XorNibble[a \div 16][b \div 16] + XorNibble[a % 16][b % 16]

MCBlock == 4

\* Blocks and ends of messages: text, text with a two-byte character across a
\* border, JSON, UTF-16, gzip, protobuf, noise.
Text  == <<97, 98, 99, 100>>
CutA  == <<97, 98, 99, 195>>
CutB  == <<169, 98, 99, 100>>
Obj   == <<123, 34, 97, 34>>
ObjB  == <<58, 49, 50, 125>>
WideA == <<97, 0, 98, 0>>
WideB == <<99, 0, 100, 0>>
Gzip  == <<31, 139, 8, 0>>
Proto == <<10, 5, 120, 121>>
Noise == <<255, 7, 254, 200>>
Ones  == <<1, 1, 1, 1>>
Long  == <<10, 130, 128, 16>>  \* a length whose highest bit is shifted out

Oracle(name) == [name |-> name]
Known(fragment) == [name |-> "known", fragment |-> fragment]

OracleLists ==
  {<<Oracle("utf8")>>, <<Oracle("json")>>, <<Oracle("utf8"), Oracle("json")>>,
   <<Oracle("utf16le"), Oracle("utf8")>>,
   <<Oracle("gzip"), Oracle("protobuf")>>,
   <<Known(<<98, 99>>)>>, <<Known(<<>>), Oracle("utf8")>>}

Messages ==
  {Text, Text \o <<97>>, Text \o Text, Text \o Text \o <<97, 98, 10>>,
   Text \o Text \o <<97, 98, 99, 10>>,
   CutA \o CutB, Text \o CutA \o CutB, CutA \o CutB \o CutA \o CutB,
   Obj \o ObjB, Obj \o ObjB \o Text, Obj \o Noise \o Text, Noise \o Obj \o ObjB,
   WideA \o WideB, WideA \o WideB \o <<97, 0>>, Gzip \o Noise, Proto \o Text,
   Long \o Text, Noise \o Text \o Noise, <<98, 99>>, Text \o Ones}

\* Padding that gives whole blocks.
Paddings(m) ==
  {"pkcs7", "zero"} \cup IF Len(m) % MCBlock = 0 THEN {"none"} ELSE {}

\* Ciphertext is noise: any bytes, here fixed ones.
Cipher(n) == [k \in 1 .. n |-> (200 + 37 * k + k * k) % 256]

TrueIv == <<240, 14, 131, 77>>

Trial(mode, message, pad, oracles) ==
  LET t == [oracles |-> oracles, block |-> MCBlock, dump |-> <<>>,
            fixedIv |-> NoIv, scanIv |-> TRUE, mode |-> mode,
            message |-> message, padding |-> pad, iv |-> TrueIv]
      p == Padded(t)
      ct == Cipher(Len(p))
      dec == CASE mode = "ecb"  -> p
               [] mode = "cbc"  -> [k \in DOMAIN p |-> MCXor(p[k], (TrueIv \o ct)[k])]
               [] mode = "none" -> [k \in DOMAIN p |-> (91 * k + 140) % 256]
  IN  [oracles |-> oracles, block |-> MCBlock, ct |-> ct, dec |-> dec,
       dump |-> <<>>, fixedIv |-> NoIv, scanIv |-> TRUE, mode |-> mode,
       message |-> message, padding |-> pad, iv |-> TrueIv]

EcbTrials ==
  UNION {{Trial("ecb", m, pad, l) : pad \in Paddings(m)} :
           m \in Messages, l \in OracleLists}

CbcTrials ==
  UNION {{[Trial("cbc", m, pad, l) EXCEPT !.fixedIv = f, !.scanIv = s] :
            pad \in Paddings(m), f \in {NoIv, TrueIv, Noise}, s \in BOOLEAN} :
           m \in Messages, l \in OracleLists}

NoKeyTrials == {Trial("none", Text \o Text, "pkcs7", l) : l \in OracleLists}

\* CBC whose ECB reading is text as well.
ShadowTrial(message, l) ==
  LET t == Trial("cbc", message, "none", l)
      text == [k \in DOMAIN message |-> 65 + k]
      n == Len(message)
      chain == [k \in 1 .. n |-> MCXor(message[k], text[k])]
  IN  [t EXCEPT !.dec = text, !.iv = Take(chain, MCBlock),
                !.ct = SubSeq(chain, MCBlock + 1, n) \o Take(Noise, MCBlock)]

ShadowTrials ==
  {ShadowTrial(m, l) :
     m \in {Text \o Text, Obj \o ObjB, Obj \o ObjB \o Text}, l \in OracleLists}

\* A dump with the IVs that would give each of the blocks 0.
IvTrial(message, l, firsts, scan) ==
  LET t == Trial("cbc", message, "pkcs7", l)
      iv0(f) == [k \in 1 .. MCBlock |-> MCXor(t.dec[k], f[k])]
      dump[n \in 0 .. Len(firsts)] ==
        IF n = 0 THEN <<>> ELSE dump[n - 1] \o iv0(firsts[n])
  IN  [t EXCEPT !.dump = dump[Len(firsts)], !.scanIv = scan]

\* A wrong IV under which the whole of a message looks like its padding.
Eights == <<8, 8, 8, 8>>

PadTrial ==
  LET t == Trial("cbc", Text \o Eights, "none", <<Known(<<8, 8>>)>>)
  IN  [t EXCEPT !.fixedIv = [k \in 1 .. MCBlock |-> MCXor(t.dec[k], 8)]]

Controls == <<97, 9, 7, 98>>
Decoy    == <<120, 121, 122, 122>>

IvTrials ==
  {IvTrial(m, l, f, TRUE) :
     m \in {Text \o Text \o Text, Obj \o Text \o ObjB},
     l \in {<<Oracle("utf8")>>, <<Oracle("utf8"), Oracle("json")>>,
            <<Known(<<98, 99>>)>>},
     f \in {<<Text, Decoy, Controls>>, <<Decoy, Controls, Obj>>,
            <<Controls, Noise, Text>>, <<Obj, Text>>, <<Noise>>}}
  \cup {IvTrial(Text \o Text, <<Oracle("utf8")>>, <<Text>>, FALSE)}

BlockTrials ==
  EcbTrials \cup CbcTrials \cup NoKeyTrials \cup ShadowTrials \cup IvTrials
  \cup {PadTrial}
=============================================================================
