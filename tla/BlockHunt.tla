------------------------------ MODULE BlockHunt ------------------------------
(***************************************************************************)
(* What `hunt` (crates/memhunt-core/src/engine.rs) does with one window of *)
(* the dump: read the ciphertext as ECB, then as CBC, find the IV of a CBC *)
(* hit in a second parallel pass (find_iv), strip the padding.  The        *)
(* decision shares nothing with other windows, so a window is a behaviour. *)
(*                                                                         *)
(* Blocks are joined to one sequence of bytes.  A trial is a record with   *)
(*   oracles  the list of oracles                                          *)
(*   block    the length of a block                                        *)
(*   ct, dec  the ciphertext, and its blocks decrypted one by one with the *)
(*            window as the key                                            *)
(*   dump     the dump, as far as the IV is looked for in it               *)
(*   fixedIv  the IV given, NoIv without one                               *)
(*   scanIv   ScanConfig::scan_iv                                          *)
(* and, for the properties, where the ciphertext comes from:               *)
(*   mode     "ecb" or "cbc" when the window is its key, "none" when not   *)
(*   message  the plaintext before padding                                 *)
(*   padding  "pkcs7", "zero", or "none"                                   *)
(*   iv       the IV of CBC                                                *)
(***************************************************************************)
EXTENDS Oracles

CONSTANTS Trials,
          Xor(_, _),
          VerifyBlocks,  \* how many blocks the oracles see, 2
          IvMax          \* IV_CANDIDATES_MAX, 8

NoIv == <<>>

XorSeq(s, t) == [n \in DOMAIN s |-> Xor(s[n], t[n])]

Times(b, n) == [k \in 1 .. n |-> b]

\* The message and its padding up to whole blocks.
Padded(t) ==
  LET n == t.block - (Len(t.message) % t.block)
  IN  t.message \o CASE t.padding = "pkcs7" -> Times(n, n)
                     [] t.padding = "zero"  -> Times(0, n % t.block)
                     [] t.padding = "none"  -> <<>>

\* With the right key, decryption undoes the mode the message was encrypted in.
Encrypts(t) ==
  LET plain == Padded(t)
  IN  CASE t.mode = "ecb"  -> t.dec = plain
        [] t.mode = "cbc"  -> t.dec = XorSeq(plain, t.iv \o t.ct)
        [] t.mode = "none" -> TRUE

\* Whole blocks, as split_blocks and validate_config have checked.
ASSUME BlockHuntAssumption ==
  /\ VerifyBlocks \in Nat \ {0} /\ IvMax \in Nat \ {0}
  /\ \A a, b \in Byte : Xor(a, b) \in Byte /\ Xor(Xor(a, b), b) = a
  /\ \A t \in Trials :
       /\ {t.ct, t.dec, t.dump, t.fixedIv, t.message, t.iv} \subseteq Seq(Byte)
       /\ t.oracles \in Seq(OracleSet)
       /\ t.block \in 1 .. 255 /\ t.ct # <<>>
       /\ Len(t.ct) = Len(t.dec) /\ Len(t.ct) % t.block = 0
       /\ t.fixedIv # NoIv => Len(t.fixedIv) = t.block
       /\ t.mode \in {"ecb", "cbc", "none"} /\ t.padding \in {"pkcs7", "zero", "none"}
       /\ t.mode = "cbc" => Len(t.iv) = t.block
       /\ Encrypts(t)

VARIABLES trial,
          pc,       \* "ecb", "cbc", "scan" (find_iv), "strip", "done"
          reading,  \* "none", or the mode of the hit
          match,    \* the oracle reported
          left,     \* the windows of the IV pass that no thread has tried
          found,    \* the candidates among those tried
          cands,    \* the IV candidates reported, best first
          iv,       \* the IV reported, NoIv without one
          plain,    \* the plaintext reported
          padding   \* the padding reported

vars == <<trial, pc, reading, match, left, found, cands, iv, plain, padding>>

-----------------------------------------------------------------------------
(* The readings of the ciphertext. *)

Take(s, n) == SubSeq(s, 1, IF n < Len(s) THEN n ELSE Len(s))

Head2(t, s) == Take(s, VerifyBlocks * t.block)

EcbHead(t) == Head2(t, t.dec)

\* Wrong variant: each block with itself.
CbcTailUnchained(t) ==
  [n \in 1 .. Len(t.ct) - t.block |-> Xor(t.dec[t.block + n], t.ct[t.block + n])]

\* Blocks 1..n of CBC, each xored with the block of ciphertext before it.
CbcTail(t) ==
  [n \in 1 .. Len(t.ct) - t.block |-> Xor(t.dec[t.block + n], t.ct[n])]

Block0(t, i) == XorSeq(Take(t.dec, t.block), i)

\* A single block can only be verified with a known IV.
CbcVerifiable(t) == Len(t.ct) > t.block \/ t.fixedIv # NoIv

CbcHead(t) ==
  IF Len(t.ct) > t.block THEN Head2(t, CbcTail(t)) ELSE Block0(t, t.fixedIv)

\* Shown in the place of a block 0 that is not known.
Unknown(t) == Times(63, t.block)

Init ==
  /\ trial \in Trials
  /\ pc = "ecb" /\ reading = "none" /\ match = NoMatch
  /\ left = {} /\ found = {} /\ cands = <<>>
  /\ iv = NoIv /\ plain = <<>> /\ padding = "none"

EcbHit ==
  /\ pc = "ecb" /\ Accepts(trial.oracles, EcbHead(trial))
  /\ reading' = "ecb"
  /\ match' = BestMatch(trial.oracles, EcbHead(trial))
  /\ plain' = trial.dec
  /\ pc' = "strip"
  /\ UNCHANGED <<trial, left, found, cands, iv, padding>>

\* Wrong variant: gives up when a single block is no ECB plaintext.
EcbMissSingle ==
  /\ pc = "ecb" /\ ~Accepts(trial.oracles, EcbHead(trial))
  /\ pc' = IF Len(trial.ct) > trial.block THEN "cbc" ELSE "done"
  /\ UNCHANGED <<trial, reading, match, left, found, cands, iv, plain, padding>>

EcbMiss ==
  /\ pc = "ecb" /\ ~Accepts(trial.oracles, EcbHead(trial))
  /\ pc' = "cbc"
  /\ UNCHANGED <<trial, reading, match, left, found, cands, iv, plain, padding>>

CbcMiss ==
  /\ pc = "cbc"
  /\ ~(CbcVerifiable(trial) /\ Accepts(trial.oracles, CbcHead(trial)))
  /\ pc' = "done"
  /\ UNCHANGED <<trial, reading, match, left, found, cands, iv, plain, padding>>

CbcAccepted ==
  /\ pc = "cbc" /\ CbcVerifiable(trial)
  /\ Accepts(trial.oracles, CbcHead(trial))
  /\ reading' = "cbc"
  /\ match' = BestMatch(trial.oracles, CbcHead(trial))

CbcFixed ==
  /\ CbcAccepted /\ trial.fixedIv # NoIv
  /\ iv' = trial.fixedIv
  /\ plain' = Block0(trial, trial.fixedIv) \o CbcTail(trial)
  /\ pc' = "strip"
  /\ UNCHANGED <<trial, left, found, cands, padding>>

\* The windows of the pass over the dump.
Windows(t) == 0 .. Len(t.dump) - t.block

\* There is such a pass to do.
ScansIv(t) == t.fixedIv = NoIv /\ t.scanIv /\ Len(t.dump) >= t.block

CbcNoIv ==
  /\ CbcAccepted /\ trial.fixedIv = NoIv /\ ~ScansIv(trial)
  /\ plain' = Unknown(trial) \o CbcTail(trial)
  /\ pc' = "strip"
  /\ UNCHANGED <<trial, left, found, cands, iv, padding>>

CbcScan ==
  /\ CbcAccepted /\ ScansIv(trial)
  /\ left' = Windows(trial)
  /\ pc' = "scan"
  /\ UNCHANGED <<trial, found, cands, iv, plain, padding>>

-----------------------------------------------------------------------------
(* find_iv. *)

IvAt(t, o) == SubSeq(t.dump, o + 1, o + t.block)

\* Block 0 under the IV at o, and what the oracles see with it.
FirstUnder(t, o) == Block0(t, IvAt(t, o))

SeenUnder(t, o) == FirstUnder(t, o) \o Head2(t, CbcTail(t))

Plausibility(s) ==
  IF Utf8Valid(s) /\ s # <<>>
  THEN (Cardinality(Printable(s)) * 1000) \div Cardinality(Chars(s))
  ELSE 0

\* A candidate: the IV at o with what it is ranked by.
Candidate(t, o) ==
  [offset |-> o,
   rank   |-> Rank(BestMatch(t.oracles, SeenUnder(t, o))),
   plaus  |-> Plausibility(FirstUnder(t, o))]

\* The order of the candidates.
Better(c, d) ==
  \/ c.rank > d.rank
  \/ /\ c.rank = d.rank
     /\ c.plaus > d.plaus \/ (c.plaus = d.plaus /\ c.offset < d.offset)

\* Some thread tries the IV at o.
TryIv(o) ==
  /\ pc = "scan" /\ o \in left
  /\ left' = left \ {o}
  /\ found' = IF Accepts(trial.oracles, SeenUnder(trial, o))
              THEN found \cup {Candidate(trial, o)} ELSE found
  /\ UNCHANGED <<trial, pc, reading, match, cands, iv, plain, padding>>

\* Candidates sorted.
Ranked(C) ==
  [n \in 1 .. Cardinality(C) |->
    CHOOSE c \in C : Cardinality({d \in C : Better(d, c)}) = n - 1]

\* Wrong variant: cuts the candidates before it sorts them.
BestIvsCutFirst(C) ==
  Ranked({c \in C : Cardinality({d \in C : d.offset < c.offset}) < IvMax})

\* Wrong variant: keeps one more.
BestIvsOneMore(C) == Take(Ranked(C), IvMax + 1)

\* The candidates sorted and cut.
BestIvs(C) == Take(Ranked(C), IvMax)

\* Wrong variant: shows the block 0 of the first candidate of the dump.
RankIvsFirstBlock ==
  /\ pc = "scan" /\ left = {}
  /\ cands' = BestIvs(found)
  /\ IF cands' = <<>>
     THEN plain' = Unknown(trial) \o CbcTail(trial) /\ UNCHANGED iv
     ELSE /\ iv' = IvAt(trial, cands'[1].offset)
          /\ plain' = FirstUnder(trial, CHOOSE o \in Windows(trial) :
                         /\ \E c \in found : c.offset = o
                         /\ \A c \in found : o <= c.offset) \o CbcTail(trial)
  /\ pc' = "strip"
  /\ UNCHANGED <<trial, reading, match, left, found, padding>>

\* The best candidate gives the IV and block 0 of the hit.
RankIvs ==
  /\ pc = "scan" /\ left = {}
  /\ cands' = BestIvs(found)
  /\ IF cands' = <<>>
     THEN plain' = Unknown(trial) \o CbcTail(trial) /\ UNCHANGED iv
     ELSE /\ iv' = IvAt(trial, cands'[1].offset)
          /\ plain' = FirstUnder(trial, cands'[1].offset) \o CbcTail(trial)
  /\ pc' = "strip"
  /\ UNCHANGED <<trial, reading, match, left, found, padding>>

-----------------------------------------------------------------------------
(* finalize_hit. *)

\* The length of the PKCS#7 padding at the end of a plaintext, 0 without any.
Pkcs7Len(s) ==
  LET n == s[Len(s)]
  IN  IF n \in 1 .. Len(s) /\ \A k \in Len(s) - n + 1 .. Len(s) : s[k] = n
      THEN n ELSE 0

\* Wrong variant: believes the last byte.
StripUnchecked ==
  /\ pc = "strip"
  /\ LET n == plain[Len(plain)]
     IN  IF n \in 1 .. Len(plain)
         THEN plain' = Take(plain, Len(plain) - n) /\ padding' = "pkcs7"
         ELSE plain' = StripZeros(plain) /\ padding' = "zero"
  /\ pc' = "done"
  /\ UNCHANGED <<trial, reading, match, left, found, cands, iv>>

\* strip_pkcs7, or else strip_zero, which never says no.
Strip ==
  /\ pc = "strip"
  /\ IF Pkcs7Len(plain) > 0
     THEN plain' = Take(plain, Len(plain) - Pkcs7Len(plain)) /\ padding' = "pkcs7"
     ELSE plain' = StripZeros(plain) /\ padding' = "zero"
  /\ pc' = "done"
  /\ UNCHANGED <<trial, reading, match, left, found, cands, iv>>

Done == pc = "done" /\ UNCHANGED vars

Next ==
  \/ EcbHit \/ EcbMiss \/ CbcMiss \/ CbcFixed \/ CbcNoIv \/ CbcScan
  \/ \E o \in left : TryIv(o)
  \/ RankIvs \/ Strip \/ Done

Spec == Init /\ [][Next]_vars
-----------------------------------------------------------------------------
(* Properties. *)

\* Every variable has its type.
BhTypeOK ==
  /\ pc \in {"ecb", "cbc", "scan", "strip", "done"}
  /\ reading \in {"none", "ecb", "cbc"}
  /\ reading = "none" <=> match = NoMatch
  /\ left \subseteq Windows(trial)
  /\ found \subseteq [offset : Windows(trial) \ left, rank : 1 .. 2,
                     plaus : 0 .. 1000]
  /\ Len(cands) <= IvMax
  /\ plain \in Seq(Byte)
  /\ padding \in {"none", "pkcs7", "zero"}

\* The blocks of the true plaintext that the code verifies.
TrueHead ==
  LET p == Padded(trial)
  IN  IF trial.mode = "cbc" /\ Len(p) > trial.block
      THEN Head2(trial, SubSeq(p, trial.block + 1, Len(p)))
      ELSE Head2(trial, p)

\* The right key is not lost: if an oracle accepts the blocks of the true
\* plaintext that are verified, there is a hit, and it has the true mode unless
\* the other reading, tried first, satisfies an oracle too.  A single block of
\* CBC needs its IV.
RightKeyKept ==
  /\ pc = "done" /\ trial.mode # "none"
  /\ Accepts(trial.oracles, TrueHead)
  /\ trial.mode = "cbc" /\ Len(trial.ct) = trial.block
       => trial.fixedIv = trial.iv
  => \/ reading = trial.mode
     \/ reading = "ecb" /\ Accepts(trial.oracles, EcbHead(trial))

\* Block 0 of a CBC hit: question marks unless an IV is reported.
FirstShown == IF iv = NoIv THEN Unknown(trial) ELSE Block0(trial, iv)

\* The plaintext of a hit, before its padding is stripped.
Shown ==
  IF reading = "ecb" THEN trial.dec ELSE FirstShown \o CbcTail(trial)

\* A hit in the true mode shows the message: all of it in ECB and under the
\* true IV, all but the first block of it otherwise.  Zero padding takes zeros
\* of the message with it, so a message that is not padded with PKCS#7 must
\* not end in one.  Nor may it look as if it were padded: alone, or behind the
\* block 0 of a wrong IV (a length of padding may exceed a block).
PlaintextRight ==
  /\ pc = "done" /\ reading = trial.mode /\ trial.mode # "none"
  /\ \/ trial.padding = "pkcs7"
     \/ Pkcs7Len(Shown) = 0 /\ StripZeros(trial.message) = trial.message
  => LET b == trial.block
         known == reading = "ecb" \/ iv = trial.iv
     IN  IF known
         THEN plain = trial.message
         ELSE Len(trial.message) > b =>
                SubSeq(plain, b + 1, Len(plain))
                  = SubSeq(trial.message, b + 1, Len(trial.message))

\* The windows of the dump that could be the IV.
Plausible ==
  {Candidate(trial, o) : o \in {p \in Windows(trial) :
                                 Accepts(trial.oracles, SeenUnder(trial, p))}}

\* Whatever threads try the windows of the dump and in whatever order, the
\* candidates are the best of those an oracle accepts, best first: the true IV
\* is missing only if IvMax others are better.
BestIvsKept ==
  LET listed == {cands[n] : n \in DOMAIN cands}
  IN  pc = "strip" /\ reading = "cbc" /\ ScansIv(trial) =>
        /\ listed \subseteq Plausible
        /\ \A m, n \in DOMAIN cands : m < n => Better(cands[m], cands[n])
        /\ \A c \in Plausible \ listed :
             Len(cands) = IvMax /\ \A d \in listed : Better(d, c)

\* The IV reported is the one that explains the first block shown, and a hit
\* without one shows question marks (before the padding is stripped).
IvExplainsBlock0 ==
  pc = "strip" /\ reading = "cbc" =>
    Take(plain, trial.block) = FirstShown

-----------------------------------------------------------------------------
(* What the documents say. *)

\* The README on the oracle utf8: a key is validated by a decryption that is
\* "valid UTF-8 text".
TextIsFound ==
  /\ pc = "done" /\ trial.mode = "ecb" /\ trial.padding = "none"
  /\ Utf8Verify(trial.message)
  /\ \E n \in DOMAIN trial.oracles : trial.oracles[n].name = "utf8"
  => reading # "none"
=============================================================================
