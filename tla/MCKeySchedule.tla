---------------------------- MODULE MCKeySchedule ----------------------------
(***************************************************************************)
(* Instances of KeySchedule for TLC: bytes of two bits, words of two       *)
(* bytes, and half of the AES sizes (2, 3 and 4 words, two of them         *)
(* checked).                                                               *)
(***************************************************************************)
EXTENDS KeySchedule

MCByte == 0 .. 3

MCXor(a, b) ==
  (((a \div 2) + (b \div 2)) % 2) * 2 + ((a + b) % 2)

MCSBox == [b \in MCByte |-> <<2, 3, 1, 0>>[b + 1]]

MCRcon == <<1, 2, 3>>

MCSizes == <<2, 3, 4>>

\* Any function of the four words of a key.
MCSm4Rk0(k) == [b \in 1 .. 2 |-> MCXor(k[1][b], MCSBox[MCXor(k[2][b], k[4][b])])]

Joined(words) == [n \in 1 .. 2 * Len(words) |-> words[(n + 1) \div 2][2 - (n % 2)]]

\* n words of the schedule of a key.
Planted(key, n) ==
  LET w == Schedule(key, Len(key), n)
  IN  Joined([i \in 1 .. n |-> w[i - 1]])

Key(nk, a) == [i \in 1 .. nk |-> <<a, (a + i) % 4>>]

Fill(n, a) == [i \in 1 .. n |-> a]

\* Schedules of each size, whole or cut, at the ends and inside a dump, up to
\* the window at the third round, and two sizes in one.
PlantedDumps ==
  {Fill(pre, 1) \o Planted(Key(nk, a), nk + n) \o Fill(post, 3) :
     nk \in 2 .. 3, a \in 0 .. 2, n \in 1 .. 2, pre \in 0 .. 1, post \in {0, 2}}
  \cup {Planted(Key(4, a), 6) \o Fill(post, 3) : a \in 0 .. 3, post \in 0 .. 1}
  \cup {Planted(Key(2, a), 6) \o Fill(post, 0) : a \in 0 .. 3, post \in 0 .. 1}
  \cup {Planted(Key(2, a), 8) : a \in 0 .. 3}
  \cup {Planted(Key(3, 1), 8), Planted(Key(3, 2), 11)}
  \cup {Planted(Key(2, 1), 4) \o Planted(Key(2, 2), 4)}
  \cup {Planted(<< <<1, 2>>, <<3, 3>>, <<1, 2>>, <<3, 3>> >>, 6)}

\* One byte of a schedule changed.
BrokenDumps ==
  {[Planted(Key(2, 1), 4) EXCEPT ![n] = MCXor(@, 1)] : n \in 1 .. 8}
  \cup {[Planted(Key(3, 1), 5) EXCEPT ![n] = MCXor(@, 2)] : n \in 7 .. 10}

\* SM4 keys with their first round key.
Sm4Dumps ==
  {Fill(pre, 0) \o Joined(Key(4, a) \o <<MCSm4Rk0(Key(4, a))>>) :
     pre \in 0 .. 1, a \in 0 .. 3}

FillDumps == {Fill(n, a) : n \in 0 .. 12, a \in MCByte}

KeyScheduleUses ==
  {[by |-> "cli", json |-> json, readable |-> TRUE, dump |-> d] :
     json \in BOOLEAN, d \in BrokenDumps \cup Sm4Dumps}
  \cup
  {[by |-> by, json |-> TRUE, readable |-> r, dump |-> d] :
     by \in {"cli", "mcp"}, r \in BOOLEAN, d \in PlantedDumps \cup FillDumps}
=============================================================================
