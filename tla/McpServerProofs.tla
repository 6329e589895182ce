--------------------------- MODULE McpServerProofs ---------------------------
(***************************************************************************)
(* Proofs about McpServer, for every set of scripts of any length, every   *)
(* capacity of the pipes and every size of the machine.                    *)
(***************************************************************************)
EXTENDS McpServer, FiniteSetTheorems, TLAPS

-----------------------------------------------------------------------------
(* The replies that are owed. *)

\* A reply, whatever the script.
ReplyType == [id : {None} \cup Nat, body : Bodies]

\* A line has a kind, and the reply to it is not the absence of one.
LEMMA ReplyShape ==
  ASSUME script \in Scripts, NEW i \in 1 .. Len(script)
  PROVE  /\ script[i] \in Lines
         /\ HasReply(script[i]) <=> Owed(script[i])
         /\ ReplyTo(script[i], i) # NoReply
         /\ ReplyTo(script[i], i) \in [id : {None} \cup 0 .. Len(script), body : Bodies]
  <1>1. script \in Seq(Lines)
    BY McpAssumption
  <1>2. script[i] \in Lines
    BY <1>1
  <1>3. HasReply(script[i]) <=> Owed(script[i])
    BY <1>2 DEF Lines, Kinds, HasReply, Owed
  <1>4. ReplyTo(script[i], i).id \in 0 .. Len(script)
    BY <1>1 DEF ReplyTo, NullId
  <1>5. ReplyTo(script[i], i) # NoReply
    BY <1>1, <1>4 DEF NoReply, None
  <1>6. ReplyTo(script[i], i) \in [id : {None} \cup 0 .. Len(script), body : Bodies]
    BY <1>1 DEF ReplyTo, NullId, Bodies
  <1> QED BY <1>2, <1>3, <1>5, <1>6

\* The owed lines are finitely many.
LEMMA OwedFinite ==
  ASSUME NEW n \in Nat
  PROVE  IsFiniteSet(OwedLines(n)) /\ Cardinality(OwedLines(n)) \in Nat
  <1>1. IsFiniteSet(1 .. n) /\ OwedLines(n) \in SUBSET (1 .. n)
    BY FS_Interval DEF OwedLines
  <1>2. IsFiniteSet(OwedLines(n))
    BY <1>1, FS_Subset
  <1> QED BY <1>2, FS_CardinalityType

\* A line that is owed no reply changes nothing.
LEMMA NextNotOwed ==
  ASSUME NEW n \in Nat, ~Owed(script[n + 1])
  PROVE  Replies(n + 1) = Replies(n)
  <1>1. OwedLines(n + 1) = OwedLines(n)
    BY DEF OwedLines
  <1>2. \A k : NthOwed(n + 1, k) = NthOwed(n, k)
    BY <1>1 DEF NthOwed
  <1> QED BY <1>1, <1>2 DEF Replies

\* A line that is owed a reply adds it at the end.
LEMMA NextOwed ==
  ASSUME NEW n \in Nat, Owed(script[n + 1])
  PROVE  LET c == Cardinality(OwedLines(n))
         IN  Replies(n + 1) =
               [k \in 1 .. c + 1 |-> IF k <= c THEN Replies(n)[k]
                                     ELSE ReplyTo(script[n + 1], n + 1)]
  <1> DEFINE O == OwedLines(n)
             P == OwedLines(n + 1)
             c == Cardinality(O)
  <1>1. IsFiniteSet(O) /\ c \in Nat
    BY OwedFinite
  <1>2. P = O \cup {n + 1} /\ n + 1 \notin O
    BY DEF OwedLines
  <1>3. Cardinality(P) = c + 1
    BY <1>1, <1>2, FS_AddElement
  <1>4. ASSUME NEW i \in O
        PROVE  Cardinality(OwedLines(i)) \in 0 .. c
    <2>1. i \in 1 .. n
      BY DEF OwedLines
    <2>2. OwedLines(i) \in SUBSET O
      BY <2>1 DEF OwedLines
    <2>3. Cardinality(OwedLines(i)) <= c /\ IsFiniteSet(OwedLines(i))
      BY <1>1, <2>2, FS_Subset
    <2>4. Cardinality(OwedLines(i)) \in Nat
      BY <2>3, FS_CardinalityType
    <2> QED BY <1>1, <2>3, <2>4
  <1> HIDE DEF c
  <1>5. ASSUME NEW k \in 1 .. c PROVE NthOwed(n + 1, k) = NthOwed(n, k)
    <2>1. \A i : (i \in P /\ Cardinality(OwedLines(i)) = k)
                   <=> (i \in O /\ Cardinality(OwedLines(i)) = k)
      BY <1>1, <1>2, <1>3
    <2> QED BY <2>1 DEF NthOwed
  <1>6. NthOwed(n + 1, c + 1) = n + 1
    <2>1. \A i \in P : Cardinality(OwedLines(i)) = c + 1 <=> i = n + 1
      BY <1>1, <1>2, <1>3, <1>4
    <2>2. n + 1 \in P
      BY <1>2
    <2> QED BY <2>1, <2>2 DEF NthOwed
  <1> HIDE DEF O, P
  <1>7. Replies(n + 1) = [k \in 1 .. c + 1 |->
                            ReplyTo(script[NthOwed(n + 1, k)], NthOwed(n + 1, k))]
    BY <1>3 DEF Replies, P
  <1>8. Replies(n) = [k \in 1 .. c |-> ReplyTo(script[NthOwed(n, k)], NthOwed(n, k))]
    BY DEF Replies, c, O
  <1>9. ASSUME NEW k \in 1 .. c + 1
        PROVE  ReplyTo(script[NthOwed(n + 1, k)], NthOwed(n + 1, k))
                 = IF k <= c THEN Replies(n)[k] ELSE ReplyTo(script[n + 1], n + 1)
    <2>1. CASE k <= c
      <3>1. k \in 1 .. c
        BY <1>1, <2>1
      <3> QED BY <1>5, <1>8, <2>1, <3>1
    <2>2. CASE ~(k <= c)
      <3>1. k = c + 1
        BY <1>1, <2>2
      <3> QED BY <1>6, <2>2, <3>1
    <2> QED BY <2>1, <2>2
  <1>10. Replies(n + 1) = [k \in 1 .. c + 1 |-> IF k <= c THEN Replies(n)[k]
                                     ELSE ReplyTo(script[n + 1], n + 1)]
    BY <1>7, <1>9
  <1> QED BY <1>10 DEF c, O

\* If some sequence of replies is the one owed so far, the same with the reply
\* to the next line is the one owed then.
LEMMA NextReply ==
  ASSUME script \in Scripts, NEW n \in 0 .. Len(script) - 1,
         NEW s \in Seq(ReplyType), s = Replies(n)
  PROVE  Replies(n + 1) =
           s \o (IF Owed(script[n + 1]) THEN <<ReplyTo(script[n + 1], n + 1)>> ELSE <<>>)
  <1>1. n \in Nat /\ n + 1 \in 1 .. Len(script)
    <2>1. script \in Seq(Lines)
      BY McpAssumption
    <2>2. Len(script) \in Nat
      BY <2>1
    <2> QED BY <2>2
  <1>2. CASE ~Owed(script[n + 1])
    BY <1>1, <1>2, NextNotOwed
  <1>3. CASE Owed(script[n + 1])
    <2> DEFINE c == Cardinality(OwedLines(n))
               x == ReplyTo(script[n + 1], n + 1)
    <2>1. Replies(n + 1) = [k \in 1 .. c + 1 |-> IF k <= c THEN s[k] ELSE x]
      BY <1>1, <1>3, NextOwed
    <2>2. c \in Nat /\ DOMAIN s = 1 .. c /\ DOMAIN s = 1 .. Len(s) /\ Len(s) \in Nat
      BY <1>1, OwedFinite DEF Replies
    <2>3. Len(s) = c
      BY <2>2
    <2>4. x \in ReplyType
      <3>1. script \in Seq(Lines)
        BY McpAssumption
      <3>2. Len(script) \in Nat
        BY <3>1
      <3>3. x \in [id : {None} \cup 0 .. Len(script), body : Bodies]
        BY <1>1, ReplyShape
      <3> QED BY <3>2, <3>3 DEF ReplyType
    <2> HIDE DEF c, x
    <2>5. s \o <<x>> = [k \in 1 .. c + 1 |-> IF k <= c THEN s[k] ELSE x]
      <3>1. s \o <<x>> \in Seq(ReplyType) /\ Len(s \o <<x>>) = c + 1
        BY <2>2, <2>3, <2>4
      <3>2. \A k \in 1 .. c + 1 : (s \o <<x>>)[k] = IF k <= c THEN s[k] ELSE x
        BY <2>2, <2>3, <2>4
      <3> QED BY <3>1, <3>2
    <2> QED BY <1>3, <2>1, <2>5 DEF x
  <1> QED BY <1>2, <1>3

-----------------------------------------------------------------------------
(* Moving a reply from one sequence to the next. *)

\* The server appends to the pipe what it held back.
LEMMA MoveIn ==
  ASSUME NEW s \in Seq(ReplyType), NEW t \in Seq(ReplyType), NEW x \in ReplyType
  PROVE  /\ s \o t \in Seq(ReplyType)
         /\ (s \o t) \o <<>> = s \o t
         /\ (s \o Append(t, x)) \o <<>> = (s \o t) \o <<x>>
  <1>1. s \o t \in Seq(ReplyType) /\ (s \o t) \o <<>> = s \o t
    OBVIOUS
  <1>2. s \o Append(t, x) = (s \o t) \o <<x>>
    OBVIOUS
  <1>3. s \o Append(t, x) \in Seq(ReplyType)
    OBVIOUS
  <1> QED BY <1>1, <1>2, <1>3

\* The client takes from the pipe its first reply.
LEMMA MoveOut ==
  ASSUME NEW s \in Seq(ReplyType), NEW t \in Seq(ReplyType), t # <<>>
  PROVE  /\ Append(s, Head(t)) \in Seq(ReplyType) /\ Tail(t) \in Seq(ReplyType)
         /\ Len(Tail(t)) = Len(t) - 1
         /\ Append(s, Head(t)) \o Tail(t) = s \o t
  <1>1. /\ Append(s, Head(t)) \in Seq(ReplyType) /\ Tail(t) \in Seq(ReplyType)
        /\ Len(Tail(t)) = Len(t) - 1
    OBVIOUS
  <1>2. Append(s, Head(t)) \o Tail(t) = s \o t
    OBVIOUS
  <1> QED BY <1>1, <1>2

-----------------------------------------------------------------------------
(* The inductive invariant. *)

\* Where the replies are: a reply is held back only for the write that is
\* under way or the one that failed.
McpInv ==
  /\ script \in Scripts
  /\ TypeOK
  /\ received \in Seq(ReplyType) /\ pipe \in Seq(ReplyType)
  /\ OneReplyEach
  /\ pc \in {"read", "ok"} => reply = NoReply
  /\ pc = "write" => reply # NoReply
  /\ pc = "ok" => read = sent /\ stdin = "closed"
  /\ pc = "err" =>
       \/ stdout = "closed"
       \/ /\ reply = NoReply /\ read > 0
          /\ script[read].kind = "undecodable"
  /\ FirstCallSizesPool

\* The first state satisfies the invariant.
LEMMA InitMcpInv == Init => McpInv
  <1> SUFFICES ASSUME Init PROVE McpInv
    OBVIOUS
  <1>1. script \in Seq(Lines) /\ Len(script) \in Nat
    <2>1. script \in Seq(Lines)
      BY McpAssumption DEF Init
    <2> QED BY <2>1
  <1>2. OwedLines(0) = {} /\ {i \in 1 .. 0 : BuildsPool(script[i])} = {}
    BY DEF OwedLines
  <1>3. Replies(0) = <<>>
    <2>1. Cardinality({}) = 0
      BY FS_EmptySet
    <2> QED BY <1>2, <2>1 DEF Replies
  <1>4. TypeOK
    BY <1>1, McpAssumption DEF Init, TypeOK, NoReply, Bodies
  <1>5. FirstCallSizesPool
    BY <1>2 DEF Init, FirstCallSizesPool
  <1>6. OneReplyEach
    BY <1>3 DEF Init, OneReplyEach, AllReplies
  <1> QED BY <1>4, <1>5, <1>6 DEF Init, McpInv

\* The pool stays the one of the first call that wants one.
LEMMA PoolKept ==
  ASSUME FirstCallSizesPool, read \in Nat, script' = script,
         read' = read + 1, pool' = PoolAfter(script[read + 1], pool),
         None \notin {PoolOf(script[i]) : i \in 1 .. read}
  PROVE  FirstCallSizesPool'
  <1> DEFINE B(n) == {i \in 1 .. n : BuildsPool(script[i])}
  <1>1. B(read + 1) = B(read) \cup
          (IF BuildsPool(script[read + 1]) THEN {read + 1} ELSE {})
    OBVIOUS
  <1>2. FirstCallSizesPool <=>
          IF B(read) = {} THEN pool = None
          ELSE \E i \in B(read) : (\A k \in B(read) : i <= k) /\ pool = PoolOf(script[i])
    BY DEF FirstCallSizesPool
  <1>3. FirstCallSizesPool' <=>
          IF B(read + 1) = {} THEN pool' = None
          ELSE \E i \in B(read + 1) :
                 (\A k \in B(read + 1) : i <= k) /\ pool' = PoolOf(script[i])
    BY DEF FirstCallSizesPool, BuildsPool, PoolOf, Size
  <1>4. \A i \in B(read) : i \in 1 .. read
    OBVIOUS
  <1> HIDE DEF B
  <1>5. CASE B(read) = {}
    <2>1. pool = None
      BY <1>2, <1>5
    <2>2. CASE BuildsPool(script[read + 1])
      <3>1. B(read + 1) = {read + 1} /\ pool' = PoolOf(script[read + 1])
        BY <1>1, <1>5, <2>1, <2>2 DEF PoolAfter
      <3> QED BY <1>3, <3>1
    <2>3. CASE ~BuildsPool(script[read + 1])
      BY <1>1, <1>3, <1>5, <2>1, <2>3 DEF PoolAfter
    <2> QED BY <2>2, <2>3
  <1>6. CASE B(read) # {}
    <2>1. PICK i \in B(read) : (\A k \in B(read) : i <= k) /\ pool = PoolOf(script[i])
      BY <1>2, <1>6
    <2>2. i \in 1 .. read /\ pool # None
      BY <1>4, <2>1
    <2>3. pool' = pool
      BY <2>2 DEF PoolAfter
    <2>4. i \in B(read + 1) /\ \A k \in B(read + 1) : i <= k
      BY <1>1, <2>1, <2>2
    <2> QED BY <1>3, <2>1, <2>3, <2>4
  <1> QED BY <1>5, <1>6

\* Every step keeps the invariant.
LEMMA NextMcpInv == McpInv /\ [Next]_vars => McpInv'
  <1> SUFFICES ASSUME McpInv, [Next]_vars PROVE McpInv'
    OBVIOUS
  <1>1. /\ script' = script /\ script \in Seq(Lines) /\ Len(script) \in Nat
        /\ Capacity \in Nat \ {0}
    <2>1. script' = script
      BY DEF Next, ServerStep, Read, ReadEof, Write, WriteFails, Send, Receive,
             CloseStdin, CloseStdout, Ended, vars, client
    <2>2. script \in Seq(Lines)
      BY McpAssumption DEF McpInv
    <2> QED BY <2>1, <2>2, McpAssumption
  <1>2. \A n : Replies(n)' = Replies(n)
    BY <1>1 DEF Replies, NthOwed, OwedLines, Owed, ReplyTo
  <1>3. /\ \A n : script'[n] = script[n]
        /\ UNCHANGED <<read, pool>> => FirstCallSizesPool'
    BY <1>1 DEF McpInv, FirstCallSizesPool, BuildsPool, PoolOf, Size
  <1>4. CASE Read
    <2> DEFINE l == script[read + 1]
    <2>1. /\ pc = "read" /\ read < sent /\ read' = read + 1
          /\ pc' = CASE l.kind = "undecodable" -> "err"
                     [] HasReply(l)            -> "write"
                     [] OTHER                  -> "read"
          /\ reply' = IF HasReply(l) THEN ReplyTo(l, read + 1) ELSE NoReply
          /\ pool' = PoolAfter(l, pool)
          /\ UNCHANGED <<script, sent, stdin, stdout, received, pipe>>
      BY <1>4 DEF Read, client
    <2>2. /\ read \in 0 .. Len(script) - 1 /\ read + 1 \in 1 .. Len(script)
          /\ reply = NoReply /\ sent \in Nat
      BY <1>1, <2>1 DEF McpInv, TypeOK
    <2>3. /\ l \in Lines /\ (HasReply(l) <=> Owed(l))
          /\ ReplyTo(l, read + 1) # NoReply
          /\ ReplyTo(l, read + 1) \in [id : {None} \cup 0 .. Len(script), body : Bodies]
      BY <2>2, ReplyShape DEF McpInv
    <2>4. OneReplyEach'
      <3>1. received \o pipe = Replies(read)
        <4>1. received \o pipe \o <<>> = Replies(read)
          BY <2>2 DEF McpInv, OneReplyEach, AllReplies
        <4> QED BY <4>1 DEF McpInv
      <3>2. received \o pipe \in Seq(ReplyType)
        BY DEF McpInv
      <3>3. Replies(read + 1) = (received \o pipe) \o
              (IF Owed(l) THEN <<ReplyTo(l, read + 1)>> ELSE <<>>)
        BY <2>2, <3>1, <3>2, NextReply DEF McpInv
      <3>4. AllReplies' = (received \o pipe) \o
              (IF Owed(l) THEN <<ReplyTo(l, read + 1)>> ELSE <<>>)
        BY <2>1, <2>3 DEF AllReplies
      <3> QED BY <1>2, <2>1, <3>3, <3>4 DEF OneReplyEach
    <2>5. pool' \in Nat \cup {None}
      BY <2>1, <2>3, McpAssumption DEF McpInv, TypeOK, PoolAfter, PoolOf, Size, Lines
    <2>6. FirstCallSizesPool'
      <3>1. \A i \in 1 .. read : PoolOf(script[i]) # None
        <4>1. \A i \in 1 .. read : script[i] \in Lines
          BY <1>1, <2>2
        <4> QED BY <4>1, McpAssumption DEF PoolOf, Size, Lines, None
      <3> QED BY <1>1, <2>1, <2>2, <3>1, PoolKept DEF McpInv
    <2>7. TypeOK'
      <3>1. /\ sent' \in 0 .. Len(script') /\ read' \in 0 .. sent'
            /\ sent' - read' <= Capacity /\ Len(pipe') <= Capacity
            /\ stdin' \in {"open", "closed"} /\ stdout' \in {"open", "closed"}
        BY <1>1, <2>1, <2>2 DEF McpInv, TypeOK
      <3>2. reply' \in [id : {None} \cup 0 .. Len(script'), body : Bodies]
        BY <1>1, <2>1, <2>3 DEF NoReply, Bodies
      <3>3. pc' \in {"read", "write", "ok", "err"}
        BY <2>1
      <3> QED BY <2>5, <3>1, <3>2, <3>3 DEF TypeOK
    <2>8. pc' = "err" => script'[read'].kind = "undecodable" /\ reply' = NoReply /\ read' > 0
      BY <1>3, <2>1, <2>2, <2>3 DEF HasReply
    <2>9. pc' \in {"read", "ok"} => reply' = NoReply
      BY <2>1
    <2>10. pc' # "ok" /\ (pc' = "write" => reply' # NoReply)
      BY <2>1, <2>3
    <2> HIDE DEF l
    <2> QED BY <1>1, <2>1, <2>4, <2>6, <2>7, <2>8, <2>9, <2>10 DEF McpInv
  <1>5. CASE Write
    <2>1. /\ pc = "write" /\ Len(pipe) < Capacity
          /\ pipe' = Append(pipe, reply) /\ reply' = NoReply /\ pc' = "read"
          /\ UNCHANGED <<script, sent, stdin, stdout, received, read, pool>>
      BY <1>5 DEF Write, client
    <2>2. reply \in ReplyType
      BY <1>1 DEF McpInv, TypeOK, ReplyType
    <2>3. pipe' \in Seq(ReplyType) /\ Len(pipe') <= Capacity
      BY <1>1, <2>1, <2>2 DEF McpInv
    <2>4. AllReplies' = AllReplies
      BY <2>1, <2>2, MoveIn DEF McpInv, AllReplies
    <2>5. TypeOK'
      BY <1>1, <2>1, <2>3 DEF McpInv, TypeOK, NoReply, Bodies
    <2> QED BY <1>1, <1>2, <1>3, <2>1, <2>3, <2>4, <2>5 DEF McpInv, OneReplyEach
  <1>6. CASE Receive
    <2>1. /\ pipe # <<>> /\ received' = Append(received, Head(pipe)) /\ pipe' = Tail(pipe)
          /\ UNCHANGED <<script, sent, stdin, stdout, pc, read, reply, pool>>
      BY <1>6 DEF Receive
    <2>2. /\ received' \in Seq(ReplyType) /\ pipe' \in Seq(ReplyType)
          /\ Len(pipe') = Len(pipe) - 1 /\ received' \o pipe' = received \o pipe
      BY <2>1, MoveOut DEF McpInv
    <2>3. Len(pipe') <= Capacity
      <3>1. Len(pipe) \in Nat /\ Len(pipe) <= Capacity
        BY DEF McpInv, TypeOK
      <3> QED BY <1>1, <2>2, <3>1
    <2>4. AllReplies' = AllReplies
      BY <2>1, <2>2 DEF AllReplies
    <2>5. TypeOK'
      BY <2>1, <2>3 DEF McpInv, TypeOK
    <2> QED BY <1>1, <1>2, <1>3, <2>1, <2>2, <2>4, <2>5 DEF McpInv, OneReplyEach
  <1>7. CASE ReadEof \/ WriteFails
    <2>1. /\ UNCHANGED <<script, sent, stdin, stdout, received, read, reply, pipe, pool>>
          /\ \/ pc = "read" /\ read = sent /\ stdin = "closed" /\ pc' = "ok"
             \/ stdout = "closed" /\ pc' = "err"
      BY <1>7 DEF ReadEof, WriteFails, client
    <2>2. TypeOK' /\ AllReplies' = AllReplies
      BY <2>1 DEF McpInv, TypeOK, AllReplies
    <2> QED BY <1>1, <1>2, <1>3, <2>1, <2>2 DEF McpInv, OneReplyEach
  <1>8. CASE Send \/ CloseStdin \/ CloseStdout
    <2>1. /\ UNCHANGED <<script, received, pc, read, reply, pipe, pool>>
          /\ \/ pc \in {"read", "write"} /\ UNCHANGED <<stdin, stdout>> /\ sent' = sent + 1
                /\ sent < Len(script) /\ sent - read < Capacity
             \/ UNCHANGED <<sent, stdout>> /\ stdin' = "closed"
             \/ UNCHANGED <<sent, stdin>> /\ stdout' = "closed"
      BY <1>8 DEF Send, CloseStdin, CloseStdout, server, Running
    <2>2. TypeOK'
      BY <1>1, <2>1 DEF McpInv, TypeOK
    <2>3. AllReplies' = AllReplies
      BY <2>1 DEF AllReplies
    <2> QED BY <1>1, <1>2, <1>3, <2>1, <2>2, <2>3 DEF McpInv, OneReplyEach
  <1>9. CASE Ended \/ UNCHANGED vars
    <2>1. UNCHANGED <<script, sent, stdin, stdout, received, pc, read, reply, pipe, pool>>
      BY <1>9 DEF Ended, vars, client, server
    <2>2. TypeOK' /\ AllReplies' = AllReplies
      BY <2>1 DEF McpInv, TypeOK, AllReplies
    <2> QED BY <1>1, <1>2, <1>3, <2>1, <2>2 DEF McpInv, OneReplyEach
  <1> QED BY <1>4, <1>5, <1>6, <1>7, <1>8, <1>9 DEF Next, ServerStep

-----------------------------------------------------------------------------
(* What the invariant implies. *)

\* With no reply held back, the replies are the ones read or in the pipe.
LEMMA NothingHeld ==
  ASSUME McpInv, reply = NoReply
  PROVE  received \o pipe = Replies(read)
  <1>1. (received \o pipe) \o <<>> = received \o pipe
    BY DEF McpInv
  <1> QED BY <1>1 DEF McpInv, OneReplyEach, AllReplies

\* A clean end comes after the last reply.
LEMMA McpInvClean == McpInv => CleanEndIsComplete
  BY NothingHeld DEF McpInv, CleanEndIsComplete

\* A line that is not UTF-8 costs no reply to an earlier one.
LEMMA McpInvFailure == McpInv => FailureKeepsReplies
  <1> SUFFICES ASSUME McpInv, pc = "err", stdout # "closed"
               PROVE  /\ script[read].kind = "undecodable"
                      /\ received \o pipe = Replies(read - 1)
    BY DEF FailureKeepsReplies
  <1>1. reply = NoReply /\ read > 0 /\ script[read].kind = "undecodable"
    BY DEF McpInv
  <1>2. script \in Seq(Lines)
    BY McpAssumption DEF McpInv
  <1>3. read \in Nat
    BY <1>2 DEF McpInv, TypeOK
  <1> DEFINE n == read - 1
  <1>4. n \in Nat /\ n + 1 = read
    BY <1>1, <1>3
  <1> HIDE DEF n
  <1>5. ~Owed(script[n + 1])
    BY <1>1, <1>4 DEF Owed
  <1>6. Replies(n + 1) = Replies(n)
    BY <1>4, <1>5, NextNotOwed
  <1>7. received \o pipe = Replies(n)
    BY <1>1, <1>4, <1>6, NothingHeld
  <1> QED BY <1>1, <1>7 DEF n

-----------------------------------------------------------------------------
(* The theorems. *)

\* Every reply is where the invariant says it is.
THEOREM McpInvariant == Spec => []McpInv
  <1>1. Init => McpInv
    BY InitMcpInv
  <1>2. McpInv /\ [Next]_vars => McpInv'
    BY NextMcpInv
  <1> QED BY <1>1, <1>2, PTL DEF Spec

\* Every variable has its type and the pipes keep to their capacity.
THEOREM McpTypeCorrect == Spec => []TypeOK
  <1>1. McpInv => TypeOK
    BY DEF McpInv
  <1> QED BY <1>1, McpInvariant, PTL

\* Every request that was read has one reply, in the order of the requests.
THEOREM OneReplyEachAlways == Spec => []OneReplyEach
  <1>1. McpInv => OneReplyEach
    BY DEF McpInv
  <1> QED BY <1>1, McpInvariant, PTL

\* The server ends well only after the last reply.
THEOREM CleanEndIsCompleteAlways == Spec => []CleanEndIsComplete
  <1> QED BY McpInvClean, McpInvariant, PTL

\* A line that is not UTF-8 costs no reply to an earlier one.
THEOREM FailureKeepsRepliesAlways == Spec => []FailureKeepsReplies
  <1> QED BY McpInvFailure, McpInvariant, PTL

\* The first call that wants a pool sizes it for the session.
THEOREM FirstCallSizesPoolAlways == Spec => []FirstCallSizesPool
  <1>1. McpInv => FirstCallSizesPool
    BY DEF McpInv
  <1> QED BY <1>1, McpInvariant, PTL
=============================================================================
