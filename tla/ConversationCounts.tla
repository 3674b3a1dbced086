-------------------------- MODULE ConversationCounts --------------------------
(***************************************************************************)
(* The properties of Conversation that count requests and replies under    *)
(* way: how often a request to be added is asked, and how often a list of  *)
(* rooms is filled.                                                        *)
(***************************************************************************)
EXTENDS ConversationProofs, FiniteSetTheorems

\* How many entries of a queue are in M.
Held(q, M) == {i \in 1..Len(q) : q[i] \in M}
Num(q, M)  == Cardinality(Held(q, M))

LEMMA NumType ==
  ASSUME NEW S, NEW q \in Seq(S), NEW M
  PROVE  IsFiniteSet(Held(q, M)) /\ Num(q, M) \in Nat
<1>1. IsFiniteSet(1..Len(q)) /\ Held(q, M) \in SUBSET (1..Len(q))
  BY FS_Interval DEF Held
<1>2. IsFiniteSet(Held(q, M))
  BY <1>1, FS_Subset
<1> QED
  BY <1>2, FS_CardinalityType DEF Num

LEMMA NumEmpty == ASSUME NEW M PROVE Num(<<>>, M) = 0
<1>1. Held(<<>>, M) = {}
  BY DEF Held
<1> QED
  BY <1>1, FS_EmptySet DEF Num

LEMMA NumAppend ==
  ASSUME NEW S, NEW q \in Seq(S), NEW x \in S, NEW M
  PROVE  Num(Append(q, x), M) = Num(q, M) + IF x \in M THEN 1 ELSE 0
<1> DEFINE n == Len(q) + 1
<1>1. /\ Len(Append(q, x)) = n /\ Append(q, x)[n] = x
      /\ \A i \in 1..Len(q) : Append(q, x)[i] = q[i]
      /\ 1..n = 1..Len(q) \cup {n} /\ n \notin 1..Len(q)
  OBVIOUS
<1>2. IsFiniteSet(Held(q, M)) /\ n \notin Held(q, M)
  BY <1>1, NumType DEF Held
<1>3. CASE x \in M
  <2>1. Held(Append(q, x), M) = Held(q, M) \cup {n}
    BY <1>1, <1>3 DEF Held
  <2> QED
    BY <1>2, <1>3, <2>1, FS_AddElement DEF Num
<1>4. CASE x \notin M
  <2>1. Held(Append(q, x), M) = Held(q, M)
    BY <1>1, <1>4 DEF Held
  <2>2. Num(q, M) \in Nat
    BY NumType
  <2> QED
    BY <1>4, <2>1, <2>2 DEF Num
<1> QED
  BY <1>3, <1>4

\* The entries of the tail, one place further back.
LEMMA NumTail ==
  ASSUME NEW S, NEW q \in Seq(S), q # <<>>, NEW M
  PROVE  Num(q, M) = Num(Tail(q), M) + IF Head(q) \in M THEN 1 ELSE 0
<1> DEFINE t == Tail(q)
           f == [i \in Held(t, M) |-> i + 1]
           later == Held(q, M) \ {1}
<1>1. t \in Seq(S) /\ Len(q) = Len(t) + 1 /\ Head(q) = q[1] /\ 1 \in 1..Len(q)
      /\ \A i \in 1..Len(t) : t[i] = q[i + 1]
  OBVIOUS
<1> HIDE DEF t
<1>2. /\ \A i \in Held(t, M) : i \in Nat /\ i + 1 \in later
      /\ \A j \in later : j - 1 \in Held(t, M) /\ j \in Nat
  BY <1>1 DEF Held
<1>3. f \in Bijection(Held(t, M), later)
  <2>1. f \in [Held(t, M) -> later]
    BY <1>2
  <2>2. \A i, j \in Held(t, M) : f[i] = f[j] => i = j
    BY <1>2
  <2>3. \A j \in later : \E i \in Held(t, M) : f[i] = j
    <3> SUFFICES ASSUME NEW j \in later PROVE \E i \in Held(t, M) : f[i] = j
      OBVIOUS
    <3>1. j - 1 \in Held(t, M) /\ f[j - 1] = j
      BY <1>2
    <3> QED
      BY <3>1
  <2> QED
    BY <2>1, <2>2, <2>3 DEF Bijection, Injection, Surjection, IsInjective
<1>4. IsFiniteSet(Held(t, M)) /\ IsFiniteSet(Held(q, M)) /\ Num(t, M) \in Nat /\ Num(q, M) \in Nat
  BY <1>1, NumType
<1>5. Cardinality(later) = Num(t, M)
  BY <1>3, <1>4, FS_Bijection DEF ExistsBijection, Num
<1>6. Cardinality(later) = IF 1 \in Held(q, M) THEN Num(q, M) - 1 ELSE Num(q, M)
  BY <1>4, FS_RemoveElement DEF Num
<1>7. 1 \in Held(q, M) <=> Head(q) \in M
  BY <1>1 DEF Held
<1> QED
  BY <1>4, <1>5, <1>6, <1>7 DEF t

LEMMA NumConcat ==
  ASSUME NEW S, NEW q \in Seq(S), NEW r \in Seq(S), NEW M, \A i \in 1..Len(r) : r[i] \notin M
  PROVE  Num(q \o r, M) = Num(q, M)
<1>1. /\ Len(q \o r) = Len(q) + Len(r) /\ Len(q) \in Nat /\ Len(r) \in Nat
      /\ \A i \in 1..Len(q) : i \in 1..Len(q \o r) /\ (q \o r)[i] = q[i]
  OBVIOUS
<1>2. Held(q \o r, M) \subseteq Held(q, M)
  BY ConcatParts DEF Held
<1>3. Held(q, M) \subseteq Held(q \o r, M)
  BY <1>1 DEF Held
<1>4. Held(q \o r, M) = Held(q, M)
  BY <1>2, <1>3
<1> QED
  BY <1>4 DEF Num

-----------------------------------------------------------------------------
(***************************************************************************)
(* Requests of one kind, and replies that will ask about one item.         *)
(***************************************************************************)
Of(op)  == {m \in Messages(Requests \cup Replies) : m.op = op}
With(a) == {m \in Of("adds") : a \in ToSet(m.of)}

\* How often the current login has asked about a request to be added and may ask yet: a
\* listing that is still to be made, replies, and the request itself that is still to come.
Coming(a) == Num(toServer, Of("getAdds")) + Num(toClient, With(a)) + prompted[a]
             + IF a \in arrived THEN 0 ELSE 1

Twice == \A a \in Adds : Coming(a) <= 2

\* Nothing is left of a session that is gone.
Cleared == ~online => roomlist = "unset" /\ \A a \in Adds : prompted[a] = 0

CInv == Twice /\ Cleared /\ ListIsFilledOnce

LEMMA MessageOf ==
  ASSUME NEW m, m \in Messages(Requests) \/ m \in Messages(Replies)
  PROVE  /\ m \in Messages(Requests \cup Replies)
         /\ \A op : m \in Of(op) <=> m.op = op
         /\ \A a : m \in With(a) <=> m.op = "adds" /\ a \in ToSet(m.of)
  BY DEF Messages, Of, With

LEMMA CountIsNum ==
  ASSUME NEW q, q \in Seq(Messages(Requests)) \/ q \in Seq(Messages(Replies)), NEW op
  PROVE  Count(q, op) = Num(q, Of(op))
<1>1. \A i \in 1..Len(q) : q[i] \in Messages(Requests) \/ q[i] \in Messages(Replies)
  OBVIOUS
<1>2. \A i \in 1..Len(q) : q[i] \in Of(op) <=> q[i].op = op
  BY <1>1, MessageOf
<1>3. Held(q, Of(op)) = {i \in 1..Len(q) : q[i].op = op}
  BY <1>2 DEF Held
<1> QED
  BY <1>3 DEF Count, Num

\* The numbers of this state, and that they are numbers.
LEMMA Numbers ==
  ASSUME TypeOK
  PROVE  /\ Outstanding = Num(toServer, Of("getRooms")) + Num(toClient, Of("rooms"))
         /\ \A M : Num(toServer, M) \in Nat /\ Num(toClient, M) \in Nat
         /\ filled \in Nat /\ \A a \in Adds : prompted[a] \in Nat
<1>1. toServer \in Seq(Messages(Requests)) /\ toClient \in Seq(Messages(Replies))
  BY DEF TypeOK
<1>2. \A op : Count(toServer, op) = Num(toServer, Of(op)) /\ Count(toClient, op) = Num(toClient, Of(op))
  BY <1>1, CountIsNum
<1>3. \A M : Num(toServer, M) \in Nat /\ Num(toClient, M) \in Nat
  BY <1>1, NumType
<1>4. filled \in Nat /\ \A a \in Adds : prompted[a] \in Nat
  BY DEF TypeOK
<1> QED
  BY <1>2, <1>3, <1>4 DEF Outstanding

LEMMA NumbersNext ==
  ASSUME TypeOK'
  PROVE  /\ Outstanding' = Num(toServer', Of("getRooms")) + Num(toClient', Of("rooms"))
         /\ \A M : Num(toServer', M) \in Nat /\ Num(toClient', M) \in Nat
         /\ filled' \in Nat /\ \A a \in Adds : prompted'[a] \in Nat
<1>1. toServer' \in Seq(Messages(Requests)) /\ toClient' \in Seq(Messages(Replies))
  BY DEF TypeOK
<1>2. \A op : Count(toServer', op) = Num(toServer', Of(op)) /\ Count(toClient', op) = Num(toClient', Of(op))
  BY <1>1, CountIsNum
<1>3. \A M : Num(toServer', M) \in Nat /\ Num(toClient', M) \in Nat
  BY <1>1, NumType
<1>4. filled' \in Nat /\ \A a \in Adds : prompted'[a] \in Nat
  BY DEF TypeOK
<1> QED
  BY <1>2, <1>3, <1>4 DEF Outstanding, Count

-----------------------------------------------------------------------------
(***************************************************************************)
(* What a step does to the queues.                                         *)
(***************************************************************************)

\* A reply is handled.
LEMMA TakenNums ==
  ASSUME TypeOK, toClient # <<>>, Taken
  PROVE  /\ Head(toClient) \in Messages(Replies)
         /\ \A M : Head(toClient) \in M => Num(toClient, M) = Num(toClient', M) + 1
         /\ \A M : Head(toClient) \notin M => Num(toClient', M) = Num(toClient, M)
<1>1. toClient \in Seq(Messages(Replies)) /\ toClient' = Tail(toClient)
  BY DEF TypeOK, Taken
<1>2. Head(toClient) \in Messages(Replies) /\ toClient' \in Seq(Messages(Replies))
  BY <1>1
<1>3. ASSUME NEW M
      PROVE  /\ Head(toClient) \in M => Num(toClient, M) = Num(toClient', M) + 1
             /\ Head(toClient) \notin M => Num(toClient', M) = Num(toClient, M)
  <2>1. Num(toClient', M) \in Nat
    BY <1>2, NumType
  <2> QED
    BY <1>1, <2>1, NumTail
<1> QED
  BY <1>2, <1>3

\* Requests are written.
LEMMA WrittenNums ==
  ASSUME TypeOK, NEW q \in Seq(Messages(Requests)), Write(q), NEW op,
         \A i \in 1..Len(q) : q[i].op # op
  PROVE  Num(toServer', Of(op)) = Num(toServer, Of(op))
<1>1. toServer \in Seq(Messages(Requests)) /\ toServer' = toServer \o q
  BY DEF TypeOK, Write
<1>2. \A i \in 1..Len(q) : q[i] \notin Of(op)
  BY DEF Of
<1> QED
  BY <1>1, <1>2, NumConcat

\* The server handles a request of one kind.
LEMMA ServedNums ==
  ASSUME TypeOK, NEW ops, NextRequest(ops)
  PROVE  /\ toServer # <<>> /\ Head(toServer) \in Messages(Requests) /\ Head(toServer).op \in ops
         /\ \A M : Head(toServer) \in M => Num(toServer, M) = Num(toServer', M) + 1
         /\ \A M : Head(toServer) \notin M => Num(toServer', M) = Num(toServer, M)
<1>1. toServer \in Seq(Messages(Requests)) /\ toServer # <<>> /\ toServer' = Tail(toServer)
  BY DEF TypeOK, NextRequest
<1>2. Head(toServer) \in Messages(Requests) /\ toServer' \in Seq(Messages(Requests))
  BY <1>1
<1>3. ASSUME NEW M
      PROVE  /\ Head(toServer) \in M => Num(toServer, M) = Num(toServer', M) + 1
             /\ Head(toServer) \notin M => Num(toServer', M) = Num(toServer, M)
  <2>1. Num(toServer', M) \in Nat
    BY <1>2, NumType
  <2> QED
    BY <1>1, <2>1, NumTail
<1> QED
  BY <1>1, <1>2, <1>3 DEF NextRequest

\* The server replies.
LEMMA RepliedNums ==
  ASSUME TypeOK, NEW reply \in Messages(Replies), Reply(reply)
  PROVE  /\ \A M : reply \in M => Num(toClient', M) = Num(toClient, M) + 1
         /\ \A M : reply \notin M => Num(toClient', M) = Num(toClient, M)
<1>1. toClient \in Seq(Messages(Replies)) /\ toClient' = Append(toClient, reply)
  BY DEF TypeOK, Reply
<1>2. ASSUME NEW M
      PROVE  /\ reply \in M => Num(toClient', M) = Num(toClient, M) + 1
             /\ reply \notin M => Num(toClient', M) = Num(toClient, M)
  <2>1. Num(toClient, M) \in Nat
    BY <1>1, NumType
  <2> QED
    BY <1>1, <2>1, NumAppend
<1> QED
  BY <1>2

-----------------------------------------------------------------------------
(***************************************************************************)
(* Each action keeps the counts.                                           *)
(***************************************************************************)

\* Nothing is coming to a session that is gone but the request itself.
LEMMA GoneCounts ==
  ASSUME toServer' = <<>>, toClient' = <<>>, online' = FALSE,
         prompted' = [a \in Adds |-> 0], roomlist' = "unset"
  PROVE  CInv'
<1>1. \A a \in Adds : Num(toServer', Of("getAdds")) = 0 /\ Num(toClient', With(a)) = 0
  BY NumEmpty
<1>2. Twice'
  BY <1>1 DEF Twice, Coming, Num, Held
<1> QED
  BY <1>2 DEF CInv, Cleared, ListIsFilledOnce

LEMMA ComingNext ==
  ASSUME NEW a
  PROVE  Coming(a)' = Num(toServer', Of("getAdds")) + Num(toClient', With(a)) + prompted'[a]
                      + IF a \in arrived' THEN 0 ELSE 1
  BY DEF Coming, Num, Held

LEMMA ComingInt ==
  ASSUME TypeOK, NEW a \in Adds PROVE Coming(a) \in Nat
  BY Numbers DEF Coming

\* A step of a session that goes on, after which no more is coming and the list has
\* as many answers.
LEMMA NoMoreIsComing ==
  ASSUME TypeOK, CInv, online, UNCHANGED <<online, roomlist, overlapped>>,
         filled' + Outstanding' = filled + Outstanding,
         \A a \in Adds : Coming(a)' \in Int /\ Coming(a)' <= Coming(a)
  PROVE  CInv'
<1>1. Twice'
  <2> SUFFICES ASSUME NEW a \in Adds PROVE Coming(a)' <= 2
    BY DEF Twice
  <2>1. Coming(a)' \in Int /\ Coming(a)' <= Coming(a) /\ Coming(a) <= 2 /\ Coming(a) \in Nat
    BY ComingInt DEF CInv, Twice
  <2> QED
    BY <2>1
<1>2. ListIsFilledOnce'
  <2>1. roomlist = "list" => /\ filled + Outstanding >= 1
                             /\ filled + Outstanding > 1 => overlapped
    BY DEF CInv, ListIsFilledOnce
  <2> QED
    BY <2>1 DEF ListIsFilledOnce
<1> QED
  BY <1>1, <1>2 DEF CInv, Cleared

\* Neither queue gets or loses what is counted: the offline messages are handled.
LEMMA MailsShownCounts ==
  ASSUME IInv, TypeOK', CInv, OfflineMessages PROVE CInv'
<1> DEFINE list == Head(toClient).of
<1>1. TypeOK /\ online /\ toClient # <<>> /\ Head(toClient).op = "mails" /\ arrived' = arrived
  BY DEF IInv, OfflineMessages
<1>2. PICK n \in 0..Len(list) : MailsShown(list, n) \/ MailsAbort(list, n) \/ MailsCutOff(list, n)
  BY DEF OfflineMessages
<1>3. CASE MailsShown(list, n)
  <2> DEFINE q == DeleteShown(list, n)
  <2>1. Write(q) /\ Taken /\ UNCHANGED <<online, prompted, roomlist, asked, filled, overlapped>>
    BY <1>3 DEF MailsShown, rooms
  <2>2. Head(toClient) \in Messages(Replies)
        /\ \A M : Head(toClient) \notin M => Num(toClient', M) = Num(toClient, M)
    BY <1>1, <2>1, TakenNums
  <2>3. q \in Seq(Messages(Requests)) /\ \A i \in 1..Len(q) : q[i].op = "delMail"
    <3>1. list \in Seq(Items)
      BY <2>2 DEF Messages
    <3>2. \A i \in 1..n : Msg("delMail", <<list[i]>>) \in Messages(Requests)
      BY <3>1 DEF Msg, Messages, Requests
    <3> QED
      BY <3>2 DEF DeleteShown, Msg
  <2> HIDE DEF q
  <2>4. Num(toServer', Of("getAdds")) = Num(toServer, Of("getAdds"))
        /\ Num(toServer', Of("getRooms")) = Num(toServer, Of("getRooms"))
    BY <1>1, <2>1, <2>3, WrittenNums
  <2>5. \A a : Head(toClient) \notin With(a) /\ Head(toClient) \notin Of("rooms")
    BY <1>1, <2>2, MessageOf
  <2>6. /\ Num(toClient', Of("rooms")) = Num(toClient, Of("rooms"))
        /\ \A a \in Adds : Num(toClient', With(a)) = Num(toClient, With(a))
    BY <2>2, <2>5
  <2>7. filled' + Outstanding' = filled + Outstanding
    BY <1>1, <2>1, <2>4, <2>6, Numbers, NumbersNext
  <2>8. ASSUME NEW a \in Adds PROVE Coming(a)' = Coming(a) /\ Coming(a) \in Nat
    <3>1. Coming(a)' = Coming(a)
      BY <1>1, <2>1, <2>4, <2>6, ComingNext DEF Coming
    <3> QED
      BY <1>1, <3>1, ComingInt
  <2> QED
    BY <1>1, <2>1, <2>7, <2>8, NoMoreIsComing
<1>4. CASE MailsAbort(list, n) \/ MailsCutOff(list, n)
  <2>1. \E q : Gone(q)
    BY <1>4 DEF MailsAbort, MailsCutOff
  <2> QED
    BY <2>1, GoneCounts DEF Gone
<1> QED
  BY <1>2, <1>3, <1>4

\* The user is asked about each request in the reply.
LEMMA AddRequestsCounts ==
  ASSUME IInv, TypeOK', CInv, AddRequests PROVE CInv'
<1> DEFINE reply == Head(toClient)
<1>1. /\ TypeOK /\ online /\ toClient # <<>> /\ reply.op = "adds" /\ Taken
      /\ UNCHANGED <<toServer, online, roomlist, filled, overlapped, arrived>>
      /\ prompted' = OneMore(prompted, reply.of) /\ prompted \in [Adds -> Nat]
  BY DEF IInv, AddRequests, rooms, TypeOK
<1>2. /\ reply \in Messages(Replies)
      /\ \A M : reply \in M => Num(toClient, M) = Num(toClient', M) + 1
      /\ \A M : reply \notin M => Num(toClient', M) = Num(toClient, M)
  BY <1>1, TakenNums
<1> HIDE DEF reply
<1>3. /\ reply \notin Of("rooms") /\ \A a : reply \in With(a) <=> a \in ToSet(reply.of)
      /\ \A a \in Adds : prompted'[a] = prompted[a] + IF a \in ToSet(reply.of) THEN 1 ELSE 0
  BY <1>1, <1>2, MessageOf, OneMoreType
<1>4. filled' + Outstanding' = filled + Outstanding
  <2>1. Num(toClient', Of("rooms")) = Num(toClient, Of("rooms"))
    BY <1>2, <1>3
  <2> QED
    BY <1>1, <2>1, Numbers, NumbersNext
<1>5. ASSUME NEW a \in Adds PROVE Coming(a)' = Coming(a) /\ Coming(a) \in Nat
  <2>1. CASE a \in ToSet(reply.of)
    <3>1. Num(toClient, With(a)) = Num(toClient', With(a)) + 1 /\ prompted'[a] = prompted[a] + 1
      BY <1>1, <1>2, <1>3, <2>1
    <3>2. /\ Num(toClient', With(a)) \in Nat /\ prompted[a] \in Nat /\ Num(toServer, Of("getAdds")) \in Nat
      BY <1>1, Numbers, NumbersNext
    <3> QED
      BY <1>1, <3>1, <3>2, ComingNext, ComingInt DEF Coming
  <2>2. CASE a \notin ToSet(reply.of)
    <3>1. Num(toClient', With(a)) = Num(toClient, With(a)) /\ prompted'[a] = prompted[a]
      BY <1>1, <1>2, <1>3, <2>2, Numbers
    <3> QED
      BY <1>1, <3>1, ComingNext, ComingInt DEF Coming
  <2> QED
    BY <2>1, <2>2
<1> QED
  BY <1>1, <1>4, <1>5, NoMoreIsComing

\* A prompt is answered, which does not undo that it was asked.
LEMMA AnswerCounts ==
  ASSUME IInv, TypeOK', CInv, NEW b \in Adds, Answer(b) PROVE CInv'
<1>1. /\ TypeOK /\ online
      /\ UNCHANGED <<toClient, online, prompted, roomlist, filled, overlapped, arrived>>
  BY DEF IInv, Answer, rooms
<1>2. PICK op \in {"accept", "deny"} : Write(<<Msg(op, <<b>>)>>)
  BY DEF Answer
<1> DEFINE q == <<Msg(op, <<b>>)>>
<1>3. /\ q \in Seq(Messages(Requests)) /\ Write(q)
      /\ \A i \in 1..Len(q) : q[i].op # "getAdds" /\ q[i].op # "getRooms"
  BY <1>2 DEF Msg, Messages, Requests, Items
<1> HIDE DEF q
<1>4. Num(toServer', Of("getAdds")) = Num(toServer, Of("getAdds"))
      /\ Num(toServer', Of("getRooms")) = Num(toServer, Of("getRooms"))
  BY <1>1, <1>3, WrittenNums
<1>5. filled' + Outstanding' = filled + Outstanding
  BY <1>1, <1>4, Numbers, NumbersNext
<1>6. \A a \in Adds : Coming(a)' = Coming(a) /\ Coming(a) \in Nat
  BY <1>1, <1>4, ComingNext, ComingInt DEF Coming
<1> QED
  BY <1>1, <1>5, <1>6, NoMoreIsComing

\* A new list, and one more answer outstanding.
LEMMA AskRoomsCounts ==
  ASSUME IInv, TypeOK', CInv, AskRooms PROVE CInv'
<1> DEFINE q == <<Msg("getRooms", <<>>)>>
<1>1. /\ TypeOK /\ online /\ filled' = 0 /\ roomlist' = "list" /\ overlapped' = (Outstanding > 0)
      /\ UNCHANGED <<toClient, online, prompted, arrived>> /\ Write(q)
  BY DEF IInv, AskRooms, NewList, rooms
<1>2. /\ q \in Seq(Messages(Requests)) /\ Len(q) = 1 /\ q[1].op = "getRooms"
      /\ Msg("getRooms", <<>>) \in Messages(Requests) /\ Msg("getRooms", <<>>).op = "getRooms"
  BY DEF Msg, Messages, Requests
<1> HIDE DEF q
<1>3. Num(toServer', Of("getAdds")) = Num(toServer, Of("getAdds"))
  BY <1>1, <1>2, WrittenNums
<1>4. Num(toServer', Of("getRooms")) = Num(toServer, Of("getRooms")) + 1
  <2>1. toServer' = Append(toServer, Msg("getRooms", <<>>)) /\ toServer \in Seq(Messages(Requests))
    BY <1>1, <1>2 DEF Write, TypeOK, q
  <2> QED
    BY <1>2, <2>1, MessageOf, NumAppend
<1>5. Outstanding' = Outstanding + 1 /\ Outstanding \in Nat
  BY <1>1, <1>4, Numbers, NumbersNext
<1>6. ListIsFilledOnce'
  <2>1. filled' + Outstanding' >= 1 /\ (filled' + Outstanding' > 1 => Outstanding > 0)
    BY <1>1, <1>5
  <2> QED
    BY <1>1, <2>1, Zenon DEF ListIsFilledOnce
<1>7. Twice'
  <2>1. \A a \in Adds : Coming(a)' = Coming(a)
    BY <1>1, <1>3, ComingNext DEF Coming
  <2> QED
    BY <2>1 DEF CInv, Twice
<1> QED
  BY <1>1, <1>6, <1>7 DEF CInv, Cleared

\* One answer fewer is outstanding, and the list is filled once more.
LEMMA ChatRoomsCounts ==
  ASSUME IInv, TypeOK', CInv, ChatRooms PROVE CInv'
<1> DEFINE reply == Head(toClient)
<1>1. /\ TypeOK /\ online /\ toClient # <<>> /\ reply.op = "rooms" /\ Taken /\ filled' = filled + 1
      /\ UNCHANGED <<toServer, online, prompted, roomlist, overlapped, arrived>>
  BY DEF IInv, ChatRooms
<1>2. /\ reply \in Messages(Replies)
      /\ \A M : reply \in M => Num(toClient, M) = Num(toClient', M) + 1
      /\ \A M : reply \notin M => Num(toClient', M) = Num(toClient, M)
  BY <1>1, TakenNums
<1> HIDE DEF reply
<1>3. reply \in Of("rooms") /\ \A a : reply \notin With(a)
  BY <1>1, <1>2, MessageOf
<1>4. filled' + Outstanding' = filled + Outstanding
  <2>1. Num(toClient, Of("rooms")) = Num(toClient', Of("rooms")) + 1
    BY <1>2, <1>3
  <2> QED
    BY <1>1, <2>1, Numbers, NumbersNext
<1>5. \A a \in Adds : Coming(a)' = Coming(a) /\ Coming(a) \in Nat
  <2>1. \A a \in Adds : Num(toClient', With(a)) = Num(toClient, With(a))
    BY <1>2, <1>3
  <2> QED
    BY <1>1, <2>1, ComingNext, ComingInt DEF Coming
<1> QED
  BY <1>1, <1>4, <1>5, NoMoreIsComing

\* The server lists what it keeps: the listing of requests to be added is under way in
\* the one direction or the other.
LEMMA ListingCounts ==
  ASSUME IInv, TypeOK', CInv, NEW ask \in {"getMails", "getAdds", "getRooms"},
         NEW reply \in Messages(Replies), NextRequest({ask}), Reply(reply),
         reply.op = CASE ask = "getMails" -> "mails" [] ask = "getAdds" -> "adds" [] OTHER -> "rooms"
  PROVE  CInv'
<1> DEFINE request == Head(toServer)
<1>1. TypeOK /\ online /\ UNCHANGED <<online, prompted, roomlist, filled, overlapped, arrived>>
  BY DEF IInv, NextRequest, rooms
<1>2. /\ request \in Messages(Requests) /\ request.op = ask
      /\ \A M : request \in M => Num(toServer, M) = Num(toServer', M) + 1
      /\ \A M : request \notin M => Num(toServer', M) = Num(toServer, M)
  BY <1>1, ServedNums
<1>3. /\ \A M : reply \in M => Num(toClient', M) = Num(toClient, M) + 1
      /\ \A M : reply \notin M => Num(toClient', M) = Num(toClient, M)
  BY <1>1, RepliedNums
<1> HIDE DEF request
<1>4. request \in Of("getRooms") <=> reply \in Of("rooms")
  BY <1>2, MessageOf
<1>5. \A a : reply \in With(a) => request \in Of("getAdds")
  BY <1>2, MessageOf
<1>6. filled' + Outstanding' = filled + Outstanding
  <2>1. CASE request \in Of("getRooms")
    <3>1. /\ Num(toServer, Of("getRooms")) = Num(toServer', Of("getRooms")) + 1
          /\ Num(toClient', Of("rooms")) = Num(toClient, Of("rooms")) + 1
      BY <1>2, <1>3, <1>4, <2>1
    <3> QED
      BY <1>1, <3>1, Numbers, NumbersNext
  <2>2. CASE request \notin Of("getRooms")
    <3>1. /\ Num(toServer', Of("getRooms")) = Num(toServer, Of("getRooms"))
          /\ Num(toClient', Of("rooms")) = Num(toClient, Of("rooms"))
      BY <1>2, <1>3, <1>4, <2>2
    <3> QED
      BY <1>1, <3>1, Numbers, NumbersNext
  <2> QED
    BY <2>1, <2>2
<1>7. ASSUME NEW a \in Adds PROVE Coming(a)' \in Int /\ Coming(a)' <= Coming(a)
  <2>1. /\ Num(toServer, Of("getAdds")) \in Nat /\ Num(toServer', Of("getAdds")) \in Nat
        /\ Num(toClient, With(a)) \in Nat /\ Num(toClient', With(a)) \in Nat
        /\ prompted[a] \in Nat
    BY <1>1, Numbers, NumbersNext
  <2>2. Num(toServer', Of("getAdds")) + Num(toClient', With(a))
        <= Num(toServer, Of("getAdds")) + Num(toClient, With(a))
    <3>1. CASE reply \in With(a)
      <4>1. /\ Num(toServer, Of("getAdds")) = Num(toServer', Of("getAdds")) + 1
            /\ Num(toClient', With(a)) = Num(toClient, With(a)) + 1
        BY <1>2, <1>3, <1>5, <3>1
      <4> QED
        BY <2>1, <4>1
    <3>2. CASE reply \notin With(a)
      <4>1. Num(toClient', With(a)) = Num(toClient, With(a))
        BY <1>3, <3>2
      <4>2. \/ Num(toServer', Of("getAdds")) = Num(toServer, Of("getAdds"))
            \/ Num(toServer, Of("getAdds")) = Num(toServer', Of("getAdds")) + 1
        BY <1>2
      <4> QED
        BY <2>1, <4>1, <4>2
    <3> QED
      BY <3>1, <3>2
  <2> QED
    BY <1>1, <2>1, <2>2, ComingNext DEF Coming
<1> QED
  BY <1>1, <1>6, <1>7, NoMoreIsComing

\* A deletion or an answer is settled.
LEMMA SettleCounts ==
  ASSUME IInv, TypeOK', CInv, Settle PROVE CInv'
<1>1. /\ TypeOK /\ online /\ toClient' = toClient /\ NextRequest(Decisions)
      /\ UNCHANGED <<online, prompted, roomlist, filled, overlapped, arrived>>
  BY DEF IInv, Settle, Forget, NextRequest, rooms
<1>2. /\ Head(toServer) \in Messages(Requests) /\ Head(toServer).op \in Decisions
      /\ \A M : Head(toServer) \notin M => Num(toServer', M) = Num(toServer, M)
  BY <1>1, ServedNums
<1>3. Head(toServer) \notin Of("getRooms") /\ Head(toServer) \notin Of("getAdds")
  BY <1>2, MessageOf DEF Decisions
<1>4. /\ Num(toServer', Of("getRooms")) = Num(toServer, Of("getRooms"))
      /\ Num(toServer', Of("getAdds")) = Num(toServer, Of("getAdds"))
  BY <1>2, <1>3
<1>5. filled' + Outstanding' = filled + Outstanding
  BY <1>1, <1>4, Numbers, NumbersNext
<1>6. \A a \in Adds : Coming(a)' = Coming(a) /\ Coming(a) \in Nat
  BY <1>1, <1>4, ComingNext, ComingInt DEF Coming
<1> QED
  BY <1>1, <1>5, <1>6, NoMoreIsComing

\* Steps that leave session and queues alone.
LEMMA SilentCounts ==
  ASSUME IInv, TypeOK', CInv, arrived \subseteq arrived',
         UNCHANGED <<toServer, toClient, online, prompted, roomlist, filled, overlapped>>
  PROVE  CInv'
<1>1. TypeOK
  BY DEF IInv
<1>2. Outstanding' = Outstanding
  BY DEF Outstanding, Count
<1>3. ASSUME NEW a \in Adds PROVE Coming(a)' <= 2
  <2>1. Coming(a) \in Nat /\ Coming(a) <= 2
    BY <1>1, ComingInt DEF CInv, Twice
  <2>2. Num(toServer, Of("getAdds")) \in Nat /\ Num(toClient, With(a)) \in Nat /\ prompted[a] \in Nat
    BY <1>1, Numbers
  <2> QED
    BY <2>1, <2>2, ComingNext DEF Coming
<1> QED
  BY <1>2, <1>3 DEF CInv, Twice, Cleared, ListIsFilledOnce

\* A request that arrives is pushed to a session that is there: it is no longer to
\* come, but under way.
LEMMA AddArrivesCounts ==
  ASSUME IInv, TypeOK', CInv, NEW b \in Adds, AddArrives(b) PROVE CInv'
<1>1. /\ TypeOK /\ b \notin arrived /\ arrived' = arrived \cup {b}
      /\ UNCHANGED <<toServer, online, prompted, roomlist, filled, overlapped>>
  BY DEF IInv, AddArrives, rooms
<1>2. CASE ~online
  <2>1. toClient' = toClient
    BY <1>2 DEF AddArrives
  <2> QED
    BY <1>1, <2>1, SilentCounts
<1>3. CASE online
  <2> DEFINE reply == Msg("adds", <<b>>)
  <2>1. reply \in Messages(Replies) /\ reply.op = "adds" /\ reply.of = <<b>> /\ ToSet(<<b>>) = {b}
    BY DEF Messages, Msg, Replies, Items, ToSet
  <2>2. Reply(reply)
    BY <1>3 DEF AddArrives
  <2> HIDE DEF reply
  <2>3. /\ \A M : reply \in M => Num(toClient', M) = Num(toClient, M) + 1
        /\ \A M : reply \notin M => Num(toClient', M) = Num(toClient, M)
    BY <1>1, <2>1, <2>2, RepliedNums
  <2>4. reply \notin Of("rooms") /\ \A a : reply \in With(a) <=> a = b
    BY <2>1, MessageOf
  <2>5. filled' + Outstanding' = filled + Outstanding
    <3>1. Num(toClient', Of("rooms")) = Num(toClient, Of("rooms"))
      BY <2>3, <2>4
    <3> QED
      BY <1>1, <3>1, Numbers, NumbersNext
  <2>6. ASSUME NEW a \in Adds PROVE Coming(a)' = Coming(a) /\ Coming(a) \in Nat
    <3>1. CASE a = b
      <4>1. Num(toClient', With(a)) = Num(toClient, With(a)) + 1 /\ a \in arrived' /\ a \notin arrived
        BY <1>1, <2>3, <2>4, <3>1
      <4>2. /\ Num(toClient, With(a)) \in Nat /\ prompted[a] \in Nat
            /\ Num(toServer, Of("getAdds")) \in Nat
        BY <1>1, Numbers
      <4> QED
        BY <1>1, <4>1, <4>2, ComingNext, ComingInt DEF Coming
    <3>2. CASE a # b
      <4>1. Num(toClient', With(a)) = Num(toClient, With(a)) /\ (a \in arrived' <=> a \in arrived)
        BY <1>1, <2>3, <2>4, <3>2
      <4> QED
        BY <1>1, <4>1, ComingNext, ComingInt DEF Coming
    <3> QED
      BY <3>1, <3>2
  <2> QED
    BY <1>1, <1>3, <2>5, <2>6, NoMoreIsComing
<1> QED
  BY <1>2, <1>3

\* A login asks for the requests to be added once; nothing else is under way.
LEMMA LoginCounts ==
  ASSUME IInv, TypeOK', CInv, Login PROVE CInv'
<1> DEFINE first  == Msg("getMails", <<>>)
           second == Msg("getAdds", <<>>)
<1>1. /\ toServer' = toServer \o <<first, second>> /\ toServer = <<>> /\ toClient = <<>>
      /\ UNCHANGED <<toClient, prompted, roomlist, filled, overlapped, arrived>>
      /\ roomlist = "unset" /\ \A a \in Adds : prompted[a] = 0
  BY DEF IInv, Listed, CInv, Cleared, Login, Write, rooms
<1>2. /\ first \in Messages(Requests) /\ second \in Messages(Requests)
      /\ first.op = "getMails" /\ second.op = "getAdds"
  BY DEF Msg, Messages, Requests
<1> HIDE DEF first, second
<1>3. toServer' = Append(Append(<<>>, first), second) /\ <<>> \in Seq(Messages(Requests))
      /\ Append(<<>>, first) \in Seq(Messages(Requests))
  BY <1>1, <1>2
<1>4. first \notin Of("getAdds") /\ second \in Of("getAdds")
  BY <1>2, MessageOf
<1>5. Num(toServer', Of("getAdds")) = 1
  <2> DEFINE M == Of("getAdds")
  <2>1. Num(<<>>, M) = 0
    BY NumEmpty
  <2> HIDE DEF M
  <2>2. Num(Append(<<>>, first), M) = Num(<<>>, M) + IF first \in M THEN 1 ELSE 0
    BY <1>2, <1>3, NumAppend
  <2>3. Num(toServer', M) = Num(Append(<<>>, first), M) + IF second \in M THEN 1 ELSE 0
    BY <1>2, <1>3, NumAppend
  <2>4. first \notin M /\ second \in M
    BY <1>4 DEF M
  <2>5. Num(toServer', M) = 1
    BY <2>1, <2>2, <2>3, <2>4
  <2> QED
    BY <2>5 DEF M
<1>6. \A a : Num(toClient', With(a)) = 0
  BY <1>1, NumEmpty
<1>7. Twice'
  BY <1>1, <1>5, <1>6, ComingNext DEF Twice
<1>8. online'
  BY DEF Login
<1> QED
  BY <1>1, <1>7, <1>8 DEF CInv, Cleared, ListIsFilledOnce

-----------------------------------------------------------------------------
LEMMA InitCounts == Init => CInv
<1> SUFFICES ASSUME Init PROVE CInv
  OBVIOUS
<1>1. toServer = <<>> /\ toClient = <<>> /\ \A M : Num(<<>>, M) = 0
  BY NumEmpty DEF Init
<1>2. Twice
  BY <1>1 DEF Init, Twice, Coming
<1> QED
  BY <1>2 DEF CInv, Cleared, ListIsFilledOnce, Init

LEMMA NextCounts == IInv /\ TypeOK' /\ CInv /\ [Next]_vars => CInv'
<1> SUFFICES ASSUME IInv, TypeOK', CInv, [Next]_vars PROVE CInv'
  OBVIOUS
<1>1. CASE Login
  BY <1>1, LoginCounts
<1>2. CASE SessionEnds
  BY <1>2, GoneCounts DEF SessionEnds, Gone
<1>3. CASE Handle
  BY <1>3, MailsShownCounts, AddRequestsCounts, ChatRoomsCounts DEF Handle
<1>4. ASSUME NEW a \in Adds, Answer(a) PROVE CInv'
  BY <1>4, AnswerCounts
<1>5. CASE AskRooms
  BY <1>5, AskRoomsCounts
<1>6. CASE ListMails
  <2>1. Msg("mails", mailbox) \in Messages(Replies) /\ Msg("mails", mailbox).op = "mails"
    BY Items1 DEF Msg, Messages, Replies, IInv, TypeOK
  <2> QED
    BY <1>6, <2>1, ListingCounts DEF ListMails
<1>7. CASE ListAdds
  <2>1. Msg("adds", pendingAdds) \in Messages(Replies) /\ Msg("adds", pendingAdds).op = "adds"
    BY Items1 DEF Msg, Messages, Replies, IInv, TypeOK
  <2> QED
    BY <1>7, <2>1, ListingCounts DEF ListAdds
<1>8. CASE ListRooms
  <2>1. Msg("rooms", <<>>) \in Messages(Replies) /\ Msg("rooms", <<>>).op = "rooms"
    BY DEF Msg, Messages, Replies
  <2> QED
    BY <1>8, <2>1, ListingCounts DEF ListRooms
<1>9. CASE Settle
  BY <1>9, SettleCounts
<1>10. CASE LateLost
  BY <1>10, SilentCounts DEF LateLost, rooms
<1>11. ASSUME NEW item \in Items, SettleLate(item) PROVE CInv'
  BY <1>11, SilentCounts DEF SettleLate, Forget, rooms
<1>12. ASSUME NEW m \in Mails, MailArrives(m) PROVE CInv'
  BY <1>12, SilentCounts DEF MailArrives, rooms
<1>13. ASSUME NEW a \in Adds, AddArrives(a) PROVE CInv'
  BY <1>13, AddArrivesCounts
<1>14. CASE UNCHANGED vars
  BY <1>14, SilentCounts DEF vars, rooms
<1> QED
  BY <1>1, <1>2, <1>3, <1>4, <1>5, <1>6, <1>7, <1>8, <1>9, <1>10, <1>11, <1>12, <1>13, <1>14
     DEF Next, Serve

\* What is coming to the user of one request to be added, and how often the list of
\* rooms will be filled, is bounded in every reachable state.
THEOREM Bounded == Spec => []CInv
<1>1. IInv => TypeOK
  BY DEF IInv
<1> QED
  BY <1>1, Invariance, InitCounts, NextCounts, PTL DEF Spec

\* A request to be added is asked at most twice in a login, whatever the user answers in
\* between: by parseContactAddRequest as it arrives, by parseOfflineAddContactResponse.
THEOREM AtMostTwice == Spec => []AskedAtMostTwice
<1>1. TypeOK /\ CInv => AskedAtMostTwice
  <2> SUFFICES ASSUME TypeOK, CInv, NEW a \in Adds PROVE prompted[a] <= 2
    BY DEF AskedAtMostTwice
  <2>1. /\ Num(toServer, Of("getAdds")) \in Nat /\ Num(toClient, With(a)) \in Nat
        /\ prompted[a] \in Nat /\ Coming(a) <= 2
    BY Numbers DEF CInv, Twice
  <2> QED
    BY <2>1 DEF Coming
<1> QED
  BY <1>1, TypeCorrect, Bounded, PTL

\* parseChatRoomsResponse fills the list of sendGetChatRoomsRequest once, unless the
\* user asked again before the answer came; and each list is filled or an answer will
\* fill it.
THEOREM FilledOnce == Spec => []ListIsFilledOnce
<1>1. CInv => ListIsFilledOnce
  BY DEF CInv
<1> QED
  BY <1>1, Bounded, PTL
=============================================================================
