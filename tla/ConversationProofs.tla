-------------------------- MODULE ConversationProofs --------------------------
(***************************************************************************)
(* That the conversation keeps the promise of Deliveries, and its safety   *)
(* properties, for all messages, requests, logins and lists.               *)
(***************************************************************************)
EXTENDS Conversation, TLAPS

\* Deletions and answers in a queue are about items of r.
Justified(queue, r) ==
  \A i \in 1..Len(queue) : queue[i].op \in Decisions => queue[i].of[1] \in r

\* Replies are about items of a.
About(queue, a) == \A i \in 1..Len(queue) : ToSet(queue[i].of) \subseteq a

Distinct(list) == \A i, j \in 1..Len(list) : list[i] = list[j] => i = j

\* What the server keeps, and what replies and prompts speak of, has arrived; what is
\* to be given up was shown or answered.
Known ==
  /\ kept \subseteq arrived /\ ready \subseteq arrived
  /\ Distinct(mailbox) /\ Distinct(pendingAdds)
  /\ About(toClient, arrived)
  /\ \A a \in Adds : prompts[a] > 0 => a \in arrived
  /\ Justified(toServer, ready) /\ late \subseteq ready

\* The kinds of requests or replies in a queue, and that one of them is there at most once.
Ops(queue) == {queue[i].op : i \in 1..Len(queue)}
Single(queue, op) ==
  \A i, j \in 1..Len(queue) : queue[i].op = op /\ queue[j].op = op => i = j

\* Nothing is under way on a connection that is gone.
Listed == RoomsFindAList /\ (~online => toServer = <<>> /\ toClient = <<>>)

\* The offline messages are under way at most once in a login, and before they are shown.
Shown ==
  /\ ShownOncePerLogin
  /\ Single(toServer, "getMails") /\ Single(toClient, "mails")
  /\ "getMails" \in Ops(toServer) => "mails" \notin Ops(toClient)
  /\ "getMails" \in Ops(toServer) \/ "mails" \in Ops(toClient) => \A m \in Mails : seen[m] = 0

IInv == TypeOK /\ Known /\ Listed /\ Shown

-----------------------------------------------------------------------------
(***************************************************************************)
(* Sequences.                                                              *)
(***************************************************************************)
LEMMA ToSetDef == ASSUME NEW S, NEW s \in Seq(S) PROVE ToSet(s) = {s[i] : i \in 1..Len(s)}
  BY DEF ToSet

LEMMA InToSet ==
  ASSUME NEW S, NEW s \in Seq(S), NEW x
  PROVE  x \in ToSet(s) <=> \E i \in 1..Len(s) : s[i] = x
  BY ToSetDef

LEMMA ConcatParts ==
  ASSUME NEW S, NEW p \in Seq(S), NEW q \in Seq(S), NEW i \in 1..Len(p \o q)
  PROVE  (i \in 1..Len(p) /\ (p \o q)[i] = p[i])
         \/ (i - Len(p) \in 1..Len(q) /\ (p \o q)[i] = q[i - Len(p)])
  OBVIOUS

LEMMA Concat ==
  ASSUME NEW S, NEW p \in Seq(S), NEW q \in Seq(S)
  PROVE  /\ p \o q \in Seq(S) /\ Len(p \o q) = Len(p) + Len(q)
         /\ \A i \in 1..(Len(p) + Len(q)) :
              (p \o q)[i] = IF i <= Len(p) THEN p[i] ELSE q[i - Len(p)]
  OBVIOUS

LEMMA TailParts ==
  ASSUME NEW S, NEW s \in Seq(S), s # <<>>
  PROVE  /\ Tail(s) \in Seq(S) /\ Head(s) \in S /\ Head(s) = s[1] /\ 1 \in 1..Len(s)
         /\ \A i \in 1..Len(Tail(s)) : i + 1 \in 1..Len(s) /\ Tail(s)[i] = s[i + 1]
  OBVIOUS

LEMMA AppendSet ==
  ASSUME NEW S, NEW s \in Seq(S), NEW x \in S
  PROVE  Append(s, x) \in Seq(S) /\ ToSet(Append(s, x)) = ToSet(s) \cup {x}
<1>1. Append(s, x) \in Seq(S) /\ Len(Append(s, x)) = Len(s) + 1 /\ Append(s, x)[Len(s) + 1] = x
      /\ \A i \in 1..Len(s) : Append(s, x)[i] = s[i]
  OBVIOUS
<1>2. Len(s) + 1 \in 1..Len(Append(s, x)) /\ 1..Len(Append(s, x)) = 1..Len(s) \cup {Len(s) + 1}
  BY <1>1
<1>3. ASSUME NEW y PROVE y \in ToSet(Append(s, x)) <=> y \in ToSet(s) \/ y = x
  <2> DEFINE t == Append(s, x)
  <2>1. y \in ToSet(t) <=> \E i \in 1..Len(t) : t[i] = y
    BY <1>1, InToSet
  <2>2. y \in ToSet(s) <=> \E i \in 1..Len(s) : s[i] = y
    BY InToSet
  <2> QED
    BY <1>1, <1>2, <2>1, <2>2
<1> QED
  BY <1>1, <1>3

LEMMA AppendDistinct ==
  ASSUME NEW S, NEW s \in Seq(S), NEW x \in S, Distinct(s), x \notin ToSet(s)
  PROVE  Distinct(Append(s, x))
<1>1. \A i \in 1..Len(s) : s[i] # x
  BY ToSetDef
<1> QED
  BY <1>1 DEF Distinct

LEMMA SubSeqSet ==
  ASSUME NEW S, NEW s \in Seq(S), NEW n \in 0..Len(s)
  PROVE  /\ SubSeq(s, 1, n) \in Seq(S) /\ ToSet(SubSeq(s, 1, n)) \subseteq ToSet(s)
         /\ \A i \in 1..n : s[i] \in ToSet(SubSeq(s, 1, n))
<1>1. /\ SubSeq(s, 1, n) \in Seq(S) /\ Len(SubSeq(s, 1, n)) = n
      /\ \A i \in 1..n : SubSeq(s, 1, n)[i] = s[i] /\ i \in 1..Len(s)
  OBVIOUS
<1> DEFINE t == SubSeq(s, 1, n)
<1>2. \A y : y \in ToSet(t) <=> \E i \in 1..Len(t) : t[i] = y
  BY <1>1, InToSet
<1>3. \A y : y \in ToSet(s) <=> \E i \in 1..Len(s) : s[i] = y
  BY InToSet
<1> HIDE DEF t
<1>4. \A i \in 1..n : t[i] \in ToSet(t) /\ t[i] = s[i]
  BY <1>1, <1>2 DEF t
<1>5. ToSet(t) \subseteq ToSet(s)
  BY <1>1, <1>2, <1>3 DEF t
<1> QED
  BY <1>1, <1>4, <1>5 DEF t

LEMMA WithoutItem ==
  ASSUME NEW S, NEW s \in Seq(S), Distinct(s), NEW x
  PROVE  /\ Without(s, x) \in Seq(S) /\ Distinct(Without(s, x))
         /\ ToSet(Without(s, x)) = ToSet(s) \ {x}
<1>1. CASE ~\E i \in 1..Len(s) : s[i] = x
  BY <1>1, ToSetDef DEF Without
<1>2. CASE \E i \in 1..Len(s) : s[i] = x
  <2> DEFINE n == CHOOSE i \in 1..Len(s) : s[i] = x
             w == SubSeq(s, 1, n - 1) \o SubSeq(s, n + 1, Len(s))
  <2>1. n \in 1..Len(s) /\ s[n] = x /\ Without(s, x) = w
    BY <1>2 DEF Without
  <2> HIDE DEF n
  <2>2. /\ w \in Seq(S) /\ Len(w) = Len(s) - 1
        /\ \A i \in 1..Len(w) : w[i] = s[IF i < n THEN i ELSE i + 1]
    <3> DEFINE p == SubSeq(s, 1, n - 1)
               q == SubSeq(s, n + 1, Len(s))
    <3>1. p \in Seq(S) /\ Len(p) = n - 1 /\ \A i \in 1..(n - 1) : p[i] = s[i]
      BY <2>1
    <3>2. /\ q \in Seq(S) /\ Len(q) = Len(s) - n
          /\ \A i \in 1..(Len(s) - n) : q[i] = s[i + n]
      BY <2>1
    <3> HIDE DEF p, q
    <3>3. /\ p \o q \in Seq(S) /\ Len(p \o q) = Len(p) + Len(q)
          /\ \A i \in 1..(Len(p) + Len(q)) :
               (p \o q)[i] = IF i <= Len(p) THEN p[i] ELSE q[i - Len(p)]
      BY <3>1, <3>2, Concat
    <3>4. w = p \o q
      BY DEF p, q
    <3> HIDE DEF w
    <3>5. Len(w) = Len(s) - 1
      BY <2>1, <3>1, <3>2, <3>3, <3>4
    <3>6. ASSUME NEW i \in 1..Len(w) PROVE w[i] = s[IF i < n THEN i ELSE i + 1]
      <4>1. CASE i < n
        BY <2>1, <3>1, <3>3, <3>4, <3>5, <4>1
      <4>2. CASE ~(i < n)
        <5>1. i - (n - 1) \in 1..(Len(s) - n) /\ (i - (n - 1)) + n = i + 1
          BY <2>1, <3>5, <4>2
        <5>2. w[i] = q[i - (n - 1)]
          BY <2>1, <3>1, <3>2, <3>3, <3>4, <3>5, <4>2
        <5> QED
          BY <3>2, <4>2, <5>1, <5>2
      <4> QED
        BY <4>1, <4>2
    <3> QED
      BY <3>3, <3>4, <3>5, <3>6
  <2> HIDE DEF w
  <2>3. Distinct(w)
    BY <2>1, <2>2 DEF Distinct
  <2>4. \A i \in 1..Len(w) : w[i] \in ToSet(s) \ {x}
    BY <2>1, <2>2, ToSetDef DEF Distinct
  <2>5. \A j \in 1..Len(s) : s[j] # x => \E i \in 1..Len(w) : w[i] = s[j]
    <3> SUFFICES ASSUME NEW j \in 1..Len(s), s[j] # x PROVE \E i \in 1..Len(w) : w[i] = s[j]
      OBVIOUS
    <3>1. CASE j < n
      BY <2>1, <2>2, <3>1
    <3>2. CASE j > n
      <4>1. j - 1 \in 1..Len(w) /\ ~(j - 1 < n) /\ (j - 1) + 1 = j
        BY <2>1, <2>2, <3>2
      <4> QED
        BY <2>2, <4>1
    <3> QED
      BY <2>1, <3>1, <3>2
  <2>6. ToSet(w) = ToSet(s) \ {x}
    <3>1. \A y : y \in ToSet(w) <=> \E i \in 1..Len(w) : w[i] = y
      BY <2>2, InToSet
    <3>2. \A y : y \in ToSet(s) <=> \E i \in 1..Len(s) : s[i] = y
      BY InToSet
    <3> QED
      BY <2>4, <2>5, <3>1, <3>2
  <2> QED
    BY <2>1, <2>2, <2>3, <2>6
<1> QED
  BY <1>1, <1>2

-----------------------------------------------------------------------------
(***************************************************************************)
(* Queues.                                                                 *)
(***************************************************************************)
LEMMA JustifiedConcat ==
  ASSUME NEW p \in Seq(Messages(Requests)), NEW q \in Seq(Messages(Requests)), NEW r0, NEW r,
         Justified(p, r0), r0 \subseteq r, Justified(q, r)
  PROVE  p \o q \in Seq(Messages(Requests)) /\ Justified(p \o q, r)
<1>1. p \o q \in Seq(Messages(Requests))
  OBVIOUS
<1>2. ASSUME NEW i \in 1..Len(p \o q), (p \o q)[i].op \in Decisions
      PROVE  (p \o q)[i].of[1] \in r
  BY <1>2, ConcatParts DEF Justified
<1> QED
  BY <1>1, <1>2 DEF Justified

LEMMA JustifiedTail ==
  ASSUME NEW q \in Seq(Messages(Requests)), NEW r, Justified(q, r), q # <<>>
  PROVE  Tail(q) \in Seq(Messages(Requests)) /\ Justified(Tail(q), r)
  BY TailParts DEF Justified

LEMMA AboutTail ==
  ASSUME NEW q \in Seq(Messages(Replies)), NEW a, About(q, a), q # <<>>
  PROVE  /\ Tail(q) \in Seq(Messages(Replies)) /\ About(Tail(q), a)
         /\ Head(q).of \in Seq(Items) /\ ToSet(Head(q).of) \subseteq a
<1>1. Head(q) \in Messages(Replies) /\ Head(q) = q[1] /\ 1 \in 1..Len(q)
  BY TailParts
<1>2. Head(q).of \in Seq(Items) /\ ToSet(Head(q).of) \subseteq a
  BY <1>1 DEF Messages, About
<1>3. Tail(q) \in Seq(Messages(Replies)) /\ About(Tail(q), a)
  BY TailParts DEF About
<1> QED
  BY <1>2, <1>3

LEMMA AboutAppend ==
  ASSUME NEW q \in Seq(Messages(Replies)), NEW a0, NEW a, About(q, a0), a0 \subseteq a,
         NEW m \in Messages(Replies), ToSet(m.of) \subseteq a
  PROVE  Append(q, m) \in Seq(Messages(Replies)) /\ About(Append(q, m), a)
<1>1. ASSUME NEW i \in 1..Len(Append(q, m)) PROVE ToSet(Append(q, m)[i].of) \subseteq a
  <2>1. CASE i \in 1..Len(q)
    BY <2>1 DEF About
  <2>2. CASE i = Len(q) + 1
    BY <2>2
  <2> QED
    BY <2>1, <2>2
<1> QED
  BY <1>1 DEF About

LEMMA DecidedJustified ==
  ASSUME NEW q \in Seq(Messages(Requests)), NEW r, Justified(q, r)
  PROVE  Decided(q) \subseteq r
<1>1. DOMAIN q = 1..Len(q)
  OBVIOUS
<1> QED
  BY <1>1 DEF Decided, Justified

LEMMA NothingWritten == ASSUME NEW r PROVE <<>> \in Seq(Messages(Requests)) /\ Justified(<<>>, r)
  BY DEF Justified

LEMMA Question ==
  ASSUME NEW op \in Requests \ Decisions, NEW r
  PROVE  <<Msg(op, <<>>)>> \in Seq(Messages(Requests)) /\ Justified(<<Msg(op, <<>>)>>, r)
<1>1. Msg(op, <<>>) \in Messages(Requests) /\ Msg(op, <<>>).op = op
  BY DEF Messages, Msg
<1> QED
  BY <1>1 DEF Justified

LEMMA Deletions ==
  ASSUME NEW list \in Seq(Items), NEW n \in 0..Len(list), NEW r, \A i \in 1..n : list[i] \in r
  PROVE  DeleteShown(list, n) \in Seq(Messages(Requests)) /\ Justified(DeleteShown(list, n), r)
<1> DEFINE d == [i \in 1..n |-> Msg("delMail", <<list[i]>>)]
<1>1. \A i \in 1..n : Msg("delMail", <<list[i]>>) \in Messages(Requests)
  BY DEF Msg, Messages, Requests
<1>2. d \in Seq(Messages(Requests)) /\ Len(d) = n
  BY <1>1
<1>3. \A i \in 1..n : d[i].of[1] = list[i]
  BY DEF Msg
<1> QED
  BY <1>2, <1>3 DEF Justified, DeleteShown

LEMMA OpsConcat ==
  ASSUME NEW p \in Seq(Messages(Requests)), NEW q \in Seq(Messages(Requests))
  PROVE  /\ \A op \in Ops(p \o q) : op \in Ops(p) \/ op \in Ops(q)
         /\ \A op : Single(p, op) /\ op \notin Ops(q) => Single(p \o q, op)
<1>1. \A op \in Ops(p \o q) : op \in Ops(p) \/ op \in Ops(q)
  <2> SUFFICES ASSUME NEW i \in 1..Len(p \o q)
               PROVE  (p \o q)[i].op \in Ops(p) \/ (p \o q)[i].op \in Ops(q)
    BY DEF Ops
  <2> QED
    BY ConcatParts DEF Ops
<1>2. ASSUME NEW op, Single(p, op), op \notin Ops(q) PROVE Single(p \o q, op)
  <2> SUFFICES ASSUME NEW i \in 1..Len(p \o q), NEW j \in 1..Len(p \o q),
                      (p \o q)[i].op = op, (p \o q)[j].op = op
               PROVE  i = j
    BY DEF Single
  <2>1. i \in 1..Len(p) /\ p[i].op = op
    BY <1>2, ConcatParts DEF Ops
  <2>2. j \in 1..Len(p) /\ p[j].op = op
    BY <1>2, ConcatParts DEF Ops
  <2> QED
    BY <1>2, <2>1, <2>2 DEF Single
<1> QED
  BY <1>1, <1>2

LEMMA OpsTail ==
  ASSUME NEW S, NEW q \in Seq(S), q # <<>>
  PROVE  /\ Ops(Tail(q)) \subseteq Ops(q) /\ Head(q).op \in Ops(q)
         /\ \A op : Single(q, op) =>
              Single(Tail(q), op) /\ (Head(q).op = op => op \notin Ops(Tail(q)))
<1>1. Ops(Tail(q)) \subseteq Ops(q) /\ Head(q).op \in Ops(q)
  BY TailParts DEF Ops
<1>2. ASSUME NEW op, Single(q, op)
      PROVE  Single(Tail(q), op) /\ (Head(q).op = op => op \notin Ops(Tail(q)))
  <2>1. Len(q) \in Nat /\ Len(Tail(q)) \in Nat
    OBVIOUS
  <2>2. Single(Tail(q), op)
    BY <1>2, <2>1, TailParts DEF Single
  <2>3. Head(q).op = op => op \notin Ops(Tail(q))
    BY <1>2, <2>1, TailParts DEF Single, Ops
  <2> QED
    BY <2>2, <2>3
<1> QED
  BY <1>1, <1>2

LEMMA OpsAppend ==
  ASSUME NEW S, NEW q \in Seq(S), NEW m \in S
  PROVE  /\ Ops(Append(q, m)) = Ops(q) \cup {m.op}
         /\ \A op : Single(q, op) /\ (m.op # op \/ op \notin Ops(q)) => Single(Append(q, m), op)
<1>1. /\ Len(Append(q, m)) = Len(q) + 1 /\ Append(q, m)[Len(q) + 1] = m /\ Len(q) \in Nat
      /\ \A i \in 1..Len(q) : Append(q, m)[i] = q[i]
  OBVIOUS
<1>2. 1..(Len(q) + 1) = 1..Len(q) \cup {Len(q) + 1}
  BY <1>1
<1>3. Ops(Append(q, m)) = Ops(q) \cup {m.op}
  BY <1>1, <1>2 DEF Ops
<1>4. ASSUME NEW op, Single(q, op), m.op # op \/ op \notin Ops(q)
      PROVE  Single(Append(q, m), op)
  BY <1>1, <1>2, <1>4 DEF Single, Ops
<1> QED
  BY <1>3, <1>4

LEMMA OpsWritten ==
  /\ Ops(<<>>) = {} /\ \A op : Single(<<>>, op)
  /\ \A list : \A n \in Nat : Ops(DeleteShown(list, n)) \subseteq {"delMail"}
  /\ \A op, of : Ops(<<Msg(op, of)>>) = {op}
<1>1. Ops(<<>>) = {} /\ \A op : Single(<<>>, op)
  BY DEF Ops, Single
<1>2. \A op, of : Ops(<<Msg(op, of)>>) = {op}
  BY DEF Ops, Msg
<1>3. ASSUME NEW list, NEW n \in Nat PROVE Ops(DeleteShown(list, n)) \subseteq {"delMail"}
  <2>1. Len(DeleteShown(list, n)) = n /\ \A i \in 1..n : DeleteShown(list, n)[i].op = "delMail"
    BY DEF DeleteShown, Msg
  <2> QED
    BY <2>1 DEF Ops
<1> QED
  BY <1>1, <1>2, <1>3

-----------------------------------------------------------------------------
(***************************************************************************)
(* Each action keeps the invariant and the promise.                        *)
(***************************************************************************)
Promise == [D!Next]_<<arrived, kept, ready>>

LEMMA Items1 ==
  /\ Mails \subseteq Items /\ Adds \subseteq Items
  /\ \A q \in Seq(Mails) : q \in Seq(Items)
  /\ \A q \in Seq(Adds) : q \in Seq(Items)
<1>1. Mails \subseteq Items /\ Adds \subseteq Items
  BY DEF Items
<1> QED
  BY <1>1

LEMMA Found == RoomsFindAList <=>
  ("getRooms" \in Ops(toServer) \/ "rooms" \in Ops(toClient) => roomlist = "list")
  BY DEF RoomsFindAList, Ops

LEMMA FoundNext == RoomsFindAList' <=>
  ("getRooms" \in Ops(toServer') \/ "rooms" \in Ops(toClient') => roomlist' = "list")
  BY DEF RoomsFindAList, Ops

LEMMA LoginKeeps ==
  ASSUME IInv, Login PROVE IInv' /\ Promise
<1> DEFINE q == <<Msg("getMails", <<>>), Msg("getAdds", <<>>)>>
<1>1. toServer = <<>> /\ toClient = <<>> /\ toServer' = <<>> \o q /\ toClient' = <<>>
  BY DEF IInv, Listed, Login, Write
<1>2. q \in Seq(Messages(Requests)) /\ <<>> \o q = q
  BY DEF Messages, Msg, Requests
<1>3. 1..Len(q) = {1, 2} /\ q[1].op = "getMails" /\ q[2].op = "getAdds"
  BY DEF Msg
<1> HIDE DEF q
<1>0. toServer' = q
  BY <1>1, <1>2
<1>4. TypeOK'
  <2>1. login' \in 0..MaxLogins /\ online' \in BOOLEAN /\ seen' \in [Mails -> Nat]
    BY ConversationAssumption DEF IInv, TypeOK, Login
  <2>2. /\ toServer' \in Seq(Messages(Requests)) /\ late' = late
        /\ UNCHANGED <<poison, mailbox, pendingAdds, toClient, prompts, prompted, arrived, ready>>
        /\ UNCHANGED <<roomlist, asked, filled, overlapped>>
    BY <1>0, <1>2 DEF Login, Write, server, rooms
  <2> QED
    BY <2>1, <2>2 DEF IInv, TypeOK
<1>5. Justified(toServer', ready)
  BY <1>0, <1>3 DEF Justified, Decisions
<1>6. Known'
  BY <1>1, <1>5 DEF IInv, Known, kept, Login, Write, server, rooms, About
<1>7. Single(toServer', "getMails") /\ "getRooms" \notin Ops(toServer')
  BY <1>0, <1>3 DEF Single, Ops
<1>8. toClient' = <<>> /\ Ops(toClient') = {} /\ Single(toClient', "mails")
  BY <1>1, OpsWritten
<1>9. Listed' /\ Shown'
  BY <1>7, <1>8, FoundNext DEF Listed, Shown, ShownOncePerLogin, Login
<1> QED
  BY <1>4, <1>6, <1>9 DEF IInv, Promise, kept, Login, server

\* The end of a session, with what may have been shown before.
LEMMA GoneKeeps ==
  ASSUME IInv, online, NEW q \in Seq(Messages(Requests)), NEW r, Justified(q, r),
         ready \subseteq r, Gone(q)
  PROVE  /\ toServer' = <<>> /\ toClient' = <<>> /\ late' \subseteq r
         /\ online' = FALSE /\ prompts' = [a \in Adds |-> 0] /\ prompted' = [a \in Adds |-> 0]
         /\ roomlist' = "unset" /\ filled' = 0 /\ overlapped' = FALSE
         /\ Listed'
<1>1. Justified(toServer \o q, r) /\ toServer \o q \in Seq(Messages(Requests))
  BY JustifiedConcat DEF IInv, TypeOK, Known
<1>2. Decided(toServer \o q) \subseteq r
  BY <1>1, DecidedJustified
<1>3. late \subseteq r
  BY DEF IInv, Known
<1>4. toServer' = <<>> /\ toClient' = <<>> /\ Ops(toServer') = {} /\ Ops(toClient') = {}
  BY OpsWritten DEF Gone
<1>5. Listed'
  BY <1>4, FoundNext DEF Listed
<1> QED
  BY <1>2, <1>3, <1>5 DEF Gone

LEMMA SessionEndsKeeps ==
  ASSUME IInv, SessionEnds PROVE IInv' /\ Promise
<1>1. Justified(<<>>, ready) /\ <<>> \in Seq(Messages(Requests))
  BY NothingWritten
<1>2. /\ toServer' = <<>> /\ toClient' = <<>> /\ late' \subseteq ready
      /\ online' = FALSE /\ prompts' = [a \in Adds |-> 0] /\ prompted' = [a \in Adds |-> 0]
      /\ roomlist' = "unset" /\ filled' = 0 /\ overlapped' = FALSE
      /\ Listed'
  BY <1>1, GoneKeeps DEF SessionEnds
<1>3. TypeOK'
  <2>1. toServer' \in Seq(Messages(Requests)) /\ toClient' \in Seq(Messages(Replies))
    BY <1>2
  <2>2. prompts' \in [Adds -> Nat] /\ prompted' \in [Adds -> Nat]
    BY <1>2
  <2> QED
    BY <1>2, <2>1, <2>2 DEF IInv, TypeOK, SessionEnds, server
<1>4. Known'
  BY <1>2, NothingWritten DEF IInv, Known, kept, SessionEnds, server, About, Justified
<1>5. Shown'
  BY <1>2, OpsWritten DEF IInv, Shown, ShownOncePerLogin, SessionEnds
<1> QED
  BY <1>2, <1>3, <1>4, <1>5 DEF IInv, Promise, kept, SessionEnds, server

\* Messages listed in a reply are shown.
LEMMA ShowTells ==
  ASSUME IInv, NEW list \in Seq(Items), ToSet(list) \subseteq arrived, NEW k \in 0..Len(list),
         Show(SubSeq(list, 1, k)), \A m \in Mails : seen[m] = 0
  PROVE  /\ ready \subseteq ready' /\ ready' \subseteq arrived /\ ready' \subseteq Items
         /\ \A i \in 1..k : list[i] \in ready'
         /\ seen' \in [Mails -> Nat] /\ ShownOncePerLogin'
         /\ UNCHANGED <<arrived, kept>> => Promise
<1> DEFINE told == ToSet(SubSeq(list, 1, k))
<1>1. told \subseteq ToSet(list) /\ \A i \in 1..k : list[i] \in told
  BY SubSeqSet
<1> HIDE DEF told
<1>2. ready' = ready \cup told /\ told \subseteq arrived
  BY <1>1 DEF Show, told
<1>3. seen' \in [Mails -> Nat] /\ \A m \in Mails : seen'[m] <= 1
  <2>1. seen' = [m \in Mails |-> seen[m] + IF m \in told THEN 1 ELSE 0]
    BY DEF Show, OneMore, told, IInv, TypeOK
  <2>2. ASSUME NEW m \in Mails PROVE seen'[m] = 0 \/ seen'[m] = 1
    BY <2>1
  <2>3. seen' = [m \in Mails |-> seen'[m]]
    BY <2>1
  <2> QED
    BY <2>2, <2>3
<1>4. ready \subseteq arrived /\ arrived \subseteq Items
  BY DEF IInv, Known, TypeOK
<1>5. ASSUME UNCHANGED <<arrived, kept>> PROVE Promise
  <2>1. told \in SUBSET Items /\ D!Tell(told)
    BY <1>2, <1>4, <1>5 DEF D!Tell
  <2> QED
    BY <2>1 DEF D!Next, Promise
<1> QED
  BY <1>1, <1>2, <1>3, <1>4, <1>5 DEF ShownOncePerLogin

LEMMA OfflineMessagesKeeps ==
  ASSUME IInv, OfflineMessages PROVE IInv' /\ Promise
<1> DEFINE list == Head(toClient).of
<1>1. /\ list \in Seq(Items) /\ ToSet(list) \subseteq arrived
      /\ Tail(toClient) \in Seq(Messages(Replies)) /\ About(Tail(toClient), arrived)
  BY AboutTail DEF OfflineMessages, IInv, Known, TypeOK
<1>2. /\ \A m \in Mails : seen[m] = 0
      /\ "getMails" \notin Ops(toServer) /\ "mails" \notin Ops(Tail(toClient))
      /\ Single(Tail(toClient), "mails")
      /\ Ops(Tail(toClient)) \subseteq Ops(toClient)
  BY OpsTail DEF OfflineMessages, IInv, Shown, TypeOK
<1>3. PICK n \in 0..Len(list) : MailsShown(list, n) \/ MailsAbort(list, n) \/ MailsCutOff(list, n)
  BY DEF OfflineMessages
<1>4. /\ UNCHANGED <<poison, mailbox, pendingAdds, login, arrived>> /\ UNCHANGED kept
      /\ Len(list) \in Nat
  BY <1>1 DEF OfflineMessages, server, kept
<1> HIDE DEF list
<1>5. CASE MailsShown(list, n)
  <2>1. /\ ready \subseteq ready' /\ ready' \subseteq arrived /\ ready' \subseteq Items
        /\ \A i \in 1..n : list[i] \in ready'
        /\ seen' \in [Mails -> Nat] /\ ShownOncePerLogin' /\ Promise
    BY <1>1, <1>2, <1>4, <1>5, ShowTells DEF MailsShown
  <2>2. DeleteShown(list, n) \in Seq(Messages(Requests)) /\ Justified(DeleteShown(list, n), ready')
    BY <1>1, <2>1, Deletions
  <2>3. toServer' \in Seq(Messages(Requests)) /\ Justified(toServer', ready')
    BY <1>5, <2>1, <2>2, JustifiedConcat DEF MailsShown, Write, IInv, Known, TypeOK
  <2>4. /\ UNCHANGED <<late, online, prompts, prompted, roomlist, asked, filled, overlapped>>
        /\ toClient' = Tail(toClient)
    BY <1>5 DEF MailsShown, Write, Taken, rooms
  <2>5. /\ \A op \in Ops(toServer') : op \in Ops(toServer) \/ op = "delMail"
        /\ Single(toServer', "getMails")
    <3>1. toServer \in Seq(Messages(Requests)) /\ Single(toServer, "getMails")
      BY DEF IInv, TypeOK, Shown
    <3>2. Ops(DeleteShown(list, n)) \subseteq {"delMail"}
      BY <1>4, OpsWritten
    <3> QED
      BY <1>5, <2>2, <3>1, <3>2, OpsConcat DEF MailsShown, Write
  <2>6. TypeOK'
    BY <1>1, <1>4, <2>1, <2>3, <2>4 DEF IInv, TypeOK
  <2>7. Known'
    BY <1>1, <1>4, <2>1, <2>3, <2>4 DEF IInv, Known
  <2>8. Listed'
    BY <1>2, <2>4, <2>5, Found, FoundNext DEF IInv, Listed, OfflineMessages
  <2>9. Shown'
    BY <1>2, <2>1, <2>4, <2>5 DEF Shown
  <2> QED
    BY <2>1, <2>6, <2>7, <2>8, <2>9 DEF IInv
<1>6. CASE MailsAbort(list, n) \/ MailsCutOff(list, n)
  <2>1. PICK k \in 0..Len(list), d \in 0..Len(list) :
          d <= k /\ Show(SubSeq(list, 1, k)) /\ Gone(DeleteShown(list, d)) /\ UNCHANGED asked
    BY <1>4, <1>6 DEF MailsAbort, MailsCutOff
  <2>2. /\ ready \subseteq ready' /\ ready' \subseteq arrived /\ ready' \subseteq Items
        /\ \A i \in 1..k : list[i] \in ready'
        /\ seen' \in [Mails -> Nat] /\ ShownOncePerLogin' /\ Promise
    BY <1>1, <1>2, <1>4, <2>1, ShowTells
  <2>3. \A i \in 1..d : list[i] \in ready'
    BY <1>4, <2>1, <2>2
  <2>4. DeleteShown(list, d) \in Seq(Messages(Requests)) /\ Justified(DeleteShown(list, d), ready')
    BY <1>1, <2>3, Deletions
  <2>5. /\ toServer' = <<>> /\ toClient' = <<>> /\ late' \subseteq ready'
        /\ online' = FALSE /\ prompts' = [a \in Adds |-> 0] /\ prompted' = [a \in Adds |-> 0]
        /\ roomlist' = "unset" /\ filled' = 0 /\ overlapped' = FALSE
        /\ Listed'
    BY <2>1, <2>2, <2>4, GoneKeeps DEF OfflineMessages
  <2>6. TypeOK'
    <3>1. toServer' \in Seq(Messages(Requests)) /\ toClient' \in Seq(Messages(Replies))
      BY <2>5
    <3>2. prompts' \in [Adds -> Nat] /\ prompted' \in [Adds -> Nat]
      BY <2>5
    <3> QED
      BY <1>4, <2>1, <2>2, <2>5, <3>1, <3>2 DEF IInv, TypeOK
  <2>7. Known'
    BY <1>4, <2>2, <2>5, NothingWritten DEF IInv, Known, About, Justified
  <2>8. Shown'
    BY <2>2, <2>5, OpsWritten DEF Shown
  <2> QED
    BY <2>2, <2>5, <2>6, <2>7, <2>8 DEF IInv
<1> QED
  BY <1>3, <1>5, <1>6

\* A reply is taken off a connection that is there.
LEMMA TakenKeeps ==
  ASSUME IInv, online, toClient # <<>>, toClient' = Tail(toClient)
  PROVE  /\ toClient' \in Seq(Messages(Replies)) /\ About(toClient', arrived)
         /\ Head(toClient).of \in Seq(Items) /\ ToSet(Head(toClient).of) \subseteq arrived
         /\ Ops(toClient') \subseteq Ops(toClient) /\ Head(toClient).op \in Ops(toClient)
         /\ Single(toClient', "mails")
  BY AboutTail, OpsTail DEF IInv, Known, TypeOK, Shown

\* Counting on.
LEMMA OneMoreType ==
  ASSUME NEW S, NEW f \in [S -> Nat], NEW list
  PROVE  /\ OneMore(f, list) \in [S -> Nat]
         /\ \A a \in S : OneMore(f, list)[a] = f[a] + IF a \in ToSet(list) THEN 1 ELSE 0
         /\ \A a \in S : OneMore(f, list)[a] = f[a] \/ a \in ToSet(list)
<1>1. DOMAIN f = S /\ \A a \in S : f[a] \in Nat
  OBVIOUS
<1>2. ASSUME NEW a \in S
      PROVE  /\ OneMore(f, list)[a] = f[a] + IF a \in ToSet(list) THEN 1 ELSE 0
             /\ OneMore(f, list)[a] \in Nat
             /\ OneMore(f, list)[a] = f[a] \/ a \in ToSet(list)
  BY <1>1 DEF OneMore
<1>3. OneMore(f, list) = [a \in S |-> OneMore(f, list)[a]]
  BY <1>1 DEF OneMore
<1> QED
  BY <1>2, <1>3

LEMMA AddRequestsKeeps ==
  ASSUME IInv, AddRequests PROVE IInv' /\ Promise
<1> DEFINE list == Head(toClient).of
<1>1. /\ toClient' \in Seq(Messages(Replies)) /\ About(toClient', arrived)
      /\ ToSet(list) \subseteq arrived
      /\ Ops(toClient') \subseteq Ops(toClient) /\ Single(toClient', "mails")
  BY TakenKeeps DEF AddRequests, Taken
<1>2. /\ prompts' \in [Adds -> Nat] /\ \A a \in Adds : prompts'[a] > 0 => a \in arrived
      /\ prompted' \in [Adds -> Nat]
  <2>1. /\ prompts' = OneMore(prompts, list) /\ prompted' = OneMore(prompted, list)
        /\ prompts \in [Adds -> Nat] /\ prompted \in [Adds -> Nat]
    BY DEF AddRequests, IInv, TypeOK
  <2> HIDE DEF list
  <2>2. prompts' \in [Adds -> Nat] /\ prompted' \in [Adds -> Nat]
    BY <2>1, OneMoreType
  <2>3. \A a \in Adds : prompts'[a] = prompts[a] \/ a \in ToSet(list)
    BY <2>1, OneMoreType
  <2> QED
    BY <1>1, <2>2, <2>3 DEF IInv, Known
<1>3. /\ UNCHANGED <<poison, mailbox, pendingAdds, toServer, late, login, online>>
      /\ UNCHANGED <<roomlist, asked, filled, overlapped, arrived, ready, seen>> /\ kept' = kept
      /\ online
  BY DEF AddRequests, server, rooms, kept
<1>4. TypeOK'
  BY <1>1, <1>2, <1>3 DEF IInv, TypeOK
<1>5. Known'
  BY <1>1, <1>2, <1>3 DEF IInv, Known
<1>6. Listed'
  BY <1>1, <1>3, Found, FoundNext DEF IInv, Listed
<1>7. Shown'
  BY <1>1, <1>3 DEF IInv, Shown, ShownOncePerLogin
<1> QED
  BY <1>3, <1>4, <1>5, <1>6, <1>7 DEF IInv, Promise

LEMMA AnswerKeeps ==
  ASSUME IInv, NEW a \in Adds, Answer(a) PROVE IInv' /\ Promise
<1>1. PICK op \in {"accept", "deny"} : Write(<<Msg(op, <<a>>)>>)
  BY DEF Answer
<1> DEFINE q == <<Msg(op, <<a>>)>>
<1>2. prompts[a] \in Nat /\ prompts[a] > 0 /\ a \in arrived /\ a \in Items
  BY Items1 DEF Answer, IInv, TypeOK, Known
<1>3. Len(q) = 1 /\ q[1].op \in Decisions /\ q[1].of[1] = a /\ q \in Seq(Messages(Requests))
  BY <1>2 DEF Messages, Msg, Requests, Decisions
<1>4. Ops(q) = {op}
  BY OpsWritten
<1> HIDE DEF q
<1>5. toServer' = toServer \o q /\ late' = late
  BY <1>1 DEF Write, q
<1>6. ready' = ready \cup {a} /\ Justified(q, ready') /\ ready \subseteq ready'
  BY <1>3 DEF Answer, Justified
<1>7. toServer' \in Seq(Messages(Requests)) /\ Justified(toServer', ready')
  BY <1>3, <1>5, <1>6, JustifiedConcat DEF IInv, TypeOK, Known
<1>8. /\ \A o \in Ops(toServer') : o \in Ops(toServer) \/ o \in {"accept", "deny"}
      /\ Single(toServer', "getMails")
  BY <1>3, <1>4, <1>5, OpsConcat DEF IInv, TypeOK, Shown
<1>9. prompts' \in [Adds -> Nat] /\ prompted' = prompted /\ \A b \in Adds : prompts'[b] > 0 => b \in arrived
  BY <1>2 DEF Answer, IInv, TypeOK, Known
<1>10. /\ UNCHANGED <<poison, mailbox, pendingAdds, login, online, toClient>>
       /\ UNCHANGED <<roomlist, asked, filled, overlapped, arrived, seen>> /\ kept' = kept
       /\ online
  BY DEF Answer, server, rooms, kept
<1>11. TypeOK'
  BY <1>2, <1>5, <1>6, <1>7, <1>9, <1>10 DEF IInv, TypeOK
<1>12. Known'
  BY <1>2, <1>5, <1>6, <1>7, <1>9, <1>10 DEF IInv, Known
<1>13. Listed'
  BY <1>8, <1>10, Found, FoundNext DEF IInv, Listed
<1>14. Shown'
  BY <1>8, <1>10 DEF IInv, Shown, ShownOncePerLogin
<1>15. Promise
  <2>1. {a} \in SUBSET Items /\ D!Tell({a})
    BY <1>2, <1>6, <1>10 DEF D!Tell
  <2> QED
    BY <2>1 DEF Promise, D!Next
<1> QED
  BY <1>11, <1>12, <1>13, <1>14, <1>15 DEF IInv

LEMMA AskRoomsKeeps ==
  ASSUME IInv, AskRooms PROVE IInv' /\ Promise
<1> DEFINE q == <<Msg("getRooms", <<>>)>>
<1>1. q \in Seq(Messages(Requests)) /\ Justified(q, ready)
  BY Question DEF Requests, Decisions
<1>2. Ops(q) = {"getRooms"}
  BY OpsWritten
<1> HIDE DEF q
<1>3. toServer' = toServer \o q /\ late' = late
  BY DEF AskRooms, Write, q
<1>4. toServer' \in Seq(Messages(Requests)) /\ Justified(toServer', ready)
  BY <1>1, <1>3, JustifiedConcat DEF IInv, TypeOK, Known
<1>5. /\ \A o \in Ops(toServer') : o \in Ops(toServer) \/ o = "getRooms"
      /\ Single(toServer', "getMails")
  BY <1>1, <1>2, <1>3, OpsConcat DEF IInv, TypeOK, Shown
<1>6. /\ UNCHANGED <<poison, mailbox, pendingAdds, login, online, toClient, prompts, prompted>>
      /\ UNCHANGED <<arrived, ready, seen>> /\ kept' = kept /\ online
      /\ asked' = asked + 1 /\ roomlist' = "list" /\ filled' = 0
  BY DEF AskRooms, NewList, server, kept
<1>7. overlapped' \in BOOLEAN
  BY DEF AskRooms
<1>8. TypeOK'
  BY <1>3, <1>4, <1>6, <1>7 DEF IInv, TypeOK
<1>9. Known'
  BY <1>3, <1>4, <1>6 DEF IInv, Known
<1>10. Listed'
  BY <1>6, FoundNext DEF Listed
<1>11. Shown'
  BY <1>5, <1>6 DEF IInv, Shown, ShownOncePerLogin
<1> QED
  BY <1>6, <1>8, <1>9, <1>10, <1>11 DEF IInv, Promise

LEMMA ChatRoomsKeeps ==
  ASSUME IInv, ChatRooms PROVE IInv' /\ Promise
<1>1. /\ toClient' \in Seq(Messages(Replies)) /\ About(toClient', arrived)
      /\ Ops(toClient') \subseteq Ops(toClient) /\ Single(toClient', "mails")
  BY TakenKeeps DEF ChatRooms, Taken
<1>2. /\ UNCHANGED <<poison, mailbox, pendingAdds, toServer, late, login, online, prompts, prompted>>
      /\ UNCHANGED <<roomlist, asked, overlapped, arrived, ready, seen>> /\ kept' = kept
      /\ online /\ filled' = filled + 1
  BY DEF ChatRooms, server, kept
<1>3. TypeOK'
  BY <1>1, <1>2 DEF IInv, TypeOK
<1>4. Known'
  BY <1>1, <1>2 DEF IInv, Known
<1>5. Listed'
  BY <1>1, <1>2, Found, FoundNext DEF IInv, Listed
<1>6. Shown'
  BY <1>1, <1>2 DEF IInv, Shown, ShownOncePerLogin
<1> QED
  BY <1>2, <1>3, <1>4, <1>5, <1>6 DEF IInv, Promise

\* The server takes a request.
LEMMA RequestTaken ==
  ASSUME IInv, NEW ops, NextRequest(ops)
  PROVE  /\ toServer' \in Seq(Messages(Requests)) /\ Justified(toServer', ready)
         /\ Ops(toServer') \subseteq Ops(toServer)
         /\ Head(toServer).op \in Ops(toServer) /\ Head(toServer).op \in ops
         /\ Single(toServer', "getMails")
         /\ Head(toServer).op = "getMails" => "getMails" \notin Ops(toServer')
  BY JustifiedTail, OpsTail DEF IInv, Known, TypeOK, Shown, NextRequest

\* The server answers a question with items that have arrived.
LEMMA ReplyKeeps ==
  ASSUME IInv, NEW op \in Requests \ Decisions, NEW re \in Replies, NEW list \in Seq(Items),
         <<op, re>> \in {<<"getMails", "mails">>, <<"getAdds", "adds">>, <<"getRooms", "rooms">>},
         ToSet(list) \subseteq arrived,
         NextRequest({op}), Reply(Msg(re, list)), UNCHANGED server
  PROVE  IInv' /\ Promise
<1>1. /\ toServer' \in Seq(Messages(Requests)) /\ Justified(toServer', ready)
      /\ Ops(toServer') \subseteq Ops(toServer) /\ op \in Ops(toServer)
      /\ Single(toServer', "getMails")
      /\ op = "getMails" => "getMails" \notin Ops(toServer')
  BY RequestTaken
<1>2. Msg(re, list) \in Messages(Replies) /\ Msg(re, list).of = list /\ Msg(re, list).op = re
  BY DEF Messages, Msg
<1>3. toClient' \in Seq(Messages(Replies)) /\ About(toClient', arrived)
  BY <1>2, AboutAppend DEF IInv, TypeOK, Known, Reply
<1>4. re = "mails" => "mails" \notin Ops(toClient)
  BY <1>1 DEF IInv, Shown
<1>5. Ops(toClient') = Ops(toClient) \cup {re} /\ Single(toClient', "mails")
  BY <1>2, <1>4, OpsAppend DEF IInv, TypeOK, Shown, Reply
<1>6. /\ UNCHANGED <<poison, mailbox, pendingAdds, late, login, online, prompts, prompted>>
      /\ UNCHANGED <<roomlist, asked, filled, overlapped, arrived, ready, seen>>
      /\ kept' = kept /\ online
  BY DEF NextRequest, server, rooms, kept
<1>7. TypeOK'
  BY <1>1, <1>3, <1>6 DEF IInv, TypeOK
<1>8. Known'
  BY <1>1, <1>3, <1>6 DEF IInv, Known
<1>9. Listed'
  BY <1>1, <1>5, <1>6, Found, FoundNext DEF IInv, Listed
<1>10. Shown'
  BY <1>1, <1>4, <1>5, <1>6 DEF IInv, Shown, ShownOncePerLogin
<1> QED
  BY <1>6, <1>7, <1>8, <1>9, <1>10 DEF IInv, Promise

LEMMA ListMailsKeeps == ASSUME IInv, ListMails PROVE IInv' /\ Promise
<1>1. mailbox \in Seq(Items) /\ ToSet(mailbox) \subseteq arrived
  BY Items1 DEF IInv, TypeOK, Known, kept
<1> QED
  BY <1>1, ReplyKeeps DEF ListMails, Requests, Decisions, Replies

LEMMA ListAddsKeeps == ASSUME IInv, ListAdds PROVE IInv' /\ Promise
<1>1. pendingAdds \in Seq(Items) /\ ToSet(pendingAdds) \subseteq arrived
  BY Items1 DEF IInv, TypeOK, Known, kept
<1> QED
  BY <1>1, ReplyKeeps DEF ListAdds, Requests, Decisions, Replies

LEMMA ListRoomsKeeps == ASSUME IInv, ListRooms PROVE IInv' /\ Promise
<1>1. <<>> \in Seq(Items) /\ ToSet(<<>>) \subseteq arrived
  BY DEF ToSet
<1> QED
  BY <1>1, ReplyKeeps DEF ListRooms, Requests, Decisions, Replies

\* An item that was shown or answered is given up, on this connection or a late one.
LEMMA ForgetKeeps ==
  ASSUME IInv, NEW item \in ready, Forget(item), UNCHANGED <<arrived, ready>>
  PROVE  /\ mailbox' \in Seq(Mails) /\ Distinct(mailbox')
         /\ pendingAdds' \in Seq(Adds) /\ Distinct(pendingAdds')
         /\ kept' \subseteq arrived /\ UNCHANGED <<poison, toClient>>
         /\ Promise
<1>1. /\ mailbox' \in Seq(Mails) /\ Distinct(mailbox')
      /\ ToSet(mailbox') = ToSet(mailbox) \ {item}
  BY WithoutItem DEF IInv, TypeOK, Known, Forget
<1>2. /\ pendingAdds' \in Seq(Adds) /\ Distinct(pendingAdds')
      /\ ToSet(pendingAdds') = ToSet(pendingAdds) \ {item}
  BY WithoutItem DEF IInv, TypeOK, Known, Forget
<1>3. kept' = kept \ {item}
  BY <1>1, <1>2 DEF kept
<1>4. kept \subseteq arrived /\ item \in Items
  BY DEF IInv, Known, TypeOK
<1>5. CASE item \in kept
  <2>1. D!Remove(item)
    BY <1>3, <1>5 DEF D!Remove
  <2> QED
    BY <1>1, <1>2, <1>3, <1>4, <2>1 DEF Promise, D!Next, Forget
<1>6. CASE item \notin kept
  BY <1>1, <1>2, <1>3, <1>4, <1>6 DEF Promise, Forget
<1> QED
  BY <1>5, <1>6

LEMMA SettleKeeps == ASSUME IInv, Settle PROVE IInv' /\ Promise
<1> DEFINE item == Head(toServer).of[1]
<1>1. /\ toServer' \in Seq(Messages(Requests)) /\ Justified(toServer', ready)
      /\ Ops(toServer') \subseteq Ops(toServer) /\ Single(toServer', "getMails")
      /\ Head(toServer).op \in Decisions
  BY RequestTaken DEF Settle
<1>2. Head(toServer) = toServer[1] /\ 1 \in 1..Len(toServer)
  BY TailParts DEF Settle, NextRequest, IInv, TypeOK
<1>3. item \in ready
  BY <1>1, <1>2 DEF IInv, Known, Justified
<1> HIDE DEF item
<1>4. /\ UNCHANGED <<late, login, online, prompts, prompted, roomlist, asked, filled, overlapped>>
      /\ UNCHANGED <<arrived, ready, seen>> /\ online /\ Forget(item)
  BY DEF Settle, NextRequest, rooms, item
<1>5. /\ mailbox' \in Seq(Mails) /\ Distinct(mailbox')
      /\ pendingAdds' \in Seq(Adds) /\ Distinct(pendingAdds')
      /\ kept' \subseteq arrived /\ UNCHANGED <<poison, toClient>>
      /\ Promise
  BY <1>3, <1>4, ForgetKeeps
<1>6. TypeOK'
  BY <1>1, <1>4, <1>5 DEF IInv, TypeOK
<1>7. Known'
  BY <1>1, <1>4, <1>5 DEF IInv, Known
<1>8. Listed'
  BY <1>1, <1>4, <1>5, Found, FoundNext DEF IInv, Listed
<1>9. Shown'
  BY <1>1, <1>4, <1>5 DEF IInv, Shown, ShownOncePerLogin
<1> QED
  BY <1>5, <1>6, <1>7, <1>8, <1>9 DEF IInv

LEMMA SettleLateKeeps ==
  ASSUME IInv, NEW item \in Items, SettleLate(item) PROVE IInv' /\ Promise
<1>1. item \in ready /\ late' \subseteq late
  BY DEF SettleLate, IInv, Known
<1>2. /\ UNCHANGED <<toServer, login, online, prompts, prompted, roomlist, asked, filled, overlapped>>
      /\ UNCHANGED <<arrived, ready, seen>>
  BY DEF SettleLate, rooms
<1>3. /\ mailbox' \in Seq(Mails) /\ Distinct(mailbox')
      /\ pendingAdds' \in Seq(Adds) /\ Distinct(pendingAdds')
      /\ kept' \subseteq arrived /\ UNCHANGED <<poison, toClient>>
      /\ Promise
  BY <1>1, <1>2, ForgetKeeps DEF SettleLate
<1>4. TypeOK'
  BY <1>1, <1>2, <1>3 DEF IInv, TypeOK
<1>5. Known'
  BY <1>1, <1>2, <1>3 DEF IInv, Known
<1>6. Listed'
  BY <1>2, <1>3, Found, FoundNext DEF IInv, Listed
<1>7. Shown'
  BY <1>2, <1>3 DEF IInv, Shown, ShownOncePerLogin
<1> QED
  BY <1>3, <1>4, <1>5, <1>6, <1>7 DEF IInv

LEMMA LateLostKeeps == ASSUME IInv, LateLost PROVE IInv' /\ Promise
<1>1. /\ UNCHANGED <<poison, mailbox, pendingAdds, toServer, login, online, toClient, prompts, prompted>>
      /\ UNCHANGED <<roomlist, asked, filled, overlapped, arrived, ready, seen>>
      /\ kept' = kept /\ late' = {}
  BY DEF LateLost, server, rooms, kept
<1>2. TypeOK' /\ Known'
  BY <1>1 DEF IInv, TypeOK, Known
<1>3. Listed' /\ Shown'
  BY <1>1, Found, FoundNext DEF IInv, Listed, Shown, ShownOncePerLogin
<1> QED
  BY <1>1, <1>2, <1>3 DEF IInv, Promise

LEMMA MailArrivesKeeps ==
  ASSUME IInv, NEW m \in Mails, MailArrives(m) PROVE IInv' /\ Promise
<1>1. m \notin ToSet(mailbox) /\ m \in Items
  BY Items1 DEF MailArrives, IInv, Known, kept
<1>2. /\ mailbox' \in Seq(Mails) /\ ToSet(mailbox') = ToSet(mailbox) \cup {m}
      /\ Distinct(mailbox')
  BY <1>1, AppendSet, AppendDistinct DEF MailArrives, IInv, TypeOK, Known
<1>3. /\ UNCHANGED <<poison, pendingAdds, toServer, late, login, online, toClient, prompts, prompted>>
      /\ UNCHANGED <<roomlist, asked, filled, overlapped, ready, seen>>
      /\ m \notin arrived /\ arrived' = arrived \cup {m}
  BY DEF MailArrives, rooms
<1>4. kept' = kept \cup {m}
  BY <1>2, <1>3 DEF kept
<1>5. TypeOK'
  BY <1>1, <1>2, <1>3 DEF IInv, TypeOK
<1>6. Known'
  BY <1>2, <1>3, <1>4 DEF IInv, Known, About
<1>7. Listed' /\ Shown'
  BY <1>3, Found, FoundNext DEF IInv, Listed, Shown, ShownOncePerLogin
<1>8. D!Arrive(m)
  BY <1>3, <1>4 DEF D!Arrive
<1> QED
  BY <1>1, <1>5, <1>6, <1>7, <1>8 DEF IInv, Promise, D!Next

LEMMA AddArrivesKeeps ==
  ASSUME IInv, NEW a \in Adds, AddArrives(a) PROVE IInv' /\ Promise
<1>1. a \notin ToSet(pendingAdds) /\ a \in Items
  BY Items1 DEF AddArrives, IInv, Known, kept
<1>2. /\ pendingAdds' \in Seq(Adds) /\ ToSet(pendingAdds') = ToSet(pendingAdds) \cup {a}
      /\ Distinct(pendingAdds')
  BY <1>1, AppendSet, AppendDistinct DEF AddArrives, IInv, TypeOK, Known
<1>3. /\ UNCHANGED <<poison, mailbox, toServer, late, login, online, prompts, prompted>>
      /\ UNCHANGED <<roomlist, asked, filled, overlapped, ready, seen>>
      /\ a \notin arrived /\ arrived' = arrived \cup {a}
  BY DEF AddArrives, rooms
<1>4. kept' = kept \cup {a}
  BY <1>2, <1>3 DEF kept
<1>5. /\ toClient' \in Seq(Messages(Replies)) /\ About(toClient', arrived')
      /\ "mails" \in Ops(toClient') => "mails" \in Ops(toClient)
      /\ "rooms" \in Ops(toClient') => "rooms" \in Ops(toClient)
      /\ Single(toClient', "mails")
      /\ ~online => toClient' = toClient
  <2>1. CASE ~online
    BY <1>3, <2>1 DEF AddArrives, IInv, TypeOK, Known, Shown, About
  <2>2. CASE online
    <3> DEFINE reply == Msg("adds", <<a>>)
    <3>1. reply \in Messages(Replies) /\ reply.of = <<a>> /\ reply.op = "adds"
      BY <1>1 DEF Messages, Msg, Replies
    <3>2. ToSet(<<a>>) = {a}
      BY DEF ToSet
    <3>3. toClient' = Append(toClient, reply)
      BY <2>2 DEF AddArrives, Reply
    <3> HIDE DEF reply
    <3>4. toClient' \in Seq(Messages(Replies)) /\ About(toClient', arrived')
      <4>1. toClient \in Seq(Messages(Replies)) /\ About(toClient, arrived)
        BY DEF IInv, TypeOK, Known
      <4>2. arrived \subseteq arrived' /\ ToSet(reply.of) \subseteq arrived'
        BY <1>3, <3>1, <3>2
      <4> QED
        BY <3>1, <3>3, <4>1, <4>2, AboutAppend
    <3>5. Ops(toClient') = Ops(toClient) \cup {"adds"} /\ Single(toClient', "mails")
      BY <3>1, <3>3, OpsAppend DEF IInv, TypeOK, Shown
    <3> QED
      BY <2>2, <3>4, <3>5
  <2> QED
    BY <2>1, <2>2
<1>6. TypeOK'
  BY <1>1, <1>2, <1>3, <1>5 DEF IInv, TypeOK
<1>7. Known'
  BY <1>2, <1>3, <1>4, <1>5 DEF IInv, Known
<1>8. Listed'
  BY <1>3, <1>5, Found, FoundNext DEF IInv, Listed
<1>9. Shown'
  BY <1>3, <1>5 DEF IInv, Shown, ShownOncePerLogin
<1>10. D!Arrive(a)
  BY <1>3, <1>4 DEF D!Arrive
<1> QED
  BY <1>1, <1>6, <1>7, <1>8, <1>9, <1>10 DEF IInv, Promise, D!Next

-----------------------------------------------------------------------------
LEMMA InitKeeps == Init => IInv /\ D!Init
<1> SUFFICES ASSUME Init PROVE IInv /\ D!Init
  OBVIOUS
<1>1. ToSet(mailbox) = {} /\ ToSet(pendingAdds) = {}
  BY DEF Init, ToSet
<1>2. kept = {}
  BY <1>1 DEF kept
<1>3. toServer = <<>> /\ toClient = <<>> /\ Ops(toServer) = {} /\ Ops(toClient) = {}
      /\ Single(toServer, "getMails") /\ Single(toClient, "mails")
  BY OpsWritten DEF Init
<1>4. /\ toServer \in Seq(Messages(Requests)) /\ toClient \in Seq(Messages(Replies))
      /\ mailbox \in Seq(Mails) /\ pendingAdds \in Seq(Adds)
  BY DEF Init
<1>5. prompts \in [Adds -> Nat] /\ prompted \in [Adds -> Nat] /\ seen \in [Mails -> Nat] /\ login \in 0..MaxLogins
  BY ConversationAssumption DEF Init
<1>6. TypeOK
  BY <1>4, <1>5 DEF Init, TypeOK
<1>7. Known
  BY <1>2, <1>3 DEF Init, Known, Distinct, About, Justified
<1>8. Listed /\ Shown
  BY <1>3, Found DEF Init, Listed, Shown, ShownOncePerLogin
<1> QED
  BY <1>2, <1>6, <1>7, <1>8 DEF IInv, D!Init, Init

LEMMA NextKeeps == IInv /\ [Next]_vars => IInv' /\ Promise
<1> SUFFICES ASSUME IInv, [Next]_vars PROVE IInv' /\ Promise
  OBVIOUS
<1>1. CASE Login
  BY <1>1, LoginKeeps
<1>2. CASE SessionEnds
  BY <1>2, SessionEndsKeeps
<1>3. CASE Handle
  BY <1>3, OfflineMessagesKeeps, AddRequestsKeeps, ChatRoomsKeeps DEF Handle
<1>4. ASSUME NEW a \in Adds, Answer(a) PROVE IInv' /\ Promise
  BY <1>4, AnswerKeeps
<1>5. CASE AskRooms
  BY <1>5, AskRoomsKeeps
<1>6. CASE Serve
  BY <1>6, ListMailsKeeps, ListAddsKeeps, ListRoomsKeeps, SettleKeeps DEF Serve
<1>7. CASE LateLost
  BY <1>7, LateLostKeeps
<1>8. ASSUME NEW item \in Items, SettleLate(item) PROVE IInv' /\ Promise
  BY <1>8, SettleLateKeeps
<1>9. ASSUME NEW m \in Mails, MailArrives(m) PROVE IInv' /\ Promise
  BY <1>9, MailArrivesKeeps
<1>10. ASSUME NEW a \in Adds, AddArrives(a) PROVE IInv' /\ Promise
  BY <1>10, AddArrivesKeeps
<1>11. CASE UNCHANGED vars
  <2>1. /\ UNCHANGED <<poison, mailbox, pendingAdds, toServer, late, login, online, toClient>>
        /\ UNCHANGED <<prompts, prompted, roomlist, asked, filled, overlapped, arrived, ready, seen>>
        /\ kept' = kept
    BY <1>11 DEF vars, server, rooms, kept
  <2>2. TypeOK' /\ Known'
    BY <2>1 DEF IInv, TypeOK, Known
  <2>3. Listed' /\ Shown'
    BY <2>1, Found, FoundNext DEF IInv, Listed, Shown, ShownOncePerLogin
  <2> QED
    BY <2>1, <2>2, <2>3 DEF IInv, Promise
<1> QED
  BY <1>1, <1>2, <1>3, <1>4, <1>5, <1>6, <1>7, <1>8, <1>9, <1>10, <1>11 DEF Next

\* The invariant, on which the rest stands: whatever is under way, or has been left
\* under way by a connection that is gone, deletes only what was shown and answers only
\* what was asked.
THEOREM Invariance == Spec => []IInv
  BY InitKeeps, NextKeeps, PTL DEF Spec

\* The variables of a conversation keep their types.
THEOREM TypeCorrect == Spec => []TypeOK
<1>1. IInv => TypeOK
  BY DEF IInv
<1> QED
  BY <1>1, Invariance, PTL

\* Every conversation is one the promise allows: whatever is lost, and whenever a
\* session or the process ends, parseOfflineMessages and deleteOfflineMessage never make
\* the server give up a message that was not shown, nor sendAcceptAddRequest and
\* sendDenyAddRequest a request to be added that was not answered.
THEOREM PromiseIsKept == Spec => KeptUntilTold
<1>1. IInv /\ [Next]_vars => [D!Next]_(D!dVars)
  BY NextKeeps DEF Promise, D!dVars
<1> QED
  BY <1>1, InitKeeps, Invariance, PTL DEF Spec, KeptUntilTold, D!Safety

\* No login shows a message twice: it asks for the messages once, and their reply is
\* taken off the connection as it is shown.
THEOREM NotShownAgain == Spec => []ShownOncePerLogin
<1>1. IInv => ShownOncePerLogin
  BY DEF IInv, Shown
<1> QED
  BY <1>1, Invariance, PTL

\* parseChatRoomsResponse never runs before a list was put in place: the member the
\* constructor leaves unset is read by the first request only.
THEOREM NeverWithoutList == Spec => []RoomsFindAList
<1>1. IInv => RoomsFindAList
  BY DEF IInv, Listed
<1> QED
  BY <1>1, Invariance, PTL
=============================================================================
