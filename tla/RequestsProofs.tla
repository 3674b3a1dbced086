--------------------------- MODULE RequestsProofs ---------------------------
(***************************************************************************)
(* Proofs about Requests for every length of every name and text, and for  *)
(* every table of header and command names.                                *)
(***************************************************************************)
EXTENDS Requests, SequenceTheorems, TLAPS

\* What FramesAlign says of one request.
WellFramed(r) ==
  /\ r \in RequestType
  /\ r.bytes = r.size + Surplus(r)
  /\ r.body = r.payload + Surplus(r)

RosterOK == onServer \subseteq Lens /\ removed \subseteq Lens /\ strayed \subseteq Lens

\* The inductive invariant.
IInv == TypeOK /\ FramesAlign

\* That of the groups: the server has what is remembered unless the user removed it.
GroupsKnown == groups \ removed \subseteq onServer /\ BuddyGroupsExist

\* A request is well framed when the integers, lengths and strings of its payload
\* add up to what is declared for it: the rest of the frame always does.
LEMMA FrameAddsUp ==
  ASSUME NEW hdr \in Headers, NEW cmd \in Commands, NEW n \in Nat,
         NEW size \in Nat, NEW payload \in Nat, NEW body \in Nat,
         NEW over \in Nat, over = IF cmd = "AcceptAdd2" THEN 6 ELSE 0,
         size + over = n * 4 + 12 + body,
         body = payload + over
  PROVE  WellFramed(Request(hdr, cmd, n, size, payload, body))
<1> DEFINE r == Request(hdr, cmd, n, size, payload, body)
<1>1. Strlen[hdr] \in Nat /\ Strlen[cmd] \in Nat
  BY LengthsAssumption
<1>2. /\ r.cmd = cmd /\ r.payload = payload /\ r.body = body
      /\ r.size = size + Strlen[hdr] + Strlen[cmd]
      /\ r.bytes = n * 4 + (4 + Strlen[hdr]) + (4 + Strlen[cmd]) + 4 + body
  BY DEF Request, Str, Dword
<1>3. n * 4 \in Nat
  OBVIOUS
<1>4. r.bytes = r.size + over /\ r.size \in Nat /\ r.bytes \in Nat
  BY <1>1, <1>2, <1>3
<1>5. r \in RequestType
  <2>1. r = [cmd |-> r.cmd, size |-> r.size, bytes |-> r.bytes,
             payload |-> r.payload, body |-> r.body]
    BY DEF Request
  <2>2. QED
    BY <1>2, <1>4, <2>1 DEF RequestType
<1>6. Surplus(r) = over
  BY <1>2 DEF Surplus
<1>7. QED
  BY <1>2, <1>4, <1>5, <1>6 DEF WellFramed

\* The requests without a payload.
LEMMA BareFramed ==
  ASSUME NEW cmd \in Commands, cmd # "AcceptAdd2"
  PROVE  WellFramed(Bare(cmd))
<1>1. "Server1.2" \in Headers
  BY DEF Headers
<1>2. QED
  BY <1>1, FrameAddsUp DEF Bare

\* The requests with a payload, to the server or to a peer.
LEMMA SizedFramed ==
  ASSUME NEW cmd \in Commands, cmd # "AcceptAdd2",
         NEW size \in Nat, NEW payload \in Nat, NEW body \in Nat,
         size = 20 + body, body = payload
  PROVE  WellFramed(Sized(cmd, size, payload, body)) /\ WellFramed(ToPeer(cmd, size, payload, body))
<1>1. "Server1.2" \in Headers /\ "ClientPeer1.2" \in Headers
  BY DEF Headers
<1>2. 2 \in Nat /\ 0 \in Nat /\ size + 0 = 2 * 4 + 12 + body /\ body = payload + 0
  OBVIOUS
<1>3. QED
  BY <1>1, <1>2, FrameAddsUp DEF Sized, ToPeer

\* Every builder but sendAcceptAddRequest declares what it writes; that one is six
\* bytes short, in both lengths.
LEMMA BuildersFramed ==
  ASSUME NEW a \in Lens, NEW b \in Lens, NEW c \in Lens, NEW d \in Lens
  PROVE  /\ WellFramed(ConnectToGK(a))
         /\ WellFramed(ConnectToCS(a, b))
         /\ WellFramed(SendMessage(a, b, c, d))
         /\ WellFramed(DeleteOfflineMessage(a))
         /\ WellFramed(SetStatus(a))
         /\ WellFramed(SendDenyAddRequest(a))
         /\ WellFramed(SendAcceptAddRequest(a, b, c, d))
         /\ WellFramed(SendDelContactRequest(a, b))
         /\ WellFramed(AddContactRequest(a, b, c))
         /\ WellFramed(SendTypingNotification(a, b))
         /\ WellFramed(ChangeBuddyGroupRequest(a, b, c, d))
         /\ WellFramed(SendAddRemoveGroupRequest(a, b, "AddGroup"))
         /\ WellFramed(SendAddRemoveGroupRequest(a, b, "RemoveGroup"))
<1> USE DEF Dword, Str
<1>1. a \in Nat /\ b \in Nat /\ c \in Nat /\ d \in Nat
  BY LengthsAssumption
<1>2. /\ "Gatekeeper2" \in Headers /\ "Server1.2" \in Headers
      /\ {"GetLoginServers", "SignIn", "SetOnlineStatus", "TextMessage", "DelOfflineMsg",
          "AcceptAdd2", "DelAddRequest", "DelContact2", "AddGroup", "RemoveGroup",
          "MoveContactBetweenGroups", "AddContact2", "TypingNotify"} \subseteq Commands
  BY DEF Headers, Commands
<1>3. WellFramed(ConnectToGK(a))
  <2> DEFINE caps    == CapDir + CapHttpConnect + CapHttp
             size    == caps + a + 32 + 4 * 3
             payload == caps + 3 * 4 + a + 8
             body    == Str(a) + Dword + Str(CapDir) + Str(CapHttpConnect) + Str(CapHttp)
  <2>1. /\ size \in Nat /\ payload \in Nat /\ body \in Nat
        /\ size + 0 = 3 * 4 + 12 + body /\ body = payload + 0
    BY <1>1, LengthsAssumption
  <2>2. ConnectToGK(a) = Request("Gatekeeper2", "GetLoginServers", 3, size, payload, body)
    BY DEF ConnectToGK
  <2> HIDE DEF size, payload, body
  <2>3. QED
    BY <1>2, <2>1, <2>2, FrameAddsUp
<1>4. WellFramed(ConnectToCS(a, b))
  <2> DEFINE size    == 58 + a + b
             payload == a + b + 34
             body    == Str(a) + Str(b) + 13 + Str(9)
  <2>1. /\ size \in Nat /\ payload \in Nat /\ body \in Nat
        /\ size + 0 = 3 * 4 + 12 + body /\ body = payload + 0
    BY <1>1
  <2>2. ConnectToCS(a, b) = Request("Server1.2", "SignIn", 3, size, payload, body)
    BY DEF ConnectToCS
  <2> HIDE DEF size, payload, body
  <2>3. QED
    BY <1>2, <2>1, <2>2, FrameAddsUp
<1>5. WellFramed(SendAcceptAddRequest(a, b, c, d))
  <2> DEFINE size    == 38 + a + b + d + c
             payload == 18 + a + b + d + c
             body    == Str(a) + Str(b) + Str(d) + Str(c) + Dword + Dword
  <2>1. /\ size \in Nat /\ payload \in Nat /\ body \in Nat
        /\ size + 6 = 2 * 4 + 12 + body /\ body = payload + 6
    BY <1>1
  <2>2. SendAcceptAddRequest(a, b, c, d) = Request("Server1.2", "AcceptAdd2", 2, size, payload, body)
    BY DEF SendAcceptAddRequest, Sized
  <2> HIDE DEF size, payload, body
  <2>3. QED
    BY <1>2, <2>1, <2>2, FrameAddsUp
<1>6. WellFramed(SendMessage(a, b, c, d)) /\ WellFramed(SendTypingNotification(a, b))
  BY <1>1, <1>2, SizedFramed DEF SendMessage, SendTypingNotification
<1>7. /\ WellFramed(DeleteOfflineMessage(a)) /\ WellFramed(SetStatus(a))
      /\ WellFramed(SendDenyAddRequest(a))
  BY <1>1, <1>2, SizedFramed DEF DeleteOfflineMessage, SetStatus, SendDenyAddRequest
<1>8. WellFramed(SendDelContactRequest(a, b)) /\ WellFramed(AddContactRequest(a, b, c))
  BY <1>1, <1>2, SizedFramed DEF SendDelContactRequest, AddContactRequest
<1>9. /\ WellFramed(ChangeBuddyGroupRequest(a, b, c, d))
      /\ WellFramed(SendAddRemoveGroupRequest(a, b, "AddGroup"))
      /\ WellFramed(SendAddRemoveGroupRequest(a, b, "RemoveGroup"))
  BY <1>1, <1>2, SizedFramed DEF ChangeBuddyGroupRequest, SendAddRemoveGroupRequest
<1>10. QED
  BY <1>3, <1>4, <1>5, <1>6, <1>7, <1>8, <1>9

LEMMA BaresFramed ==
  /\ WellFramed(SendKeepAlive) /\ WellFramed(SendOfflineMessagesRequest)
  /\ WellFramed(SendGetAddRequest) /\ WellFramed(SendGetChatRoomsRequest)
<1>1. {"KeepAlive", "GetOfflineMsgs", "GetAddRequests", "GetChatRoomsRequest"} \subseteq Commands
  BY DEF Commands
<1>2. QED
  BY <1>1, BareFramed DEF SendKeepAlive, SendOfflineMessagesRequest, SendGetAddRequest,
                          SendGetChatRoomsRequest

\* A row of requests that are well framed.
Framed(rs) == rs \in Seq(RequestType) /\ \A i \in 1..Len(rs) : WellFramed(rs[i])

LEMMA RowsFramed ==
  /\ Framed(<<>>)
  /\ \A r : WellFramed(r) => Framed(<<r>>)
  /\ \A s, t : Framed(s) /\ Framed(t) => Framed(s \o t)
<1>1. Framed(<<>>)
  BY DEF Framed
<1>2. ASSUME NEW r, WellFramed(r) PROVE Framed(<<r>>)
  BY <1>2 DEF Framed, WellFramed
<1>3. ASSUME NEW s, NEW t, Framed(s), Framed(t) PROVE Framed(s \o t)
  <2>1. s \in Seq(RequestType) /\ t \in Seq(RequestType)
    BY <1>3 DEF Framed
  <2>2. /\ s \o t \in Seq(RequestType) /\ Len(s \o t) = Len(s) + Len(t)
        /\ \A i \in 1..Len(s) + Len(t) :
             (s \o t)[i] = IF i <= Len(s) THEN s[i] ELSE t[i - Len(s)]
    BY <2>1
  <2>3. ASSUME NEW i \in 1..Len(s) + Len(t) PROVE WellFramed((s \o t)[i])
    <3>1. CASE i <= Len(s)
      <4>1. i \in 1..Len(s)
        BY <2>1, <3>1
      <4>2. QED
        BY <1>3, <2>2, <3>1, <4>1 DEF Framed
    <3>2. CASE ~(i <= Len(s))
      <4>1. i - Len(s) \in 1..Len(t)
        BY <2>1, <3>2
      <4>2. QED
        BY <1>3, <2>2, <3>2, <4>1 DEF Framed
    <3>3. QED
      BY <3>1, <3>2
  <2>4. QED
    BY <2>2, <2>3 DEF Framed
<1>4. QED
  BY <1>1, <1>2, <1>3

\* The invariant is that what is on the connection is a well-framed row.
LEMMA StreamFramed ==
  /\ IInv => Framed(stream)
  /\ (Framed(stream)' /\ stage' \in {"gatekeeper", "chat", "on"} /\ groups' \subseteq Lens
      /\ keepAlives' \in Nat /\ RosterOK') => IInv'
<1>1. IInv => Framed(stream)
  BY DEF IInv, TypeOK, FramesAlign, Framed, WellFramed
<1>2. (Framed(stream)' /\ stage' \in {"gatekeeper", "chat", "on"} /\ groups' \subseteq Lens
       /\ keepAlives' \in Nat /\ RosterOK') => IInv'
  BY DEF IInv, TypeOK, RosterOK, FramesAlign, Framed, WellFramed
<1>3. QED
  BY <1>1, <1>2

\* Every row that is written keeps the invariant.
LEMMA WriteIInv ==
  ASSUME IInv, NEW rs, Framed(rs), Write(rs),
         stage' \in {"gatekeeper", "chat", "on"}, groups' \subseteq Lens, keepAlives' \in Nat,
         RosterOK'
  PROVE  IInv'
<1>1. Framed(stream \o rs)
  BY StreamFramed, RowsFramed
<1>2. stream' = stream \o rs
  BY DEF Write
<1>3. Framed(stream)'
  BY <1>1, <1>2 DEF Framed
<1>4. QED
  BY <1>3, StreamFramed

\* A request, or a row of them, of the logged-in session.
LEMMA SendIInv ==
  ASSUME IInv, NEW rs, Framed(rs), Send(rs), keepAlives' \in Nat, RosterOK'
  PROVE  IInv'
<1>1. Write(rs) /\ stage' \in {"gatekeeper", "chat", "on"} /\ groups' \subseteq Lens
  BY DEF Send, IInv, TypeOK
<1>2. QED
  BY <1>1, WriteIInv

\* The group created first, and the request about it.
LEMMA GroupFirstFramed ==
  ASSUME NEW group \in Lens, NEW name \in Lens, NEW r, WellFramed(r)
  PROVE  Framed(GroupFirst(group, name) \o <<r>>)
<1>1. Framed(GroupFirst(group, name))
  BY BuildersFramed, RowsFramed DEF GroupFirst
<1>2. QED
  BY <1>1, RowsFramed

\* What the requests do to the groups on the server.
LEMMA NextGroups ==
  TypeOK /\ GroupsKnown /\ [Next]_vars => RosterOK' /\ GroupsKnown'
<1> SUFFICES ASSUME TypeOK, GroupsKnown, [Next]_vars PROVE RosterOK' /\ GroupsKnown'
  OBVIOUS
<1> USE DEF TypeOK, RosterOK, GroupsKnown, BuddyGroupsExist
<1>1. CASE UNCHANGED <<groups, onServer, removed, strayed>>
  BY <1>1
<1>2. CASE LoginAccepted
  BY <1>2 DEF LoginAccepted
<1>3. ASSUME NEW group \in Lens, NEW name \in Lens, PutInto(group, GroupFirst(group, name)),
             groups' = groups
      PROVE  RosterOK' /\ GroupsKnown'
  <2>1. CASE group \in groups
    <3>1. GroupFirst(group, name) = <<>>
      BY <2>1 DEF GroupFirst
    <3>2. onServer' = onServer /\ strayed' = strayed \cup ({group} \ onServer) /\ removed' = removed
      BY <1>3, <3>1 DEF PutInto
    <3> QED
      BY <1>3, <2>1, <3>2
  <2>2. CASE group \notin groups
    <3>1. GroupFirst(group, name) # <<>>
      BY <2>2 DEF GroupFirst
    <3>2. onServer' = onServer \cup {group} /\ strayed' = strayed /\ removed' = removed
      BY <1>3, <3>1 DEF PutInto
    <3> QED
      BY <1>3, <3>2
  <2> QED
    BY <2>1, <2>2
<1>4. CASE BuddyAdded
  <2>1. PICK group \in Lens, name \in Lens : PutInto(group, GroupFirst(group, name))
    BY <1>4 DEF BuddyAdded
  <2> QED
    BY <1>3, <1>4, <2>1 DEF BuddyAdded, Send
<1>5. CASE BuddyMoved
  <2>1. PICK to \in Lens, name \in Lens : PutInto(to, GroupFirst(to, name))
    BY <1>5 DEF BuddyMoved
  <2> QED
    BY <1>3, <1>5, <2>1 DEF BuddyMoved, Send
<1>6. CASE GroupRemoved
  <2>1. PICK group \in Lens : onServer' = onServer \ {group} /\ removed' = removed \cup {group}
    BY <1>6 DEF GroupRemoved
  <2>2. groups' = groups /\ strayed' = strayed
    BY <1>6 DEF GroupRemoved, Send
  <2> QED
    BY <2>1, <2>2
<1>7. CASE \/ SwitchToCS \/ GotConnected \/ MessageSent \/ KeepAliveTimer \/ OfflineMessages
           \/ StatusSet \/ AddRequestAnswered \/ BuddyRemoved \/ Typing \/ ChatRoomsListed
           \/ UNCHANGED vars
  <2>1. UNCHANGED <<groups, onServer, removed, strayed>>
    BY <1>7 DEF SwitchToCS, GotConnected, MessageSent, KeepAliveTimer, OfflineMessages,
                StatusSet, AddRequestAnswered, BuddyRemoved, Typing, ChatRoomsListed,
                Send, roster, vars
  <2> QED
    BY <1>1, <2>1
<1> QED
  BY <1>2, <1>4, <1>5, <1>6, <1>7 DEF Next

LEMMA InitIInv == Init => IInv
<1> SUFFICES ASSUME Init PROVE IInv
  OBVIOUS
<1>1. Framed(stream)
  BY RowsFramed DEF Init
<1>2. QED
  BY <1>1 DEF Init, IInv, TypeOK, FramesAlign, Framed, WellFramed

LEMMA NextIInv == IInv /\ GroupsKnown /\ [Next]_vars => IInv'
<1> SUFFICES ASSUME IInv, GroupsKnown, [Next]_vars PROVE IInv'
  OBVIOUS
<1>0. RosterOK'
  BY NextGroups DEF IInv
<1>1. keepAlives \in Nat /\ groups \subseteq Lens /\ stage \in {"gatekeeper", "chat", "on"}
  BY DEF IInv, TypeOK
<1>2. CASE SwitchToCS
  <2>1. Framed(stream)'
    BY <1>2, RowsFramed DEF SwitchToCS, Framed
  <2>2. QED
    BY <1>0, <1>1, <1>2, <2>1, StreamFramed DEF SwitchToCS
<1>3. CASE GotConnected
  <2>1. PICK rs : Framed(rs) /\ Write(rs)
    <3>1. CASE \E ua \in Lens : Write(<<ConnectToGK(ua)>>)
      BY <3>1, BuildersFramed, RowsFramed
    <3>2. CASE \E name, pass \in Lens : Write(<<ConnectToCS(name, pass)>>)
      BY <3>2, BuildersFramed, RowsFramed
    <3>3. QED
      BY <1>3, <3>1, <3>2 DEF GotConnected
  <2>2. QED
    BY <1>0, <1>1, <1>3, <2>1, WriteIInv DEF GotConnected
<1>4. CASE LoginAccepted
  <2> DEFINE first(known, message) == IF known THEN <<SetStatus(message)>> ELSE <<>>
             rest == <<SendKeepAlive, SendOfflineMessagesRequest, SendGetAddRequest>>
  <2>1. PICK known \in BOOLEAN, message \in Lens : Write(first(known, message) \o rest)
    BY <1>4 DEF LoginAccepted
  <2>2. Framed(first(known, message))
    BY BuildersFramed, RowsFramed
  <2>3. Framed(rest)
    <3>1. rest \in Seq(RequestType) /\ Len(rest) = 3
      BY BaresFramed DEF WellFramed
    <3>2. \A i \in 1..3 : WellFramed(rest[i])
      BY BaresFramed
    <3>3. QED
      BY <3>1, <3>2 DEF Framed
  <2>4. Framed(first(known, message) \o rest)
    BY <2>2, <2>3, RowsFramed
  <2>5. stage' = "on" /\ groups' \subseteq Lens /\ keepAlives' \in Nat
    BY <1>0, <1>1, <1>4 DEF LoginAccepted
  <2>6. QED
    BY <1>0, <2>1, <2>4, <2>5, WriteIInv
<1>5. CASE MessageSent
  <2>1. PICK a \in Lens, b \in Lens, c \in Lens, d \in Lens : Send(<<SendMessage(a, b, c, d)>>)
    BY <1>5 DEF MessageSent
  <2>2. QED
    BY <1>0, <1>1, <1>5, <2>1, BuildersFramed, RowsFramed, SendIInv DEF MessageSent
<1>6. CASE KeepAliveTimer
  BY <1>0, <1>1, <1>6, BaresFramed, RowsFramed, SendIInv DEF KeepAliveTimer
<1>7. CASE OfflineMessages
  <2>1. PICK n \in 1..MaxRequests - Len(stream) : \E ids \in [1..n -> Lens] :
          Send([i \in 1..n |-> DeleteOfflineMessage(ids[i])])
    BY <1>7 DEF OfflineMessages
  <2>2. PICK ids \in [1..n -> Lens] : Send([i \in 1..n |-> DeleteOfflineMessage(ids[i])])
    BY <2>1
  <2> DEFINE rs == [i \in 1..n |-> DeleteOfflineMessage(ids[i])]
  <2>3. n \in Nat /\ \A i \in 1..n : WellFramed(DeleteOfflineMessage(ids[i]))
    BY BuildersFramed
  <2>4. rs \in Seq(RequestType) /\ Len(rs) = n
    BY <2>3 DEF WellFramed
  <2>5. Framed(rs)
    BY <2>3, <2>4 DEF Framed
  <2>6. QED
    BY <1>0, <1>1, <1>7, <2>2, <2>5, SendIInv DEF OfflineMessages
<1>8. CASE StatusSet \/ BuddyRemoved \/ GroupRemoved \/ Typing \/ ChatRoomsListed
  <2>1. PICK r : WellFramed(r) /\ Send(<<r>>)
    BY <1>8, BuildersFramed, BaresFramed
       DEF StatusSet, BuddyRemoved, GroupRemoved, Typing, ChatRoomsListed
  <2>2. keepAlives' = keepAlives
    BY <1>8 DEF StatusSet, BuddyRemoved, GroupRemoved, Typing, ChatRoomsListed
  <2>3. QED
    BY <1>0, <1>1, <2>1, <2>2, RowsFramed, SendIInv
<1>9. CASE AddRequestAnswered
  <2>1. PICK r : WellFramed(r) /\ Send(<<r>>)
    BY <1>9, BuildersFramed DEF AddRequestAnswered
  <2>2. QED
    BY <1>0, <1>1, <1>9, <2>1, RowsFramed, SendIInv DEF AddRequestAnswered
<1>10. CASE BuddyAdded
  <2>1. PICK a \in Lens, b \in Lens, c \in Lens :
          Send(GroupFirst(c, a) \o <<AddContactRequest(a, b, c)>>)
    BY <1>10 DEF BuddyAdded
  <2>2. Framed(GroupFirst(c, a) \o <<AddContactRequest(a, b, c)>>)
    BY BuildersFramed, GroupFirstFramed
  <2>3. QED
    BY <1>0, <1>1, <1>10, <2>1, <2>2, SendIInv DEF BuddyAdded
<1>11. CASE BuddyMoved
  <2>1. PICK a \in Lens, b \in Lens, c \in Lens, d \in Lens :
          Send(GroupFirst(d, a) \o <<ChangeBuddyGroupRequest(a, b, c, d)>>)
    BY <1>11 DEF BuddyMoved
  <2>2. Framed(GroupFirst(d, a) \o <<ChangeBuddyGroupRequest(a, b, c, d)>>)
    BY BuildersFramed, GroupFirstFramed
  <2>3. QED
    BY <1>0, <1>1, <1>11, <2>1, <2>2, SendIInv DEF BuddyMoved
<1>12. CASE UNCHANGED vars
  BY <1>12 DEF vars, roster, IInv, TypeOK, FramesAlign
<1>13. QED
  BY <1>2, <1>3, <1>4, <1>5, <1>6, <1>7, <1>8, <1>9, <1>10, <1>11, <1>12 DEF Next

-----------------------------------------------------------------------------
\* The inductive invariant holds in every reachable state of a connection.
THEOREM Invariant == Spec => [](IInv /\ GroupsKnown)
<1>1. Init => IInv /\ GroupsKnown
  BY InitIInv DEF Init, GroupsKnown, BuddyGroupsExist
<1>2. IInv /\ GroupsKnown /\ [Next]_vars => IInv' /\ GroupsKnown'
  BY NextIInv, NextGroups DEF IInv
<1>3. QED
  BY <1>1, <1>2, PTL DEF Spec

\* Every request a connection carries has the type of a request.
THEOREM TypeCorrect == Spec => []TypeOK
BY Invariant, PTL DEF IInv

\* For names and texts of every length, the server finds every request where it
\* begins until an add request is accepted, and that one is six bytes too long; and the
\* length of the payload agrees with that of the frame.
THEOREM RequestsAlign == Spec => []FramesAlign
BY Invariant, PTL DEF IInv

\* A buddy is put into a group the server lacks only when the user removed the group
\* after the login at which it was remembered.
THEOREM StraysWereRemoved == Spec => []BuddyGroupsExist
<1>1. GroupsKnown => BuddyGroupsExist
  BY DEF GroupsKnown
<1> QED
  BY <1>1, Invariant, PTL
=============================================================================
