------------------------------ MODULE Requests ------------------------------
(***************************************************************************)
(* The requests RediffBolConn builds (rediffbol.cpp, rediffbol_chatroom.cpp,*)
(* request.h).  A request is written with two lengths computed apart from  *)
(* its fields: that of the frame, by which the server finds the next one,  *)
(* and that of the payload behind the command.  A length that is wrong     *)
(* shifts everything that follows on the connection.                       *)
(*                                                                         *)
(* A string is its length; a request is the lengths it declares and the    *)
(* bytes it writes.  Lengths are below 2^16 (intToSWord writes two bytes). *)
(*                                                                         *)
(* The server has groups of its own, which the session remembers as they   *)
(* were at the login; it handles every request as it is written.           *)
(***************************************************************************)
EXTENDS Naturals, Sequences

CONSTANTS
  Strlen,       \* lengths of the header and command names of request.h
  CapDir, CapHttpConnect, CapHttp,  \* lengths of the gatekeeper capabilities
  Lens,         \* lengths of names, passwords, groups, ids and texts
  MaxRequests   \* bound: requests on one connection

Headers  == {"Gatekeeper2", "Server1.2", "ClientPeer1.2"}
Commands ==
  { "GetLoginServers", "SignIn", "GetOfflineMsgs", "SetOnlineStatus", "TextMessage",
    "GetChatRoomsRequest", "KeepAlive", "DelOfflineMsg", "GetAddRequests", "AcceptAdd2",
    "DelAddRequest", "DelContact2", "AddGroup", "RemoveGroup",
    "MoveContactBetweenGroups", "AddContact2", "TypingNotify" }

ASSUME LengthsAssumption ==
  /\ Strlen \in [Headers \cup Commands -> Nat]
  /\ CapDir \in Nat /\ CapHttpConnect \in Nat /\ CapHttp \in Nat
  /\ Lens \subseteq Nat
  /\ MaxRequests \in Nat

VARIABLES
  stage,       \* what `connection' leads to: "gatekeeper", "chat" (not logged in), "on"
  stream,      \* the requests written to `connection', in order
  groups,      \* RediffBolConn::groups, filled when the login is accepted
  keepAlives,  \* keep_alive_counter
  onServer,    \* the groups of this user on the server (external)
  removed,     \* history: the groups the user has removed since the login
  strayed      \* history: the groups that buddies were put into and the server had not

roster == <<onServer, removed, strayed>>
vars == <<stage, stream, groups, keepAlives, roster>>

-----------------------------------------------------------------------------
Dword  == 4
Str(n) == Dword + n   \* a string behind its length

\* What every builder writes: n integers from the frame's length on, the header,
\* the command and the payload's length; then the payload.  size is the frame's
\* length before the names are added to it, all of it counted.
Request(hdr, cmd, n, size, payload, body) ==
  [ cmd     |-> cmd,
    size    |-> size + Strlen[hdr] + Strlen[cmd],
    bytes   |-> n * Dword + Str(Strlen[hdr]) + Str(Strlen[cmd]) + Dword + body,
    payload |-> payload,
    body    |-> body ]

\* Requests without a payload: three integers (a kind 0 and a number), nothing else.
Bare(cmd) == Request("Server1.2", cmd, 3, 24, 0, 0)

\* Requests of the user carry a kind, 3, and no number.
Sized(cmd, size, payload, body) == Request("Server1.2", cmd, 2, size, payload, body)
ToPeer(cmd, size, payload, body) == Request("ClientPeer1.2", cmd, 2, size, payload, body)

ConnectToGK(ua) ==
  LET caps == CapDir + CapHttpConnect + CapHttp IN
  Request("Gatekeeper2", "GetLoginServers", 3,
          caps + ua + 32 + 4 * 3, caps + 3 * 4 + ua + 8,
          Str(ua) + Dword + Str(CapDir) + Str(CapHttpConnect) + Str(CapHttp))

\* 13 bytes of a magic string, and a client version of 9.
ConnectToCS(name, pass) ==
  Request("Server1.2", "SignIn", 3, 58 + name + pass, name + pass + 34,
          Str(name) + Str(pass) + 13 + Str(9))

\* The text travels with the name of its font and 15 bytes of font description;
\* both strings are behind lengths of two bytes.
SendMessage(sender, to, font, msg) ==
  ToPeer("TextMessage", 57 + msg + sender + to + font, 37 + sender + to + msg + font,
         Str(sender) + Str(to) + Dword + Dword + 2 + (2 + font) + 15 + (2 + msg))

SendKeepAlive              == Bare("KeepAlive")
SendOfflineMessagesRequest == Bare("GetOfflineMsgs")
SendGetAddRequest          == Bare("GetAddRequests")
SendGetChatRoomsRequest    == Bare("GetChatRoomsRequest")

DeleteOfflineMessage(id) == Sized("DelOfflineMsg", 24 + id, 4 + id, Str(id))

SetStatus(message) == Sized("SetOnlineStatus", 28 + message, 8 + message, Dword + Str(message))

SendDenyAddRequest(reqId) == Sized("DelAddRequest", 24 + reqId, reqId + 4, Str(reqId))

SendAcceptAddRequest(localid, reqId, from, group) ==
  Sized("AcceptAdd2", 38 + localid + reqId + group + from,
        18 + localid + reqId + group + from,
        Str(localid) + Str(reqId) + Str(group) + Str(from) + Dword + Dword)

SendDelContactRequest(id, group) ==
  Sized("DelContact2", 28 + group + id, 8 + group + id, Str(group) + Str(id))

\* Fault: the integer behind the three strings is not counted.
AddContactForgetsLast(localid, remoteid, group) ==
  Sized("AddContact2", 32 + localid + remoteid + group, 16 + localid + remoteid + group,
        Str(localid) + Str(group) + Str(remoteid) + Dword)

AddContactRequest(localid, remoteid, group) ==
  Sized("AddContact2", 36 + localid + remoteid + group, 16 + localid + remoteid + group,
        Str(localid) + Str(group) + Str(remoteid) + Dword)

SendTypingNotification(name, to) ==
  ToPeer("TypingNotify", 28 + name + to, 8 + name + to, Str(name) + Str(to))

ChangeBuddyGroupRequest(name, buddy, from, to) ==
  Sized("MoveContactBetweenGroups", 36 + name + buddy + from + to, 16 + name + buddy + from + to,
        Str(name) + Str(buddy) + Str(from) + Str(to))

SendAddRemoveGroupRequest(group, name, cmd) ==
  Sized(cmd, 28 + group + name, 8 + name + group, Str(name) + Str(group))

-----------------------------------------------------------------------------
Init ==
  /\ stage = "gatekeeper" /\ stream = <<>>
  /\ groups = {} /\ keepAlives = 0
  /\ onServer = {} /\ removed = {} /\ strayed = {}

\* Fault: the connection is not the chat server's yet, nor the gatekeeper's.
SwitchHalfway ==
  /\ stage = "gatekeeper" /\ stream # <<>>
  /\ stage' = "switching" /\ stream' = <<>>
  /\ UNCHANGED <<groups, keepAlives, roster>>

\* parseGkResponse: the chat server's connection takes the gatekeeper's place.
SwitchToCS ==
  /\ stage = "gatekeeper" /\ stream # <<>>
  /\ stage' = "chat" /\ stream' = <<>>
  /\ UNCHANGED <<groups, keepAlives, roster>>

\* connection->write(): the requests rs go out together.
Write(rs) == Len(stream) + Len(rs) <= MaxRequests /\ stream' = stream \o rs

\* gotConnected: the first request of each connection.
GotConnected ==
  /\ stream = <<>>
  /\ \/ stage = "gatekeeper" /\ \E ua \in Lens : Write(<<ConnectToGK(ua)>>)
     \/ stage = "chat" /\ \E name, pass \in Lens : Write(<<ConnectToCS(name, pass)>>)
  /\ UNCHANGED <<stage, groups, keepAlives, roster>>

\* parseCSLoginResponse: the groups of the roster are remembered, and four
\* requests go out (setStatus sends nothing for a status it does not know).
LoginAccepted ==
  /\ stage = "chat" /\ stream # <<>>
  /\ stage' = "on"
  /\ groups' \in SUBSET Lens
  /\ \E known \in BOOLEAN, message \in Lens :
       Write((IF known THEN <<SetStatus(message)>> ELSE <<>>)
             \o <<SendKeepAlive, SendOfflineMessagesRequest, SendGetAddRequest>>)
  /\ keepAlives' = keepAlives + 1
  /\ onServer' = groups' /\ removed' = {} /\ strayed' = {}

-----------------------------------------------------------------------------
(***************************************************************************)
(* The rest needs a session that is logged in.  The names are those of     *)
(* after fixEmail, which appends the domain before any length is taken.    *)
(***************************************************************************)
\* What every request shares: libpurple lets the user act once the account is connected,
\* the session is valid (assert) and writes to `connection'.
Send(rs) == stage = "on" /\ Write(rs) /\ UNCHANGED <<stage, groups>>

MessageSent ==
  /\ \E sender, to, font, msg \in Lens : Send(<<SendMessage(sender, to, font, msg)>>)
  /\ UNCHANGED <<keepAlives, roster>>

KeepAliveTimer ==
  Send(<<SendKeepAlive>>) /\ keepAlives' = keepAlives + 1 /\ UNCHANGED roster

\* parseOfflineMessages deletes the messages of one frame, one by one.
OfflineMessages ==
  /\ \E n \in 1..MaxRequests - Len(stream) : \E ids \in [1..n -> Lens] :
       Send([i \in 1..n |-> DeleteOfflineMessage(ids[i])])
  /\ UNCHANGED <<keepAlives, roster>>

StatusSet ==
  /\ \E message \in Lens : Send(<<SetStatus(message)>>)
  /\ UNCHANGED <<keepAlives, roster>>

\* Both go to the prompt's answer; the group of an accepted buddy is "Friends".
AddRequestAnswered ==
  /\ \E localid, id, from, group \in Lens :
       \/ Send(<<SendDenyAddRequest(id)>>)
       \/ Send(<<SendAcceptAddRequest(localid, id, from, group)>>)
  /\ UNCHANGED <<keepAlives, roster>>

BuddyRemoved ==
  /\ \E id, group \in Lens : Send(<<SendDelContactRequest(id, group)>>)
  /\ UNCHANGED <<keepAlives, roster>>

\* Fault: the groups that are known are created, and not the others.
KnownGroupFirst(group, name) ==
  IF group \in groups THEN <<SendAddRemoveGroupRequest(group, name, "AddGroup")>>
  ELSE <<>>

\* A group that is not in `groups' is created first; `groups' is not updated.
GroupFirst(group, name) ==
  IF group \in groups THEN <<>>
  ELSE <<SendAddRemoveGroupRequest(group, name, "AddGroup")>>

\* The server creates the group if it was asked to, then puts the buddy into it.
PutInto(group, first) ==
  /\ onServer' = onServer \cup (IF first = <<>> THEN {} ELSE {group})
  /\ strayed' = strayed \cup ({group} \ onServer')
  /\ UNCHANGED removed

\* sendAddContactRequest.
BuddyAdded ==
  /\ \E name, remoteid, group \in Lens :
       /\ Send(GroupFirst(group, name) \o <<AddContactRequest(name, remoteid, group)>>)
       /\ PutInto(group, GroupFirst(group, name))
  /\ UNCHANGED keepAlives

\* sendChangeBuddyGroupRequest.
BuddyMoved ==
  /\ \E name, buddy, from, to \in Lens :
       /\ Send(GroupFirst(to, name) \o <<ChangeBuddyGroupRequest(name, buddy, from, to)>>)
       /\ PutInto(to, GroupFirst(to, name))
  /\ UNCHANGED keepAlives

GroupRemoved ==
  /\ \E group, name \in Lens :
       /\ Send(<<SendAddRemoveGroupRequest(group, name, "RemoveGroup")>>)
       /\ onServer' = onServer \ {group} /\ removed' = removed \cup {group}
  /\ UNCHANGED <<keepAlives, strayed>>

Typing ==
  /\ \E name, to \in Lens : Send(<<SendTypingNotification(name, to)>>)
  /\ UNCHANGED <<keepAlives, roster>>

ChatRoomsListed ==
  Send(<<SendGetChatRoomsRequest>>) /\ UNCHANGED <<keepAlives, roster>>

Next ==
  \/ SwitchToCS \/ GotConnected \/ LoginAccepted
  \/ MessageSent \/ KeepAliveTimer \/ OfflineMessages \/ StatusSet
  \/ AddRequestAnswered \/ BuddyRemoved \/ BuddyAdded \/ BuddyMoved
  \/ GroupRemoved \/ Typing \/ ChatRoomsListed

Spec == Init /\ [][Next]_vars

-----------------------------------------------------------------------------
RequestType == [cmd : Commands, size : Nat, bytes : Nat, payload : Nat, body : Nat]

TypeOK ==
  /\ stage \in {"gatekeeper", "chat", "on"}
  /\ stream \in Seq(RequestType)
  /\ groups \subseteq Lens
  /\ keepAlives \in Nat
  /\ onServer \subseteq Lens /\ removed \subseteq Lens /\ strayed \subseteq Lens

\* Bytes a request writes beyond those it declares, in the frame and the payload.
Surplus(r) == IF r.cmd = "AcceptAdd2" THEN 6 ELSE 0

\* The server finds every request where it begins, as long as no request to be
\* added was accepted: that one is six bytes longer than it declares, and no other
\* request is off by any, whatever the names and texts in it.  Its payload fills the rest
\* of its frame, with the same exception: the two declared lengths are consistent.
FramesAlign ==
  \A i \in 1..Len(stream) : /\ stream[i].bytes = stream[i].size + Surplus(stream[i])
                            /\ stream[i].body = stream[i].payload + Surplus(stream[i])

\* sendAddContactRequest and sendChangeBuddyGroupRequest put a buddy into a group the
\* server has, although `groups' is not updated after the login; but not into one that
\* was there at the login and that the user has removed since: it is not created anew.
BuddyGroupsExist == strayed \subseteq removed \cap groups

\* assert(out.str().length() == size_t(size)), of sendTypingNotification, which
\* builds its request the way all others do: a request is as long as it declares.
SizesAreTrue == \A i \in 1..Len(stream) : stream[i].bytes = stream[i].size
=============================================================================
