---------------------------- MODULE Conversation ----------------------------
(***************************************************************************)
(* The conversation with the chat server over several logins: messages     *)
(* left while the user was away, pending requests to be added, and lists   *)
(* of chat rooms.  The server keeps a message until it is told to delete   *)
(* it and a request until it is answered; a connection may be lost at any  *)
(* time, with what is under way in either direction, and the process may   *)
(* stop in the middle of a reply.  Then comes the next login.              *)
(*                                                                         *)
(* How a session is torn down and why the process stops is Session's; here *)
(* both end the conversation.  A handler of a reply is one action.         *)
(***************************************************************************)
EXTENDS Integers, SequencesExt

CONSTANTS
  Mails,       \* messages that are left for the user
  Poison,      \* those among them that may be unreadable (see ChatMessage)
  Adds,        \* requests to be added
  MaxLogins,   \* bound: logins
  MaxLists     \* bound: requests for the chat rooms

ASSUME ConversationAssumption ==
  /\ Poison \subseteq Mails /\ Mails \cap Adds = {}
  /\ MaxLogins \in Nat /\ MaxLists \in Nat

Items == Mails \cup Adds

VARIABLES
  \* the server
  poison,      \* the messages that cannot be read
  mailbox,     \* the messages it keeps, in order
  pendingAdds, \* the requests it keeps, in order
  toServer,    \* requests under way on the current connection
  late,        \* items of deletions and answers under way from connections now gone
  \* the session
  login,       \* history: logins so far; names the current one
  online,      \* the current one is logged in
  toClient,    \* replies under way to it
  prompts,     \* open prompts for each request to be added
  roomlist,    \* RediffBolConn::roomlist: "unset" (NULL or never set) or "list"
  \* histories
  arrived,     \* items that have reached the server
  ready,       \* messages ever shown, requests ever answered
  seen,        \* how often the current login has shown each message
  prompted,    \* how often the current login has asked about each request to be added
  asked,       \* lists of rooms asked for so far
  filled,      \* how often the current list was filled
  overlapped   \* the current list was asked for while an answer was outstanding

server == <<poison, mailbox, pendingAdds>>
rooms  == <<roomlist, asked, filled, overlapped>>
vars == <<server, toServer, late, login, online, toClient, prompts, rooms, arrived, ready,
          seen, prompted>>

Init ==
  /\ poison \in SUBSET Poison
  /\ mailbox = <<>> /\ pendingAdds = <<>> /\ toServer = <<>> /\ late = {}
  /\ login = 0 /\ online = FALSE /\ toClient = <<>>
  /\ prompts = [a \in Adds |-> 0]
  /\ roomlist = "unset" /\ asked = 0 /\ filled = 0 /\ overlapped = FALSE
  /\ arrived = {} /\ ready = {} /\ seen = [m \in Mails |-> 0]
  /\ prompted = [a \in Adds |-> 0]

\* A request or a reply, and the items it is about.
Msg(op, of) == [op |-> op, of |-> of]

Messages(ops) == [op : ops, of : Seq(Items)]

Requests  == {"getMails", "getAdds", "getRooms", "delMail", "accept", "deny"}
Replies   == {"mails", "adds", "rooms"}
Decisions == {"delMail", "accept", "deny"}

\* connection->write(): requests go out on the current connection.
Write(requests) == toServer' = toServer \o requests /\ UNCHANGED late

Count(queue, op) == Cardinality({i \in 1..Len(queue) : queue[i].op = op})

\* Requests for the rooms whose answer has not been handled.
Outstanding == Count(toServer, "getRooms") + Count(toClient, "rooms")

-----------------------------------------------------------------------------
(***************************************************************************)
(* The session.                                                            *)
(***************************************************************************)

\* parseCSLoginResponse, in a new session.
Login ==
  /\ ~online /\ login < MaxLogins
  /\ login' = login + 1 /\ online' = TRUE
  /\ Write(<<Msg("getMails", <<>>), Msg("getAdds", <<>>)>>)
  /\ seen' = [m \in Mails |-> 0]
  /\ UNCHANGED <<server, toClient, prompts, prompted, rooms, arrived, ready>>

\* What deletions and answers in a queue are about.
Decided(queue) == {queue[i].of[1] : i \in {j \in DOMAIN queue : queue[j].op \in Decisions}}

\* The session writes its last requests and is gone, and with it what was under way to
\* the client.  Of what is under way to the server, deletions and answers may still
\* arrive; nobody hears the answer to the rest.  libpurple closes the prompts of an
\* account it disconnects.
Gone(requests) ==
  /\ late' = late \cup Decided(toServer \o requests) /\ toServer' = <<>>
  /\ online' = FALSE /\ toClient' = <<>>
  /\ prompts' = [a \in Adds |-> 0] /\ prompted' = [a \in Adds |-> 0]
  /\ roomlist' = "unset" /\ filled' = 0 /\ overlapped' = FALSE

\* Torn down, logged out, or the process has stopped.  The first request for rooms may
\* stop it too: it gives up a roomlist the constructor never set.
SessionEnds ==
  /\ online
  /\ Gone(<<>>)
  /\ UNCHANGED <<server, login, asked, arrived, ready, seen>>

\* The first n messages can be read, and the next one, if there is one, cannot.
Readable(list, n) ==
  /\ \A i \in 1..n : list[i] \notin poison
  /\ n < Len(list) => list[n + 1] \in poison

\* One more for each item of the list.
OneMore(f, list) == [i \in DOMAIN f |-> f[i] + IF i \in ToSet(list) THEN 1 ELSE 0]

Show(list) ==
  /\ ready' = ready \cup ToSet(list)
  /\ seen' = OneMore(seen, list)

\* Fault: what was listed is deleted, shown or not.
DeleteAll(list, n) == [i \in 1..Len(list) |-> Msg("delMail", <<list[i]>>)]

\* Fault: no deletion is sent.
DeleteNone(list, n) == <<>>

\* deleteOfflineMessage, for the first n messages.
DeleteShown(list, n) == [i \in 1..n |-> Msg("delMail", <<list[i]>>)]

\* Fault: the reply stays in the buffer.
Again == toClient' = toClient

\* The reply is taken off the connection.
Taken == toClient' = Tail(toClient)

(***************************************************************************)
(* parseOfflineMessages shows each message and writes its deletion.        *)
(***************************************************************************)

\* All n that can be read are shown; what is behind is dropped by the exception.
MailsShown(list, n) ==
  /\ Show(SubSeq(list, 1, n)) /\ Write(DeleteShown(list, n))
  /\ Taken
  /\ UNCHANGED <<online, prompts, prompted, rooms>>

\* The message that cannot be read fails an assertion of encode.
MailsAbort(list, n) ==
  /\ n < Len(list)
  /\ Show(SubSeq(list, 1, n)) /\ Gone(DeleteShown(list, n))
  /\ UNCHANGED asked

\* Deletion k cannot be written and the session is torn down: the next message is
\* shown, and deleteOfflineMessage asserts that the session is valid.
MailsCutOff(list, n) ==
  \E k \in 1..n :
    /\ Show(SubSeq(list, 1, IF k < n THEN k + 1 ELSE k)) /\ Gone(DeleteShown(list, k - 1))
    /\ UNCHANGED asked

OfflineMessages ==
  /\ online /\ toClient # <<>> /\ Head(toClient).op = "mails"
  /\ LET list == Head(toClient).of IN
     \E n \in 0..Len(list) :
       /\ Readable(list, n)
       /\ MailsShown(list, n) \/ MailsAbort(list, n) \/ MailsCutOff(list, n)
  /\ UNCHANGED <<server, login, arrived>>

\* parseOfflineAddContactResponse (all the server keeps) and parseContactAddRequest
\* (one, as it arrives) open a prompt for each request.
AddRequests ==
  /\ online /\ toClient # <<>> /\ Head(toClient).op = "adds"
  /\ prompts' = OneMore(prompts, Head(toClient).of)
  /\ prompted' = OneMore(prompted, Head(toClient).of)
  /\ Taken
  /\ UNCHANGED <<server, toServer, late, login, online, rooms, arrived, ready, seen>>

\* The user answers: sendAcceptAddRequest or sendDenyAddRequest.
Answer(a) ==
  /\ online /\ prompts[a] > 0
  /\ prompts' = [prompts EXCEPT ![a] = @ - 1]
  /\ ready' = ready \cup {a}
  /\ \E op \in {"accept", "deny"} : Write(<<Msg(op, <<a>>)>>)
  /\ UNCHANGED <<server, login, online, toClient, rooms, arrived, seen, prompted>>

\* Fault: the previous list is given up, the new one returned and not remembered.
ListForgotten == roomlist' = "NULL" /\ filled' = 0

\* Fault: the list of the previous request is used again.
SameList == roomlist' = "list" /\ UNCHANGED filled

NewList == roomlist' = "list" /\ filled' = 0

\* sendGetChatRoomsRequest: a new list takes the place of the previous one.
AskRooms ==
  /\ online /\ asked < MaxLists
  /\ Write(<<Msg("getRooms", <<>>)>>)
  /\ asked' = asked + 1 /\ overlapped' = (Outstanding > 0)
  /\ NewList
  /\ UNCHANGED <<server, login, online, toClient, prompts, prompted, arrived, ready, seen>>

\* parseChatRoomsResponse fills the list there is now.
ChatRooms ==
  /\ online /\ toClient # <<>> /\ Head(toClient).op = "rooms"
  /\ filled' = filled + 1
  /\ Taken
  /\ UNCHANGED <<server, toServer, late, login, online, prompts, prompted, roomlist, asked, overlapped>>
  /\ UNCHANGED <<arrived, ready, seen>>

-----------------------------------------------------------------------------
(***************************************************************************)
(* The server (external).                                                  *)
(***************************************************************************)
Reply(reply) == toClient' = Append(toClient, reply)

\* Requests are handled in order.
NextRequest(ops) ==
  /\ online /\ toServer # <<>> /\ Head(toServer).op \in ops
  /\ toServer' = Tail(toServer)
  /\ UNCHANGED <<late, login, online, prompts, prompted, rooms, arrived, ready, seen>>

ListMails == NextRequest({"getMails"}) /\ Reply(Msg("mails", mailbox)) /\ UNCHANGED server
ListAdds  == NextRequest({"getAdds"}) /\ Reply(Msg("adds", pendingAdds)) /\ UNCHANGED server
ListRooms == NextRequest({"getRooms"}) /\ Reply(Msg("rooms", <<>>)) /\ UNCHANGED server

\* A list without an item, if it has it.
Without(list, item) ==
  IF \E i \in 1..Len(list) : list[i] = item
  THEN LET i == CHOOSE i \in 1..Len(list) : list[i] = item
       IN  SubSeq(list, 1, i - 1) \o SubSeq(list, i + 1, Len(list))
  ELSE list

\* A deleted message or an answered request is given up.
Forget(item) ==
  /\ mailbox' = Without(mailbox, item) /\ pendingAdds' = Without(pendingAdds, item)
  /\ UNCHANGED <<poison, toClient>>

Settle == NextRequest(Decisions) /\ Forget(Head(toServer).of[1])

Serve == ListMails \/ ListAdds \/ ListRooms \/ Settle

\* A deletion or an answer arrives after its connection is gone.
SettleLate(item) ==
  /\ item \in late /\ late' = late \ {item}
  /\ Forget(item)
  /\ UNCHANGED <<toServer, login, online, prompts, prompted, rooms, arrived, ready, seen>>

\* What was under way on lost connections does not arrive.
LateLost ==
  /\ late # {} /\ late' = {}
  /\ UNCHANGED <<server, toServer, login, online, toClient, prompts, prompted, rooms, arrived, ready, seen>>

\* A message is left for a user who is away, and who will log in again.
MailArrives(m) ==
  /\ m \notin arrived /\ ~online /\ login < MaxLogins
  /\ arrived' = arrived \cup {m} /\ mailbox' = Append(mailbox, m)
  /\ UNCHANGED <<poison, pendingAdds, toServer, late, login, online, toClient, prompts, prompted>>
  /\ UNCHANGED <<rooms, ready, seen>>

\* A request to be added is kept until it is answered, and passed on at once to a
\* user who is there.
AddArrives(a) ==
  /\ a \notin arrived /\ (online \/ login < MaxLogins)
  /\ arrived' = arrived \cup {a} /\ pendingAdds' = Append(pendingAdds, a)
  /\ IF online THEN Reply(Msg("adds", <<a>>)) ELSE UNCHANGED toClient
  /\ UNCHANGED <<poison, mailbox, toServer, late, login, online, prompts, prompted, rooms, ready, seen>>

-----------------------------------------------------------------------------
Handle == OfflineMessages \/ AddRequests \/ ChatRooms

Next ==
  \/ Login \/ SessionEnds \/ Handle
  \/ \E a \in Adds : Answer(a)
  \/ AskRooms
  \/ Serve \/ LateLost
  \/ \E item \in Items : SettleLate(item)
  \/ \E m \in Mails : MailArrives(m)
  \/ \E a \in Adds : AddArrives(a)

Spec == Init /\ [][Next]_vars

\* The server answers, and replies that have come are handled (see Framing).
FairSpec ==
  /\ Spec
  /\ WF_vars(Serve)
  /\ WF_vars(Handle)
-----------------------------------------------------------------------------
TypeOK ==
  /\ poison \subseteq Poison /\ mailbox \in Seq(Mails) /\ pendingAdds \in Seq(Adds)
  /\ toServer \in Seq(Messages(Requests)) /\ late \subseteq Items
  /\ login \in 0..MaxLogins /\ online \in BOOLEAN
  /\ toClient \in Seq(Messages(Replies))
  /\ prompts \in [Adds -> Nat] /\ prompted \in [Adds -> Nat]
  /\ roomlist \in {"unset", "list"}
  /\ arrived \subseteq Items /\ ready \subseteq Items
  /\ seen \in [Mails -> Nat]
  /\ asked \in Nat /\ filled \in Nat /\ overlapped \in BOOLEAN

\* Whatever is lost and whenever a session ends, the server gives up a message only
\* when it was shown to the user, and a request to be added only when he answered it.
kept == ToSet(mailbox) \cup ToSet(pendingAdds)
D == INSTANCE Deliveries
KeptUntilTold == D!Safety

\* A message is shown again only by another login.
ShownOncePerLogin == \A m \in Mails : seen[m] <= 1

\* A request that arrives while the list of requests is under way is asked twice in
\* the same login, by parseContactAddRequest and by parseOfflineAddContactResponse; no
\* request is asked more often, however the user answers in between.
AskedAtMostTwice == \A a \in Adds : prompted[a] <= 2

\* A reply of rooms finds a list to fill: roomlist is set from the request on.
RoomsFindAList ==
  (\E i \in 1..Len(toServer) : toServer[i].op = "getRooms") \/
  (\E i \in 1..Len(toClient) : toClient[i].op = "rooms") => roomlist = "list"

\* The list the session has now is filled, or an answer is under way that will fill
\* it; and it gets rooms twice only when the user asked again before the answer came.
ListIsFilledOnce ==
  online /\ roomlist = "list" =>
    /\ filled + Outstanding >= 1
    /\ filled + Outstanding > 1 => overlapped

\* A message that can be read and has no unreadable one in front of it is shown and
\* deleted, unless the session ends first.
Deliverable(m) ==
  \E n \in 1..Len(mailbox) : mailbox[n] = m /\ \A i \in 1..n : mailbox[i] \notin poison

MailIsDelivered ==
  \A m \in Mails, l \in 1..MaxLogins :
    (online /\ login = l /\ Deliverable(m)) ~> (m \notin ToSet(mailbox) \/ ~online \/ login # l)
=============================================================================
