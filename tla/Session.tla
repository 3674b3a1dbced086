------------------------------- MODULE Session -------------------------------
(***************************************************************************)
(* The life of a rediffbol session: RediffBolConn (rediffbol.cpp), the     *)
(* plugin entry points libpurple calls (rediffbol_init.cpp), the avatar    *)
(* fetches (avatar.cpp) and the RObject registry (RObject.cpp) whose ids   *)
(* the callbacks carry instead of addresses.                               *)
(*                                                                         *)
(* libpurple runs everything on one event loop, so an action is a whole    *)
(* callback with every call it makes.  Concurrency is what survives a      *)
(* callback: connection attempts, sockets, the keep-alive timer, HTTP      *)
(* fetches and authorization prompts, each outstanding while the session   *)
(* they belong to is torn down, deleted, or replaced by the next login.    *)
(*                                                                         *)
(* Abstracted: the contents of packets (see Requests), bytes and partial   *)
(* frames (see AsyncConn), and frames that only tell libpurple something   *)
(* (presence, mail counts, the text of messages).  A failed assertion, an  *)
(* exception nobody catches and a call through a NULL or freed pointer     *)
(* stop the process: "crashed".                                            *)
(***************************************************************************)
EXTENDS Naturals, Sequences, FiniteSets, Functions

CONSTANTS
  None,        \* no object
  Buddies,     \* names on the roster the server sends
  MaxLogins,   \* bound: logins in one run of the program
  Faults       \* what may go wrong: a subset of AllFaults

AllFaults == {"writeFails", "establishFails", "badReply"}

ASSUME ConstantsAssumption ==
  /\ None \notin Nat
  /\ MaxLogins \in Nat
  /\ Faults \subseteq AllFaults

VARIABLES
  \* RObject.cpp
  nextId,       \* id_counter
  \* libpurple's PurpleConnection
  gc,           \* "offline", "connecting" or "connected"
  dying,        \* purple_connection_error_reason has scheduled a disconnect
  \* the RediffBolConn gc->proto_data points to
  sid,          \* its id; None when there is none
  invalid,      \* RObject::invalid
  connection,   \* id of the PurpleAsyncConn it owns, or None
  loggedIn,     \* connection_state = 2
  timerSet,     \* keep_alive_timer_handle # 0
  \* what is outstanding with libpurple
  conns,        \* existing PurpleAsyncConns: id -> mode, phase, handler id
  timers,       \* ids carried by the pending keep-alive timers
  fetches,      \* outstanding avatar downloads
  prompts,      \* sessions with an unanswered authorization prompt
  roomlist,     \* RediffBolConn::roomlist: "unset" by the constructor, or "set"
  crashed,      \* None, or the call that stopped the process
  logins,       \* history: logins so far; names the current session
  begun         \* history: buddies whose avatar the current login began to fetch

vars == <<nextId, gc, dying, sid, invalid, connection, loggedIn, timerSet,
          conns, timers, fetches, prompts, roomlist, crashed, logins, begun>>

\* Groups of variables that an action leaves alone together.
registry  == <<nextId, logins>>
perLogin  == <<roomlist, begun>>
pending   == <<fetches, prompts, perLogin>>
session   == <<gc, dying, sid, invalid, connection, loggedIn, timerSet>>

Init ==
  /\ nextId = 0 /\ logins = 0
  /\ gc = "offline" /\ dying = FALSE
  /\ sid = None /\ invalid = FALSE /\ connection = None
  /\ loggedIn = FALSE /\ timerSet = FALSE
  /\ conns = <<>> /\ timers = {} /\ fetches = {} /\ prompts = {}
  /\ roomlist = "unset" /\ begun = {}
  /\ crashed = None

-----------------------------------------------------------------------------
\* Fault: ids count the live objects, so that they are used again.
RecycledId(k) == Cardinality(DOMAIN conns \cup ({sid} \ {None})) + k

\* RObject::RObject: the id of the k-th object created in a step (from 0).
NewId(k) == nextId + k

(***************************************************************************)
(* Connection objects.  parse_mode is 1 for the gatekeeper, 2 for the      *)
(* gatekeeper over port 80, 0 for the chat server.                         *)
(***************************************************************************)
WithConn(cs, c, m, owner) ==
  [x \in DOMAIN cs \cup {c} |->
     IF x = c THEN [mode |-> m, phase |-> "attempt", handler |-> owner] ELSE cs[x]]

Closed(cs, c)  == [cs EXCEPT ![c].phase = "closed"]
Deleted(cs, c) == Restrict(cs, DOMAIN cs \ {c})

\* HANDLER: the owner's id still resolves to the session.
Handled(c) == conns[c].handler = sid

\* Fault: the session is torn down and libpurple is not told.
SilentTearDown(cs, con) ==
  invalid' = TRUE /\ connection' = None /\ conns' = Deleted(cs, con) /\ UNCHANGED dying

\* Fault: softDestroy without setInvalid().
TearDownLeftValid(cs, con) ==
  UNCHANGED invalid /\ connection' = None /\ conns' = Deleted(cs, con) /\ dying' = TRUE

(***************************************************************************)
(* setStateNetworkError: softDestroy removes the timer, marks the session  *)
(* invalid and deletes `connection'; then libpurple is told, which         *)
(* schedules the disconnect.  cs is conns and con `connection' at the time *)
(* of the call.                                                            *)
(***************************************************************************)
TearDown(cs, con) ==
  /\ invalid' = TRUE
  /\ connection' = None
  /\ conns' = Deleted(cs, con)
  /\ dying' = TRUE

StopTimer ==
  /\ timers' = IF timerSet THEN timers \ {sid} ELSE timers
  /\ timerSet' = FALSE

\* Fault: the handle of the new timer is not kept.
ArmTimerUnsaved == timers' = timers \cup {sid} /\ UNCHANGED timerSet

ArmTimer == timers' = timers \cup {sid} /\ timerSet' = TRUE

\* Fault: the session is deleted on the spot instead of by the disconnect.
NetworkErrorDeletes(cs, con) ==
  TearDown(cs, con) /\ StopTimer /\ sid' = None /\ UNCHANGED <<gc, loggedIn>>

NetworkError(cs, con) ==
  TearDown(cs, con) /\ StopTimer /\ UNCHANGED <<gc, sid, loggedIn>>

\* The process stops in `call' before anything else happens.
Abort(call) ==
  /\ crashed' = call
  /\ UNCHANGED <<nextId, gc, dying, sid, invalid, connection, loggedIn, timerSet,
                 conns, timers, fetches, prompts, roomlist, logins, begun>>

\* The session can send: !isInvalid() holds and `connection' is not NULL.
Usable == ~invalid /\ connection # None

\* Which of n writes in a row fails; 0 when none does.
FailingWrite(n) == IF "writeFails" \in Faults THEN 0..n ELSE {0}

(***************************************************************************)
(* A handler of a usable session that makes `calls' in order, each writing  *)
(* one packet, the k-th write failing.  The failed write closes the        *)
(* connection and calls readError, which tears the session down under the  *)
(* handler's feet.  The handler is not told: its next call asserts         *)
(* !isInvalid() or goes through the NULL connection.  cs is conns at the   *)
(* time of the calls.                                                      *)
(***************************************************************************)
Sends(cs, calls, k) ==
  IF k = 0
  THEN conns' = cs /\ UNCHANGED <<session, timers, crashed>>
  ELSE /\ NetworkError(cs, connection)
       /\ crashed' = IF k < Len(calls) THEN calls[k + 1] ELSE crashed

-----------------------------------------------------------------------------
(***************************************************************************)
(* Plugin entry points (rediffbol_init.cpp).                               *)
(***************************************************************************)

\* rediffbol_login: a new session and its gatekeeper connection.
\* establish_connection fails at once when purple_proxy_connect does.
Login ==
  /\ crashed = None
  /\ gc = "offline" /\ logins < MaxLogins
  /\ logins' = logins + 1
  /\ nextId' = nextId + 2
  /\ sid' = NewId(0)
  /\ loggedIn' = FALSE /\ timerSet' = FALSE
  /\ roomlist' = "unset" /\ begun' = {}
  /\ gc' = "connecting"
  /\ \/ /\ conns' = WithConn(conns, NewId(1), 1, NewId(0))
        /\ connection' = NewId(1)
        /\ invalid' = FALSE /\ dying' = FALSE
     \/ /\ "establishFails" \in Faults
        /\ connection' = None
        /\ invalid' = TRUE /\ dying' = TRUE
        /\ UNCHANGED conns
  /\ UNCHANGED <<timers, fetches, prompts, crashed>>

\* libpurple closes the prompts of an account it disconnects (external).
PromptsClosed == prompts' = {}

\* rediffbol_close, from libpurple's disconnect timeout or because the user
\* logs out: shutdown(), then delete.
Disconnect ==
  /\ sid # None
  /\ gc' = "offline" /\ dying' = FALSE
  /\ sid' = None /\ invalid' = FALSE /\ connection' = None
  /\ loggedIn' = FALSE
  /\ conns' = IF invalid THEN conns ELSE Deleted(conns, connection)
  /\ timers' = IF timerSet /\ ~invalid THEN timers \ {sid} ELSE timers
  /\ timerSet' = FALSE
  /\ roomlist' = "unset" /\ begun' = {}
  /\ PromptsClosed
  /\ UNCHANGED <<registry, fetches, crashed>>

Logout == crashed = None /\ ~dying /\ Disconnect
DisconnectTimeout == crashed = None /\ dying /\ Disconnect

\* What the other entry points send.  add_buddy and group_buddy create the
\* group first when the `groups' cache lacks it.
UiSends ==
  { "sendMessage", "setStatus", "sendTypingNotification", "sendDelContactRequest",
    "sendAddRemoveGroupRequest", "sendAddContactRequest", "sendChangeBuddyGroupRequest" }

UiCalls ==
  {<<send>> : send \in UiSends} \cup
  {<<"sendAddRemoveGroupRequest", send>> :
     send \in {"sendAddContactRequest", "sendChangeBuddyGroupRequest"}}

\* The user acts while libpurple shows the account as connected, which it does
\* until the disconnect scheduled by an error has run.
UiRequest ==
  /\ crashed = None
  /\ gc = "connected"
  /\ \E calls \in UiCalls :
       IF ~Usable
       THEN Abort(Head(calls))
       ELSE \E k \in FailingWrite(Len(calls)) :
              Sends(conns, calls, k) /\ UNCHANGED <<registry, pending>>

(***************************************************************************)
(* sendGetChatRoomsRequest, which asserts nothing and goes on after a write *)
(* that fails.  It gives up the previous list and keeps a new one; on the  *)
(* first request `roomlist' is whatever the memory held, and to give that  *)
(* up may stop the process.                                                *)
(***************************************************************************)
RoomsRequest ==
  /\ crashed = None
  /\ gc = "connected"
  /\ IF ~Usable
     THEN Abort("sendGetChatRoomsRequest")
     ELSE /\ \E k \in FailingWrite(1) :
               IF k = 0
               THEN UNCHANGED <<session, conns, timers>>
               ELSE NetworkError(conns, connection)
          /\ \/ roomlist = "unset" /\ crashed' = "purple_roomlist_unref" /\ UNCHANGED roomlist
             \/ roomlist' = "set" /\ UNCHANGED crashed
          /\ UNCHANGED <<registry, fetches, prompts, begun>>

\* The user answers a prompt, of which a session may have several.  An AddRequest
\* holds the session's address.
AnswerPrompt(p) ==
  /\ crashed = None
  /\ p \in prompts
  /\ \E call \in {"sendAcceptAddRequest", "sendDenyAddRequest"} :
       CASE p # sid -> Abort("AddRequest::conn is freed")
         [] p = sid /\ ~Usable -> Abort(call)
         [] OTHER -> \E k \in FailingWrite(1) :
                       /\ Sends(conns, <<call>>, k)
                       /\ prompts' \in {prompts, prompts \ {p}}
                       /\ UNCHANGED <<registry, fetches, perLogin>>

-----------------------------------------------------------------------------
(***************************************************************************)
(* Upcalls of a connection (the PurpleAsyncConnHandler interface).  Without *)
(* a handler the connection only closes itself.                            *)
(***************************************************************************)

\* connectionError and readError, of a connection that has closed itself.
Ends(c, upcall) ==
  CASE ~Handled(c) -> conns' = Closed(conns, c) /\ UNCHANGED <<session, timers, crashed>>
                      /\ UNCHANGED <<registry, pending>>
    [] Handled(c) /\ invalid -> Abort(upcall)
    [] OTHER -> /\ NetworkError(Closed(conns, c), connection)
                /\ UNCHANGED <<registry, pending, crashed>>

\* Fault: the connection closes without an upcall.
ConnectFailsUntold(c) ==
  /\ crashed = None /\ conns[c].phase = "attempt"
  /\ conns' = Closed(conns, c)
  /\ UNCHANGED <<session, timers, crashed, registry, pending>>

ConnectFails(c) ==
  crashed = None /\ conns[c].phase = "attempt" /\ Ends(c, "connectionError")

\* A read error, or an error of the writable callback.
SocketFails(c) ==
  crashed = None /\ conns[c].phase = "connected" /\ Ends(c, "readError")

\* gotConnected: the first packet of the mode goes out on `connection'.
GotConnected(c) ==
  /\ crashed = None
  /\ conns[c].phase = "attempt"
  /\ LET cs == [conns EXCEPT ![c].phase = "connected"] IN
     CASE ~Handled(c) -> conns' = cs /\ UNCHANGED <<session, timers, crashed>>
                         /\ UNCHANGED <<registry, pending>>
       [] Handled(c) /\ connection = None -> Abort("gotConnected")
       [] OTHER -> \E k \in FailingWrite(1) :
                     Sends(cs, <<"gotConnected">>, k) /\ UNCHANGED <<registry, pending>>

(***************************************************************************)
(* closeCallback: the server has closed c.  On a gatekeeper connection     *)
(* startLoginOver80 replaces `connection' (the old object is not deleted), *)
(* and control falls through to the error path, which asserts that the     *)
(* session is still valid and tears it down with the new connection.       *)
(***************************************************************************)
ServerCloses(c) ==
  /\ crashed = None
  /\ conns[c].phase = "connected"
  /\ LET cs     == Closed(conns, c)
         over80 == WithConn(cs, NewId(0), 2, sid) IN
     CASE ~Handled(c) \/ invalid -> Ends(c, "closeCallback")
       [] Handled(c) /\ ~invalid /\ conns[c].mode = 1 ->
            /\ nextId' = nextId + 1
            /\ NetworkError(over80, NewId(0))
            /\ crashed' \in {None} \cup
                 (IF "establishFails" \in Faults THEN {"closeCallback"} ELSE {})
            /\ UNCHANGED <<logins, pending>>
       [] OTHER -> /\ NetworkError(cs, connection)
                   /\ UNCHANGED <<registry, pending, crashed>>

-----------------------------------------------------------------------------
(***************************************************************************)
(* readCallback on a complete frame for a connection of mode m.  Frames of *)
(* one read are separate steps: between two of them the loop looks at      *)
(* `connection' again, and leaves after a gatekeeper frame.  Mode 2 has no *)
(* action: such a connection never gets as far as a read (GkCloseFallsBack).*)
(***************************************************************************)
Frame(c, m, parse) ==
  /\ crashed = None
  /\ conns[c].phase = "connected" /\ conns[c].mode = m
  /\ Handled(c)
  /\ IF connection = c /\ ~invalid THEN parse ELSE Abort("readCallback")

\* Fault: the new connection is not made the session's.
SwitchForgotten(c) ==
  /\ nextId' = nextId + 1
  /\ conns' = Deleted(WithConn(conns, NewId(0), 0, sid), c)
  /\ UNCHANGED <<connection, gc, dying, sid, invalid, loggedIn, timerSet>>
  /\ UNCHANGED <<timers, crashed, logins, pending>>

\* Fault: the gatekeeper connection is neither closed nor deleted.
SwitchLeavesGk(c) ==
  /\ nextId' = nextId + 1
  /\ conns' = WithConn(conns, NewId(0), 0, sid)
  /\ connection' = NewId(0)
  /\ UNCHANGED <<gc, dying, sid, invalid, loggedIn, timerSet, timers, crashed, logins, pending>>

\* parseGkResponse: the chat server connection replaces the gatekeeper's.
SwitchToCS(c) ==
  /\ nextId' = nextId + 1
  /\ conns' = Deleted(WithConn(conns, NewId(0), 0, sid), c)
  /\ connection' = NewId(0)
  /\ UNCHANGED <<gc, dying, sid, invalid, loggedIn, timerSet, timers, crashed, logins, pending>>

\* When the attempt cannot even start, the session is torn down and then
\* connection->close() goes through NULL.
SwitchFails(c) ==
  /\ "establishFails" \in Faults
  /\ nextId' = nextId + 1
  /\ NetworkError(conns, c)
  /\ crashed' = "parseGkResponse"
  /\ UNCHANGED <<logins, pending>>

\* An answer without a server list is a division by zero (rand() % 0); one that
\* is cut short is dropped, which changes nothing here.
GkReply(c) ==
  Frame(c, 1, \/ SwitchToCS(c)
              \/ SwitchFails(c)
              \/ "badReply" \in Faults /\ Abort("rand() % res.size()"))

\* get_avatar, for each contact of the roster.
FetchAvatars ==
  /\ fetches' = fetches \cup
       [owner : {sid}, buddy : Buddies, stage : {"key"}, login : {logins}]
  /\ begun' = Buddies

LoginCalls == <<"setStatus", "sendKeepAlive", "sendOfflineMessagesRequest", "sendGetAddRequest">>

\* parseCSLoginResponse: the account is connected, four requests go out, the
\* avatars of the roster are fetched and the keep-alive timer is armed, the
\* last two also when the last request has torn the session down.
LoginAccepted(c) ==
  ~loggedIn /\ Frame(c, 0, \E k \in FailingWrite(Len(LoginCalls)) :
    /\ loggedIn' = TRUE /\ gc' = "connected"
    /\ IF k = 0 THEN UNCHANGED <<dying, invalid, connection, conns>> ELSE TearDown(conns, c)
    /\ IF k \in 1..Len(LoginCalls) - 1
       THEN /\ crashed' = LoginCalls[k + 1]
            /\ StopTimer
            /\ UNCHANGED <<fetches, begun>>
       ELSE /\ ArmTimer
            /\ FetchAvatars
            /\ UNCHANGED crashed
    /\ UNCHANGED <<registry, sid, prompts, roomlist>>)

\* A non-zero error code.
LoginRefused(c) ==
  ~loggedIn /\ Frame(c, 0, /\ NetworkError(conns, c)
                           /\ UNCHANGED <<registry, pending, crashed>>)

\* Fault: the avatars of the roster are fetched as its entries are read.
AvatarsAsRead(c) ==
  /\ "badReply" \in Faults /\ ~loggedIn
  /\ Frame(c, 0, /\ loggedIn' = TRUE
                 /\ FetchAvatars
                 /\ UNCHANGED <<gc, dying, sid, invalid, connection, timerSet>>
                 /\ UNCHANGED <<conns, timers, crashed, registry, prompts, roomlist>>)

\* A reply with a wrong size fails an assertion; one that is cut short raises an
\* exception, before or after the account is shown as connected, and the
\* session never learns that its login did not finish.
LoginMalformed(c) ==
  /\ "badReply" \in Faults /\ ~loggedIn
  /\ Frame(c, 0, \/ Abort("parseCSLoginResponse")
                 \/ /\ loggedIn' = TRUE
                    /\ gc' \in {gc, "connected"}
                    /\ UNCHANGED <<dying, sid, invalid, connection, timerSet>>
                    /\ UNCHANGED <<conns, timers, crashed, registry, pending>>)

\* parseTextMessage: to show a message changes nothing, and to parse a well-formed one
\* may fail encode's assertion, or raise what nobody catches (see ChatMessage).
TextMessage(c) == Frame(c, 0, Abort("_parseChatMessage"))

\* parseOfflineMessages: each message is shown and deleted on the server, and any of
\* them may stop the process.  When a deletion tore the session down and the next message
\* overflows, readCallback's exception handler uses the buffer of the deleted connection.
OfflineMessages(c) ==
  Frame(c, 0,
    \/ \E n \in 1..2 : \E k \in FailingWrite(n) :
         /\ Sends(conns, [i \in 1..n |-> "deleteOfflineMessage"], k)
         /\ UNCHANGED <<registry, pending>>
    \/ Abort("_parseChatMessage")
    \/ /\ "writeFails" \in Faults
       /\ NetworkError(conns, c)
       /\ crashed' \in {"_parseChatMessage", "buffer.reset"}
       /\ UNCHANGED <<registry, pending>>)

\* A negative length in any frame is taken for all that is left and moves the offset
\* back, below 0 if it is large: the next substr raises out_of_range, which readCallback
\* does not catch.
NegativeLength(c) ==
  "badReply" \in Faults /\ \E m \in {0, 1} : Frame(c, m, Abort("substr"))

\* parseContactAddRequest and parseOfflineAddContactResponse.
AddRequest(c) ==
  Frame(c, 0, /\ prompts' = prompts \cup {sid}
              /\ UNCHANGED <<session, conns, timers, crashed, registry, fetches, perLogin>>)

\* The "Disconnect" command: logged in elsewhere.
LoggedInElsewhere(c) ==
  Frame(c, 0, NetworkError(conns, c) /\ UNCHANGED <<registry, pending, crashed>>)

-----------------------------------------------------------------------------
\* Fault: the timer goes on although its session is gone.
TimerGoesOn(t) == timers' = timers

\* keep_alive_timer returns false.
TimerEnds(t) == timers' = timers \ {t}

(***************************************************************************)
(* keep_alive_timer looks its id up: the timer of a deleted session ends,  *)
(* that of a live one sends.  The timer a torn-down session still armed    *)
(* is 30 seconds away and the disconnect is due at once (the guard).       *)
(***************************************************************************)
KeepAliveTimer(t) ==
  /\ crashed = None
  /\ t \in timers
  /\ t = sid => ~dying
  /\ IF t = sid
     THEN \/ ~Usable /\ Abort("sendKeepAlive")
          \/ Usable /\ \E k \in FailingWrite(1) : /\ Sends(conns, <<"sendKeepAlive">>, k)
                                                  /\ UNCHANGED <<registry, pending>>
     ELSE \/ t \in DOMAIN conns /\ Abort("keep_alive_timer")
          \/ /\ t \notin DOMAIN conns
             /\ TimerEnds(t)
             /\ UNCHANGED <<registry, session, conns, pending, crashed>>

\* Fault: a key leaves its download in a stage that has no callback.
KeyLost(f) ==
  /\ crashed = None
  /\ f \in fetches /\ f.stage = "key"
  /\ fetches' = (fetches \ {f}) \cup {[f EXCEPT !.stage = "none"]}
  /\ UNCHANGED <<registry, session, conns, timers, prompts, perLogin, crashed>>

\* load_avatar_key_callback does not look at the session: a key, even for a
\* session long gone, starts the download of the image.
KeyFetched(f) ==
  /\ crashed = None
  /\ f \in fetches /\ f.stage = "key"
  /\ fetches' \in { fetches \ {f}, (fetches \ {f}) \cup {[f EXCEPT !.stage = "image"]} }
  /\ UNCHANGED <<registry, session, conns, timers, prompts, perLogin, crashed>>

\* load_avatar_callback looks its id up and sets the icon of a valid session;
\* for any other it only frees its data.
ImageFetched(f) ==
  /\ crashed = None
  /\ f \in fetches /\ f.stage = "image"
  /\ IF f.owner \in DOMAIN conns
     THEN Abort("load_avatar_callback")
     ELSE /\ fetches' = fetches \ {f}
          /\ UNCHANGED <<registry, session, conns, timers, prompts, perLogin, crashed>>

-----------------------------------------------------------------------------
Connected(c) == GotConnected(c) \/ ConnectFails(c)
LoginReply(c) == LoginAccepted(c) \/ LoginRefused(c)

Next ==
  \/ Login \/ Logout \/ DisconnectTimeout
  \/ UiRequest \/ RoomsRequest
  \/ \E p \in prompts : AnswerPrompt(p)
  \/ \E c \in DOMAIN conns :
       \/ GotConnected(c) \/ ConnectFails(c)
       \/ SocketFails(c) \/ ServerCloses(c)
       \/ GkReply(c)
       \/ LoginAccepted(c) \/ LoginRefused(c) \/ LoginMalformed(c)
       \/ TextMessage(c) \/ OfflineMessages(c) \/ NegativeLength(c)
       \/ AddRequest(c) \/ LoggedInElsewhere(c)
  \/ \E t \in timers : KeepAliveTimer(t)
  \/ \E f \in fetches : KeyFetched(f) \/ ImageFetched(f)

Spec == Init /\ [][Next]_vars

\* Every login takes at most three ids, so ids stay below this.
MaxId == 3 * MaxLogins

(***************************************************************************)
(* The event loop runs the disconnect timeout and every timer that is due, *)
(* libpurple ends every connection attempt one way or the other, and the   *)
(* servers answer (the program has no timeout of its own for them).        *)
(***************************************************************************)
Fairness ==
  /\ WF_vars(DisconnectTimeout)
  /\ \A t \in 0..MaxId : WF_vars(KeepAliveTimer(t))
  /\ WF_vars(\E c \in DOMAIN conns : Connected(c))
  /\ WF_vars(\E c \in DOMAIN conns : GkReply(c))
  /\ WF_vars(\E c \in DOMAIN conns : LoginReply(c))

FairSpec == Spec /\ Fairness

-----------------------------------------------------------------------------
Phases == {"attempt", "connected", "closed"}
Conns  == [mode : {0, 1, 2}, phase : Phases, handler : Nat]
Fetches == [owner : Nat, buddy : Buddies, stage : {"key", "image"}, login : Nat]
Aborts == UiSends \cup
  { "sendGetChatRoomsRequest", "purple_roomlist_unref", "_parseChatMessage", "substr",
    "sendKeepAlive", "sendOfflineMessagesRequest", "sendGetAddRequest",
    "sendAcceptAddRequest", "sendDenyAddRequest", "AddRequest::conn is freed",
    "connectionError", "readError", "closeCallback", "gotConnected", "readCallback",
    "parseGkResponse", "rand() % res.size()", "parseCSLoginResponse",
    "deleteOfflineMessage", "buffer.reset", "keep_alive_timer", "load_avatar_callback" }

TypeOK ==
  /\ nextId \in Nat /\ logins \in Nat
  /\ gc \in {"offline", "connecting", "connected"}
  /\ dying \in BOOLEAN /\ invalid \in BOOLEAN
  /\ loggedIn \in BOOLEAN /\ timerSet \in BOOLEAN
  /\ sid \in Nat \cup {None}
  /\ connection \in Nat \cup {None}
  /\ DOMAIN conns \subseteq Nat /\ conns \in [DOMAIN conns -> Conns]
  /\ timers \subseteq Nat /\ prompts \subseteq Nat
  /\ fetches \subseteq Fetches
  /\ roomlist \in {"unset", "set"} /\ begun \subseteq Buddies
  /\ crashed \in Aborts \cup {None}

\* A valid session always owns a connection that exists and is not closed, and a
\* torn-down or deleted one owns none: no send of a valid session goes through a
\* dangling or closed connection.
ValidOwnsConnection ==
  IF sid # None /\ ~invalid
  THEN connection \in DOMAIN conns /\ conns[connection].phase # "closed"
  ELSE connection = None

\* Only the connection the session owns can still call back: everything it lost
\* track of (the gatekeeper connection left behind by closeCallback) is closed.
\* This is readCallback's assert (connection == conn) and the assert of
\* connectionError, readError and closeCallback that the session is valid.
OnlyOwnedCallsBack ==
  \A c \in DOMAIN conns :
    conns[c].phase # "closed" => c = connection /\ conns[c].handler = sid

\* The ids callbacks carry resolve to the session that handed them out or to
\* nothing: never to another session, never to a connection object (the callbacks
\* cast what they find to RediffBolConn).
IdsResolveToTheirSession ==
  /\ \A f \in fetches : /\ f.owner \notin DOMAIN conns
                        /\ f.owner = sid => f.login = logins
  /\ \A t \in timers : t \notin DOMAIN conns
  /\ \A c \in DOMAIN conns : conns[c].handler \notin DOMAIN conns

\* The address an authorization prompt holds is that of the live session.
PromptsDoNotDangle == prompts \subseteq {sid}

\* A session is torn down exactly when libpurple has been told to disconnect it:
\* never silently dead, never cut off while it works.
TornDownIsAnnounced == sid # None => (dying <=> invalid)

\* Replies of the servers that fail an assertion of their parser, or divide by zero.
MalformedAborts == {"rand() % res.size()", "parseCSLoginResponse"}

\* What stops the process on a healthy session is the parser of a malformed reply, the
\* parser of a message, or the first request for the chat rooms, which gives up a list
\* there never was.  In everything else a valid session does, whatever fails on the way,
\* no assertion that it is valid fails, nothing goes through a NULL or freed pointer, and
\* no id resolves to an object of another type: these need a session torn down first.
StopsOfHealthySessions ==
  crashed # None =>
    \/ invalid
    \/ "badReply" \in Faults /\ crashed \in MalformedAborts \cup {"substr"}
    \/ crashed = "_parseChatMessage"
    \/ crashed = "purple_roomlist_unref" /\ roomlist = "unset"

\* An account shown as connected is kept alive: its session has its timer armed
\* under its own id, and the handle to stop it.
ConnectedIsKeptAlive ==
  gc = "connected" /\ ~invalid => loggedIn /\ timerSet /\ sid \in timers

\* A login takes effect as a whole: a session that is logged in has its timer, and has
\* begun to fetch the avatar of every buddy of the roster.  A reply that is cut short
\* raises an exception after connection_state was set, no other reply is taken for the
\* login's, and the session stays as it is; but then nothing of what follows a login has
\* begun: no timer, and no download.
LoginAllOrNothing ==
  sid # None /\ loggedIn /\ ~invalid =>
    \/ gc = "connected" /\ timerSet /\ sid \in timers /\ begun = Buddies
    \/ "badReply" \in Faults /\ ~timerSet /\ sid \notin timers /\ begun = {}

\* A torn-down session is closed by libpurple (or the process has stopped).
TornDownIsClosed == (sid # None /\ invalid) ~> (sid = None \/ crashed # None)

\* A login is decided: the account ends up connected or offline.
LoginResolves == (gc = "connecting") ~> (gc # "connecting" \/ crashed # None)

\* A timer that outlives its session does not fire for ever.
StaleTimersExpire ==
  \A t \in 0..MaxId : (t \in timers /\ t # sid) ~> (t \notin timers \/ crashed # None)

-----------------------------------------------------------------------------
(***************************************************************************)
(* What comments and assertions of the program say, and the code does not. *)
(***************************************************************************)

\* closeCallback: "hmm, let's go into HTTP GK mode".  When the server closes the
\* gatekeeper connection the session goes on over port 80.
GkCloseFallsBack ==
  [][\A c \in DOMAIN conns :
       conns[c].mode = 1 /\ ServerCloses(c) => ~invalid' /\ connection' # None]_vars

\* sendMessage: assert(!isInvalid()).  A message is only ever sent on a valid
\* session.
MessagesNeedValidSession == crashed # "sendMessage"

\* CHANGELOG 0.3.1: "Makes robust against rare case of badly formed response from
\* Rediff".  No reply of a server stops the process.
BadRepliesSurvived == crashed \notin MalformedAborts

\* Calls through a pointer that is NULL, freed or never set, or to another type.
BadPointers ==
  { "parseGkResponse", "gotConnected", "sendGetChatRoomsRequest", "buffer.reset",
    "AddRequest::conn is freed", "keep_alive_timer", "load_avatar_callback",
    "purple_roomlist_unref" }

\* CHANGELOG 0.3.2: "Fix Segmentation Fault when a login error is encountered".  A login
\* that fails, here because no attempt to reach the chat server can start, is not a
\* segmentation fault.
LoginErrorsSurvived == gc = "connecting" => crashed \notin BadPointers
=============================================================================
