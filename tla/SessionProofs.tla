---------------------------- MODULE SessionProofs ----------------------------
(***************************************************************************)
(* Proofs about Session for every number of logins, every roster and every *)
(* set of faults.                                                          *)
(***************************************************************************)
EXTENDS Session, SequenceTheorems, TLAPS

\* Ids are handed out in increasing order: every id in use is below id_counter,
\* so that the next object's id is held by no outstanding callback.
IdsAllocated ==
  /\ sid # None => sid < nextId /\ sid \notin DOMAIN conns
  /\ \A c \in DOMAIN conns : c < nextId /\ conns[c].handler < nextId
  /\ \A t \in timers : t < nextId
  /\ \A f \in fetches : f.owner < nextId

\* No session object: libpurple shows the account offline and nothing is left
\* over from the last session but what its callbacks look up by id.
OfflineIsClean ==
  /\ gc = "offline" <=> sid = None
  /\ sid = None => ~invalid /\ ~dying /\ ~timerSet

\* The inductive invariant.
IInv ==
  /\ TypeOK
  /\ ValidOwnsConnection
  /\ OnlyOwnedCallsBack
  /\ IdsAllocated
  /\ IdsResolveToTheirSession
  /\ PromptsDoNotDangle
  /\ OfflineIsClean
  /\ TornDownIsAnnounced
  /\ StopsOfHealthySessions

LEMMA InitIInv == Init => IInv
<1> SUFFICES ASSUME Init PROVE IInv
  OBVIOUS
<1>1. DOMAIN conns = {} /\ conns \in [DOMAIN conns -> Conns]
  BY DEF Init
<1>2. TypeOK
  BY <1>1 DEF Init, TypeOK
<1>3. ValidOwnsConnection /\ OnlyOwnedCallsBack
  BY <1>1 DEF Init, ValidOwnsConnection, OnlyOwnedCallsBack
<1>4. IdsAllocated /\ IdsResolveToTheirSession /\ PromptsDoNotDangle
  BY <1>1 DEF Init, IdsAllocated, IdsResolveToTheirSession, PromptsDoNotDangle
<1>5. OfflineIsClean /\ TornDownIsAnnounced /\ StopsOfHealthySessions
  BY DEF Init, OfflineIsClean, TornDownIsAnnounced, StopsOfHealthySessions
<1>6. QED
  BY <1>2, <1>3, <1>4, <1>5 DEF IInv

\* Every way to tear a valid session down: whatever connections remain are closed
\* and still the old ones, whatever is armed carries the session's id.
LEMMA TornDown ==
  ASSUME IInv, sid # None, ~invalid,
         invalid' = TRUE, dying' = TRUE, connection' = None, sid' = sid,
         gc' \in {"connecting", "connected"},
         loggedIn' \in BOOLEAN, timerSet' \in BOOLEAN,
         nextId' \in Nat, nextId <= nextId', logins' = logins,
         DOMAIN conns' \subseteq DOMAIN conns,
         conns' \in [DOMAIN conns' -> Conns],
         \A x \in DOMAIN conns' : /\ conns'[x].phase = "closed"
                                  /\ conns'[x].handler = conns[x].handler,
         timers' \subseteq timers \cup {sid},
         prompts' \subseteq prompts,
         fetches' \subseteq fetches \cup
           [owner : {sid}, buddy : Buddies, stage : {"key"}, login : {logins}],
         roomlist' \in {"unset", "set"}, begun' \subseteq Buddies,
         crashed' \in Aborts \cup {None}
  PROVE  IInv'
<1>1. /\ TypeOK /\ IdsAllocated /\ IdsResolveToTheirSession /\ PromptsDoNotDangle
      /\ sid \in Nat /\ sid \notin DOMAIN conns /\ sid < nextId
  BY DEF IInv, TypeOK, IdsAllocated
<1>2. \A f \in fetches' : \/ f \in fetches
                          \/ f \in Fetches /\ f.owner = sid /\ f.login = logins
  BY <1>1 DEF TypeOK, Fetches
<1>3. TypeOK'
  <2>1. fetches' \subseteq Fetches
    BY <1>1, <1>2 DEF TypeOK
  <2>2. QED
    BY <1>1, <2>1 DEF TypeOK
<1>4. ValidOwnsConnection' /\ OnlyOwnedCallsBack'
  BY DEF ValidOwnsConnection, OnlyOwnedCallsBack
<1>5. IdsAllocated'
  <2>1. \A c \in DOMAIN conns' : c < nextId' /\ conns'[c].handler < nextId'
    BY <1>1 DEF IdsAllocated, TypeOK, Conns
  <2>2. \A t \in timers' : t < nextId'
    BY <1>1 DEF IdsAllocated, TypeOK
  <2>3. \A f \in fetches' : f.owner < nextId'
    BY <1>1, <1>2 DEF IdsAllocated, TypeOK, Fetches
  <2>4. sid' < nextId' /\ sid' \notin DOMAIN conns'
    BY <1>1 DEF TypeOK
  <2>5. QED
    BY <2>1, <2>2, <2>3, <2>4 DEF IdsAllocated
<1>6. IdsResolveToTheirSession'
  <2>1. \A f \in fetches' : f.owner \notin DOMAIN conns' /\ (f.owner = sid' => f.login = logins')
    BY <1>1, <1>2 DEF IdsResolveToTheirSession
  <2>2. \A t \in timers' : t \notin DOMAIN conns'
    BY <1>1 DEF IdsResolveToTheirSession
  <2>3. \A c \in DOMAIN conns' : conns'[c].handler \notin DOMAIN conns'
    BY <1>1 DEF IdsResolveToTheirSession
  <2>4. QED
    BY <2>1, <2>2, <2>3 DEF IdsResolveToTheirSession
<1>7. PromptsDoNotDangle' /\ OfflineIsClean' /\ TornDownIsAnnounced' /\ StopsOfHealthySessions'
  BY <1>1 DEF PromptsDoNotDangle, OfflineIsClean, TornDownIsAnnounced, StopsOfHealthySessions
<1>8. QED
  BY <1>3, <1>4, <1>5, <1>6, <1>7 DEF IInv

\* A connection that can still call back is the session's own, and the session
\* is valid: no upcall of a live connection finds a torn-down session.
LEMMA LiveConnIsOwned ==
  ASSUME IInv, NEW c \in DOMAIN conns, conns[c].phase # "closed"
  PROVE  /\ c = connection /\ conns[c].handler = sid /\ Handled(c)
         /\ sid # None /\ ~invalid /\ Usable
<1>1. c \in Nat /\ c = connection /\ conns[c].handler = sid
  BY DEF IInv, TypeOK, OnlyOwnedCallsBack
<1>2. connection # None
  BY <1>1, ConstantsAssumption
<1>3. QED
  BY <1>1, <1>2 DEF IInv, ValidOwnsConnection, Handled, Usable

\* What NetworkError leaves of the connections, whatever has happened to the
\* session's own in the meantime.
LEMMA OthersAreClosed ==
  ASSUME IInv, sid # None, ~invalid, NEW cs, NEW con,
         \A x \in (DOMAIN cs) \ {con} : x \in DOMAIN conns /\ (cs[x] = conns[x] \/
              (cs[x] \in Conns /\ cs[x].phase = "closed" /\ cs[x].handler = conns[x].handler)),
         \A x \in (DOMAIN cs) \ {con} : x = connection => cs[x].phase = "closed",
         conns' = Deleted(cs, con)
  PROVE  /\ DOMAIN conns' \subseteq DOMAIN conns
         /\ conns' \in [DOMAIN conns' -> Conns]
         /\ \A x \in DOMAIN conns' : /\ conns'[x].phase = "closed"
                                     /\ conns'[x].handler = conns[x].handler
<1>1. /\ DOMAIN conns' = (DOMAIN cs) \ {con}
      /\ conns' = [x \in (DOMAIN cs) \ {con} |-> cs[x]]
  BY DEF Deleted, Restrict
<1>2. \A x \in DOMAIN conns' : conns'[x] = cs[x] /\ x \in DOMAIN conns
  BY <1>1
<1>3. \A x \in DOMAIN conns : conns[x] \in Conns
  BY DEF IInv, TypeOK
<1>4. \A x \in DOMAIN conns' : conns'[x] \in Conns
  BY <1>2, <1>3, <1>1
<1>5. \A x \in DOMAIN conns' : conns'[x].phase = "closed"
  BY <1>1, <1>2 DEF IInv, OnlyOwnedCallsBack
<1>6. QED
  BY <1>1, <1>2, <1>4, <1>5

\* NetworkError in the middle of a handler, with whatever the handler has done to
\* the session's own connection.
LEMMA NetworkErrorIInv ==
  ASSUME IInv, sid # None, ~invalid, NEW cs,
         DOMAIN cs = DOMAIN conns,
         \A x \in DOMAIN conns : x # connection => cs[x] = conns[x],
         NetworkError(cs, connection),
         UNCHANGED <<registry, fetches, begun>>, prompts' \subseteq prompts,
         roomlist' \in {"unset", "set"}, crashed' \in Aborts \cup {None}
  PROVE  IInv'
<1>1. conns' = Deleted(cs, connection)
  BY DEF NetworkError, TearDown
<1>2. /\ DOMAIN conns' \subseteq DOMAIN conns
      /\ conns' \in [DOMAIN conns' -> Conns]
      /\ \A x \in DOMAIN conns' : /\ conns'[x].phase = "closed"
                                  /\ conns'[x].handler = conns[x].handler
  <2>1. \A x \in (DOMAIN cs) \ {connection} : x \in DOMAIN conns /\ cs[x] = conns[x]
    OBVIOUS
  <2>2. QED
    BY <1>1, <2>1, OthersAreClosed
<1>3. /\ invalid' = TRUE /\ dying' = TRUE /\ connection' = None /\ sid' = sid
      /\ gc' = gc /\ loggedIn' = loggedIn /\ timerSet' = FALSE
      /\ timers' \subseteq timers \cup {sid}
      /\ nextId' = nextId /\ logins' = logins /\ fetches' = fetches /\ begun' = begun
  BY DEF NetworkError, TearDown, StopTimer, registry
<1>4. /\ gc \in {"connecting", "connected"} /\ loggedIn \in BOOLEAN /\ nextId \in Nat
      /\ begun \subseteq Buddies
  BY DEF IInv, TypeOK, OfflineIsClean
<1>5. nextId' \in Nat /\ nextId <= nextId'
  BY <1>3, <1>4
<1>6. QED
  BY <1>2, <1>3, <1>4, <1>5, TornDown

\* A step that leaves every connection its owner and its phase (up to the session's
\* own getting connected) and disturbs nothing else.
LEMMA OwnConnMoves ==
  ASSUME IInv, Usable, crashed = None, NEW cs,
         DOMAIN cs = DOMAIN conns, cs \in [DOMAIN conns -> Conns],
         \A x \in DOMAIN conns : x # connection => cs[x] = conns[x],
         cs[connection].phase # "closed", cs[connection].handler = conns[connection].handler,
         conns' = cs, UNCHANGED <<session, timers, crashed, registry, fetches, begun>>,
         roomlist' \in {"unset", "set"}, prompts' \subseteq prompts \cup {sid}, sid # None
  PROVE  IInv'
<1>1. /\ gc' = gc /\ dying' = dying /\ sid' = sid /\ invalid' = invalid
      /\ connection' = connection /\ loggedIn' = loggedIn /\ timerSet' = timerSet
      /\ timers' = timers /\ crashed' = crashed /\ nextId' = nextId /\ logins' = logins
      /\ fetches' = fetches /\ begun' = begun
  BY DEF session, registry
<1>2. \A x \in DOMAIN conns : cs[x].handler = conns[x].handler
  OBVIOUS
<1>3. TypeOK'
  BY <1>1 DEF IInv, TypeOK
<1>4. ValidOwnsConnection' /\ OnlyOwnedCallsBack'
  BY <1>1, <1>2 DEF IInv, ValidOwnsConnection, OnlyOwnedCallsBack, Usable
<1>5. IdsAllocated' /\ IdsResolveToTheirSession'
  BY <1>1, <1>2 DEF IInv, IdsAllocated, IdsResolveToTheirSession
<1>6. PromptsDoNotDangle'
  BY <1>1 DEF IInv, PromptsDoNotDangle
<1>7. OfflineIsClean' /\ TornDownIsAnnounced' /\ StopsOfHealthySessions'
  BY <1>1 DEF IInv, OfflineIsClean, TornDownIsAnnounced, StopsOfHealthySessions
<1>8. QED
  BY <1>3, <1>4, <1>5, <1>6, <1>7 DEF IInv

\* A usable session is a session.
LEMMA UsableExists ==
  ASSUME IInv, Usable
  PROVE  sid # None /\ ~invalid /\ connection \in DOMAIN conns
         /\ conns[connection].phase # "closed"
BY DEF IInv, ValidOwnsConnection, Usable

\* A row of writes of which the k-th fails, or none.
LEMMA SendsIInv ==
  ASSUME IInv, Usable, crashed = None, NEW cs, NEW calls \in Seq(Aborts),
         NEW k \in 0..Len(calls), Sends(cs, calls, k),
         DOMAIN cs = DOMAIN conns, cs \in [DOMAIN conns -> Conns],
         \A x \in DOMAIN conns : x # connection => cs[x] = conns[x],
         cs[connection].phase # "closed", cs[connection].handler = conns[connection].handler,
         UNCHANGED <<registry, fetches, perLogin>>, prompts' \subseteq prompts
  PROVE  IInv'
<1>1. /\ sid # None /\ ~invalid
      /\ roomlist' \in {"unset", "set"} /\ begun' = begun
  BY UsableExists DEF perLogin, IInv, TypeOK
<1>2. CASE k = 0
  BY <1>1, <1>2, OwnConnMoves DEF Sends, registry
<1>3. CASE k # 0
  <2>1. k < Len(calls) => k + 1 \in 1..Len(calls)
    OBVIOUS
  <2>2. k < Len(calls) => calls[k + 1] \in Aborts
    BY <2>1
  <2>3. crashed' \in Aborts \cup {None} /\ NetworkError(cs, connection)
    BY <1>3, <2>2 DEF Sends
  <2>4. QED
    BY <1>1, <2>3, NetworkErrorIInv
<1>4. QED
  BY <1>2, <1>3

\* Short sequences of calls are sequences.
LEMMA ShortSeqs ==
  ASSUME NEW S, NEW a \in S, NEW b \in S, NEW c \in S, NEW d \in S
  PROVE  /\ <<a>> \in Seq(S) /\ Len(<<a>>) = 1 /\ Head(<<a>>) = a
         /\ <<a, b>> \in Seq(S) /\ Len(<<a, b>>) = 2 /\ Head(<<a, b>>) = a
         /\ <<a, b, c, d>> \in Seq(S) /\ Len(<<a, b, c, d>>) = 4
OBVIOUS

\* Every call an entry point or the login makes is a call that can abort.
LEMMA CallsAreAborts ==
  /\ \A calls \in UiCalls : calls \in Seq(Aborts) /\ Len(calls) \in Nat /\ Head(calls) \in Aborts
  /\ LoginCalls \in Seq(Aborts) /\ Len(LoginCalls) = 4
<1>1. ASSUME NEW calls \in UiCalls
      PROVE  calls \in Seq(Aborts) /\ Len(calls) \in Nat /\ Head(calls) \in Aborts
  <2>1. CASE \E a \in UiSends : calls = <<a>>
    <3>1. PICK a \in UiSends : calls = <<a>>
      BY <2>1
    <3>2. a \in Aborts
      BY DEF Aborts
    <3>3. QED
      BY <3>1, <3>2, ShortSeqs
  <2>2. CASE \E a \in UiSends : calls = <<"sendAddRemoveGroupRequest", a>>
    <3>1. "sendAddRemoveGroupRequest" \in Aborts /\ UiSends \subseteq Aborts
      BY DEF Aborts, UiSends
    <3>2. QED
      BY <2>2, <3>1, ShortSeqs
  <2>3. {"sendAddContactRequest", "sendChangeBuddyGroupRequest"} \subseteq UiSends
    BY DEF UiSends
  <2>4. QED
    BY <2>1, <2>2, <2>3 DEF UiCalls
<1>2. LoginCalls \in Seq(Aborts) /\ Len(LoginCalls) = 4
  <2>1. {"setStatus", "sendKeepAlive", "sendOfflineMessagesRequest", "sendGetAddRequest"}
          \subseteq Aborts
    BY DEF Aborts, UiSends
  <2>2. QED
    BY <2>1, ShortSeqs DEF LoginCalls
<1>3. QED
  BY <1>1, <1>2

\* A failed write is one of those that were made.
LEMMA FailingWriteRange ==
  ASSUME NEW n \in Nat, NEW k \in FailingWrite(n)
  PROVE  k \in 0..n
BY DEF FailingWrite

\* The process stops in a torn-down session, or in a reply that is malformed.
LEMMA AbortIInv ==
  ASSUME IInv, NEW call \in Aborts, Abort(call),
         \/ invalid
         \/ "badReply" \in Faults /\ call \in MalformedAborts \cup {"substr"}
         \/ call = "_parseChatMessage"
  PROVE  IInv'
<1> USE DEF Abort
<1>1. TypeOK'
  BY DEF IInv, TypeOK
<1>2. ValidOwnsConnection' /\ OnlyOwnedCallsBack'
  BY DEF IInv, ValidOwnsConnection, OnlyOwnedCallsBack
<1>3. IdsAllocated' /\ IdsResolveToTheirSession' /\ PromptsDoNotDangle'
  BY DEF IInv, IdsAllocated, IdsResolveToTheirSession, PromptsDoNotDangle
<1>4. OfflineIsClean' /\ TornDownIsAnnounced'
  BY DEF IInv, OfflineIsClean, TornDownIsAnnounced
<1>5. StopsOfHealthySessions'
  BY DEF IInv, StopsOfHealthySessions
<1>6. QED
  BY <1>1, <1>2, <1>3, <1>4, <1>5 DEF IInv

\* A session that cannot send is torn down, if there is one.
LEMMA UnusableIsInvalid ==
  ASSUME IInv, sid # None, ~Usable
  PROVE  invalid
BY ConstantsAssumption DEF IInv, TypeOK, ValidOwnsConnection, Usable

\* The step leaves only smaller sets of what is outstanding.
LEMMA LessOutstanding ==
  ASSUME IInv, crashed = None,
         UNCHANGED <<registry, session, conns, prompts, perLogin, crashed>>,
         timers' \subseteq timers,
         fetches' \subseteq Fetches,
         \A f \in fetches' : \E g \in fetches : f.owner = g.owner /\ f.login = g.login
  PROVE  IInv'
<1>1. /\ gc' = gc /\ dying' = dying /\ sid' = sid /\ invalid' = invalid
      /\ connection' = connection /\ loggedIn' = loggedIn /\ timerSet' = timerSet
      /\ crashed' = crashed /\ nextId' = nextId /\ logins' = logins /\ conns' = conns
      /\ prompts' = prompts /\ roomlist' = roomlist /\ begun' = begun
  BY DEF session, registry, perLogin
<1>2. TypeOK'
  BY <1>1 DEF IInv, TypeOK
<1>3. ValidOwnsConnection' /\ OnlyOwnedCallsBack'
  BY <1>1 DEF IInv, ValidOwnsConnection, OnlyOwnedCallsBack
<1>4. IdsAllocated' /\ IdsResolveToTheirSession'
  BY <1>1 DEF IInv, IdsAllocated, IdsResolveToTheirSession
<1>5. PromptsDoNotDangle' /\ OfflineIsClean' /\ TornDownIsAnnounced' /\ StopsOfHealthySessions'
  BY <1>1 DEF IInv, PromptsDoNotDangle, OfflineIsClean, TornDownIsAnnounced,
              StopsOfHealthySessions
<1>6. QED
  BY <1>2, <1>3, <1>4, <1>5 DEF IInv

-----------------------------------------------------------------------------
\* One lemma for each action (or group of actions that share their argument).

\* Every connection an offline account still has is closed, and the ids of the new
\* session and its connection are held by nothing.
LEMMA LoginIInv ==
  ASSUME IInv, Login
  PROVE  IInv'
<1>1. /\ sid = None /\ ~invalid /\ connection = None /\ nextId \in Nat
      /\ gc = "offline" /\ crashed = None
  BY DEF Login, IInv, TypeOK, OfflineIsClean, ValidOwnsConnection
<1>2. DOMAIN conns \subseteq Nat /\ \A x \in DOMAIN conns :
        /\ conns[x] \in Conns /\ conns[x].phase = "closed"
        /\ x < nextId /\ conns[x].handler < nextId /\ conns[x].handler \in Nat
  BY <1>1, ConstantsAssumption DEF IInv, TypeOK, IdsAllocated, OnlyOwnedCallsBack, Conns
<1>3. prompts = {}
  BY <1>1, ConstantsAssumption DEF IInv, TypeOK, PromptsDoNotDangle
<1>4. /\ nextId' = nextId + 2 /\ sid' = nextId /\ loggedIn' = FALSE /\ timerSet' = FALSE
      /\ gc' = "connecting" /\ logins' = logins + 1
      /\ timers' = timers /\ fetches' = fetches /\ prompts' = prompts /\ crashed' = crashed
      /\ roomlist' = "unset" /\ begun' = {} /\ sid' # None
  BY <1>1, ConstantsAssumption DEF Login, NewId
<1>8. /\ nextId' \in Nat /\ logins' \in Nat /\ sid' \in Nat
      /\ gc' \in {"offline", "connecting", "connected"}
      /\ loggedIn' \in BOOLEAN /\ timerSet' \in BOOLEAN
      /\ timers' \subseteq Nat /\ prompts' \subseteq Nat /\ fetches' \subseteq Fetches
      /\ roomlist' \in {"unset", "set"} /\ begun' \subseteq Buddies
      /\ crashed' \in Aborts \cup {None}
  <2>1. logins \in Nat /\ nextId \in Nat
    BY DEF IInv, TypeOK
  <2>2. logins + 1 \in Nat /\ nextId + 2 \in Nat
    BY <2>1
  <2>3. QED
    BY <1>1, <1>4, <2>2 DEF IInv, TypeOK
<1> DEFINE new == [mode |-> 1, phase |-> "attempt", handler |-> nextId]
<1>5. CASE /\ conns' = WithConn(conns, NewId(1), 1, NewId(0))
           /\ connection' = NewId(1)
           /\ invalid' = FALSE /\ dying' = FALSE
  <2>1. /\ DOMAIN conns' = DOMAIN conns \cup {nextId + 1}
        /\ conns'[nextId + 1] = new
        /\ \A x \in DOMAIN conns : conns'[x] = conns[x]
        /\ conns' = [x \in DOMAIN conns' |-> conns'[x]]
    BY <1>1, <1>2, <1>5 DEF WithConn, NewId
  <2>2. new \in Conns
    BY <1>1 DEF Conns, Phases
  <2>3. conns' \in [DOMAIN conns' -> Conns] /\ DOMAIN conns' \subseteq Nat
    BY <1>1, <1>2, <2>1, <2>2
  <2>4. TypeOK'
    <3>1. connection' \in Nat
      BY <1>1, <1>5 DEF NewId
    <3>2. QED
      BY <1>5, <1>8, <2>3, <3>1 DEF TypeOK
  <2>5. ValidOwnsConnection' /\ OnlyOwnedCallsBack'
    BY <1>1, <1>2, <1>4, <1>5, <2>1 DEF ValidOwnsConnection, OnlyOwnedCallsBack, NewId
  <2>6. IdsAllocated' /\ IdsResolveToTheirSession'
    <3>1. nextId \notin DOMAIN conns' /\ nextId + 1 \notin DOMAIN conns /\ nextId < nextId + 2
      BY <1>1, <1>2, <2>1
    <3>2. \A c \in DOMAIN conns' : /\ c < nextId' /\ conns'[c].handler < nextId'
                                   /\ conns'[c].handler \notin DOMAIN conns'
      <4>1. ASSUME NEW c \in DOMAIN conns
            PROVE  /\ c < nextId + 2 /\ conns[c].handler < nextId + 2
                   /\ conns[c].handler \notin DOMAIN conns
                   /\ conns[c].handler # nextId + 1
        BY <1>1, <1>2 DEF IInv, IdsResolveToTheirSession
      <4>2. QED
        BY <1>1, <1>4, <2>1, <3>1, <4>1
    <3>3. \A t \in timers : t < nextId + 2 /\ t # nextId + 1 /\ t \notin DOMAIN conns
      BY <1>1 DEF IInv, TypeOK, IdsAllocated, IdsResolveToTheirSession
    <3>4. \A f \in fetches : /\ f.owner < nextId + 2 /\ f.owner # nextId + 1
                             /\ f.owner # nextId /\ f.owner \notin DOMAIN conns
      BY <1>1 DEF IInv, TypeOK, Fetches, IdsAllocated, IdsResolveToTheirSession
    <3>5. QED
      BY <1>4, <2>1, <3>1, <3>2, <3>3, <3>4 DEF IdsAllocated, IdsResolveToTheirSession
  <2>7. PromptsDoNotDangle' /\ OfflineIsClean' /\ TornDownIsAnnounced' /\ StopsOfHealthySessions'
    BY <1>1, <1>3, <1>4, <1>5 DEF PromptsDoNotDangle, OfflineIsClean, TornDownIsAnnounced,
                                  StopsOfHealthySessions
  <2>8. QED
    BY <2>4, <2>5, <2>6, <2>7 DEF IInv
<1>6. CASE connection' = None /\ invalid' = TRUE /\ dying' = TRUE /\ UNCHANGED conns
  <2>1. TypeOK'
    BY <1>6, <1>8 DEF IInv, TypeOK
  <2>2. ValidOwnsConnection' /\ OnlyOwnedCallsBack'
    BY <1>2, <1>6 DEF ValidOwnsConnection, OnlyOwnedCallsBack
  <2>3. IdsAllocated' /\ IdsResolveToTheirSession'
    <3>1. nextId \notin DOMAIN conns' /\ nextId < nextId + 2
      BY <1>1, <1>2, <1>6
    <3>2. \A c \in DOMAIN conns' : /\ c < nextId' /\ conns'[c].handler < nextId'
                                   /\ conns'[c].handler \notin DOMAIN conns'
      BY <1>1, <1>2, <1>4, <1>6 DEF IInv, IdsResolveToTheirSession
    <3>3. \A t \in timers : t < nextId + 2 /\ t \notin DOMAIN conns
      BY <1>1 DEF IInv, TypeOK, IdsAllocated, IdsResolveToTheirSession
    <3>4. \A f \in fetches : /\ f.owner < nextId + 2
                             /\ f.owner # nextId /\ f.owner \notin DOMAIN conns
      BY <1>1 DEF IInv, TypeOK, Fetches, IdsAllocated, IdsResolveToTheirSession
    <3>5. QED
      BY <1>4, <1>6, <3>1, <3>2, <3>3, <3>4 DEF IdsAllocated, IdsResolveToTheirSession
  <2>4. PromptsDoNotDangle' /\ OfflineIsClean' /\ TornDownIsAnnounced' /\ StopsOfHealthySessions'
    BY <1>1, <1>3, <1>4, <1>6 DEF PromptsDoNotDangle, OfflineIsClean, TornDownIsAnnounced,
                                  StopsOfHealthySessions
  <2>5. QED
    BY <2>1, <2>2, <2>3, <2>4 DEF IInv
<1>7. QED
  BY <1>5, <1>6 DEF Login

\* What is left when the session object goes is closed, and finds nothing by its id.
LEMMA DisconnectIInv ==
  ASSUME IInv, Disconnect, crashed = None
  PROVE  IInv'
<1>1. /\ gc' = "offline" /\ dying' = FALSE /\ sid' = None /\ invalid' = FALSE
      /\ connection' = None /\ loggedIn' = FALSE /\ timerSet' = FALSE
      /\ prompts' = {} /\ fetches' = fetches /\ crashed' = None
      /\ nextId' = nextId /\ logins' = logins
      /\ timers' \subseteq timers /\ roomlist' = "unset" /\ begun' = {}
  BY DEF Disconnect, PromptsClosed, registry
<1>2. /\ DOMAIN conns' \subseteq DOMAIN conns
      /\ conns' \in [DOMAIN conns' -> Conns]
      /\ \A x \in DOMAIN conns' : conns'[x].phase = "closed" /\ conns'[x] = conns[x]
  <2>1. CASE invalid
    <3>1. conns' = conns /\ connection = None
      BY <2>1 DEF Disconnect, IInv, ValidOwnsConnection
    <3>2. \A x \in DOMAIN conns : x # None
      BY ConstantsAssumption DEF IInv, TypeOK
    <3>3. QED
      BY <3>1, <3>2 DEF IInv, TypeOK, OnlyOwnedCallsBack
  <2>2. CASE ~invalid
    <3>1. /\ DOMAIN conns' = DOMAIN conns \ {connection}
          /\ conns' = [x \in DOMAIN conns \ {connection} |-> conns[x]]
      BY <2>2 DEF Disconnect, Deleted, Restrict
    <3>2. \A x \in DOMAIN conns \ {connection} : conns[x].phase = "closed"
      BY DEF IInv, OnlyOwnedCallsBack
    <3>3. QED
      BY <3>1, <3>2 DEF IInv, TypeOK
  <2>3. QED
    BY <2>1, <2>2 DEF IInv, TypeOK
<1>3. TypeOK'
  BY <1>1, <1>2 DEF IInv, TypeOK
<1>4. ValidOwnsConnection' /\ OnlyOwnedCallsBack'
  BY <1>1, <1>2 DEF ValidOwnsConnection, OnlyOwnedCallsBack
<1>5. IdsAllocated'
  BY <1>1, <1>2 DEF IInv, IdsAllocated
<1>6. IdsResolveToTheirSession'
  <2>1. \A f \in fetches : f.owner # None
    BY ConstantsAssumption DEF IInv, TypeOK, Fetches
  <2>2. QED
    BY <1>1, <1>2, <2>1 DEF IInv, IdsResolveToTheirSession
<1>7. PromptsDoNotDangle' /\ OfflineIsClean' /\ TornDownIsAnnounced' /\ StopsOfHealthySessions'
  BY <1>1 DEF PromptsDoNotDangle, OfflineIsClean, TornDownIsAnnounced, StopsOfHealthySessions
<1>8. QED
  BY <1>3, <1>4, <1>5, <1>6, <1>7 DEF IInv

\* A handler that only sends, on the connections as they are.
LEMMA SendsNow ==
  ASSUME IInv, Usable, crashed = None, NEW calls \in Seq(Aborts), NEW n \in Nat,
         n = Len(calls), NEW k \in FailingWrite(n), Sends(conns, calls, k),
         UNCHANGED <<registry, fetches, perLogin>>, prompts' \subseteq prompts
  PROVE  IInv'
<1>1. k \in 0..Len(calls)
  BY FailingWriteRange
<1>2. conns \in [DOMAIN conns -> Conns] /\ conns[connection].phase # "closed"
  BY UsableExists DEF IInv, TypeOK
<1>3. QED
  BY <1>1, <1>2, SendsIInv

LEMMA UiRequestIInv ==
  ASSUME IInv, UiRequest
  PROVE  IInv'
<1>1. /\ sid # None /\ crashed = None
  BY DEF UiRequest, IInv, OfflineIsClean
<1>2. PICK calls \in UiCalls :
        IF ~Usable
        THEN Abort(Head(calls))
        ELSE \E k \in FailingWrite(Len(calls)) :
               Sends(conns, calls, k) /\ UNCHANGED <<registry, pending>>
  BY DEF UiRequest
<1>3. calls \in Seq(Aborts) /\ Len(calls) \in Nat /\ Head(calls) \in Aborts
  BY CallsAreAborts
<1>4. CASE ~Usable
  <2>1. invalid /\ Abort(Head(calls))
    BY <1>1, <1>2, <1>4, UnusableIsInvalid
  <2>2. QED
    BY <1>3, <2>1, AbortIInv
<1>5. CASE Usable
  <2>1. PICK k \in FailingWrite(Len(calls)) :
          Sends(conns, calls, k) /\ UNCHANGED <<registry, pending>>
    BY <1>2, <1>5
  <2>2. prompts' = prompts /\ UNCHANGED <<registry, fetches, perLogin>>
    BY <2>1 DEF pending, registry
  <2>3. QED
    BY <1>1, <1>3, <1>5, <2>1, <2>2, SendsNow
<1>6. QED
  BY <1>4, <1>5

\* The first request for the chat rooms may stop the process; any other only moves on, or
\* tears the session down.
LEMMA RoomsRequestIInv ==
  ASSUME IInv, RoomsRequest
  PROVE  IInv'
<1>1. sid # None /\ crashed = None
  BY DEF RoomsRequest, IInv, OfflineIsClean
<1>2. CASE ~Usable
  <2>1. invalid /\ Abort("sendGetChatRoomsRequest")
    BY <1>1, <1>2, UnusableIsInvalid DEF RoomsRequest
  <2>2. "sendGetChatRoomsRequest" \in Aborts
    BY DEF Aborts
  <2> QED
    BY <2>1, <2>2, AbortIInv
<1>3. CASE Usable
  <2>1. /\ \/ UNCHANGED <<session, conns, timers>>
           \/ NetworkError(conns, connection)
        /\ \/ roomlist = "unset" /\ crashed' = "purple_roomlist_unref" /\ UNCHANGED roomlist
           \/ roomlist' = "set" /\ UNCHANGED crashed
        /\ UNCHANGED <<registry, fetches, prompts, begun>>
    BY <1>3 DEF RoomsRequest
  <2>2. "purple_roomlist_unref" \in Aborts
    BY DEF Aborts
  <2>3. crashed' \in Aborts \cup {None} /\ roomlist' \in {"unset", "set"}
    BY <1>1, <2>1, <2>2 DEF IInv, TypeOK
  <2>4. CASE NetworkError(conns, connection)
    BY <1>3, <2>1, <2>3, <2>4, UsableExists, NetworkErrorIInv
  <2>5. CASE UNCHANGED <<session, conns, timers>> /\ crashed' = crashed
    <3>1. conns \in [DOMAIN conns -> Conns] /\ conns[connection].phase # "closed"
      BY <1>3, UsableExists DEF IInv, TypeOK
    <3>2. UNCHANGED <<session, timers, crashed, registry, fetches, begun>> /\ conns' = conns
      BY <2>1, <2>5
    <3> QED
      BY <1>1, <1>3, <2>1, <2>3, <3>1, <3>2, OwnConnMoves
  <2>6. CASE /\ UNCHANGED <<session, conns, timers>> /\ roomlist = "unset"
             /\ crashed' = "purple_roomlist_unref" /\ UNCHANGED roomlist
    <3>1. UNCHANGED <<nextId, logins, gc, dying, sid, invalid, connection, loggedIn, timerSet,
                      conns, timers, fetches, prompts, roomlist, begun>>
      BY <2>1, <2>6 DEF registry, session
    <3>2. StopsOfHealthySessions'
      BY <2>6 DEF StopsOfHealthySessions
    <3> QED
      BY <2>3, <3>1, <3>2 DEF IInv, TypeOK, ValidOwnsConnection, OnlyOwnedCallsBack,
         IdsAllocated, IdsResolveToTheirSession, PromptsDoNotDangle, OfflineIsClean,
         TornDownIsAnnounced
  <2> QED
    BY <2>1, <2>4, <2>5, <2>6
<1> QED
  BY <1>2, <1>3

LEMMA AnswerPromptIInv ==
  ASSUME IInv, NEW p \in prompts, AnswerPrompt(p)
  PROVE  IInv'
<1>1. p = sid /\ sid # None /\ crashed = None
  BY ConstantsAssumption DEF AnswerPrompt, IInv, TypeOK, PromptsDoNotDangle
<1>2. PICK call \in {"sendAcceptAddRequest", "sendDenyAddRequest"} :
        IF ~Usable
        THEN Abort(call)
        ELSE \E k \in FailingWrite(1) : /\ Sends(conns, <<call>>, k)
                                        /\ prompts' \in {prompts, prompts \ {p}}
                                        /\ UNCHANGED <<registry, fetches, perLogin>>
  BY <1>1 DEF AnswerPrompt
<1>3. call \in Aborts /\ <<call>> \in Seq(Aborts) /\ Len(<<call>>) = 1
  <2>1. call \in Aborts
    BY DEF Aborts
  <2>2. QED
    BY <2>1, ShortSeqs
<1>4. CASE ~Usable
  BY <1>1, <1>2, <1>3, <1>4, UnusableIsInvalid, AbortIInv
<1>5. CASE Usable
  <2>1. PICK k \in FailingWrite(1) : Sends(conns, <<call>>, k)
    BY <1>2, <1>5
  <2>2. prompts' \subseteq prompts /\ UNCHANGED <<registry, fetches, perLogin>>
    BY <1>2, <1>5
  <2>3. QED
    BY <1>1, <1>3, <1>5, <2>1, <2>2, SendsNow
<1>6. QED
  BY <1>4, <1>5

\* A live connection that ends tears its session down: it is the session's own.
LEMMA EndsIInv ==
  ASSUME IInv, crashed = None, NEW c \in DOMAIN conns, conns[c].phase # "closed",
         NEW upcall, Ends(c, upcall)
  PROVE  IInv'
<1>1. c = connection /\ Handled(c) /\ sid # None /\ ~invalid
  BY LiveConnIsOwned
<1>2. /\ NetworkError(Closed(conns, c), connection)
      /\ UNCHANGED <<registry, pending, crashed>>
  BY <1>1 DEF Ends
<1>3. /\ DOMAIN Closed(conns, c) = DOMAIN conns
      /\ \A x \in DOMAIN conns : x # connection => Closed(conns, c)[x] = conns[x]
  BY <1>1 DEF Closed
<1>4. /\ UNCHANGED <<registry, fetches, begun>> /\ prompts' \subseteq prompts
      /\ roomlist' \in {"unset", "set"} /\ crashed' \in Aborts \cup {None}
  BY <1>2 DEF registry, pending, perLogin, IInv, TypeOK
<1>5. QED
  BY <1>1, <1>2, <1>3, <1>4, NetworkErrorIInv

LEMMA GotConnectedIInv ==
  ASSUME IInv, NEW c \in DOMAIN conns, GotConnected(c)
  PROVE  IInv'
<1> DEFINE cs == [conns EXCEPT ![c].phase = "connected"]
<1>1. crashed = None /\ conns[c].phase = "attempt"
  BY DEF GotConnected
<1>2. /\ c = connection /\ Handled(c) /\ connection # None /\ Usable
  BY <1>1, LiveConnIsOwned DEF Usable
<1>3. PICK k \in FailingWrite(1) :
        Sends(cs, <<"gotConnected">>, k) /\ UNCHANGED <<registry, pending>>
  BY <1>2 DEF GotConnected
<1>4. /\ DOMAIN cs = DOMAIN conns
      /\ \A x \in DOMAIN conns : x # connection => cs[x] = conns[x]
      /\ cs[connection].phase = "connected"
      /\ cs[connection].handler = conns[connection].handler
      /\ cs[connection] \in Conns
    BY <1>2 DEF IInv, TypeOK, Conns, Phases
<1>5. cs \in [DOMAIN conns -> Conns] /\ cs[connection].phase # "closed"
  BY <1>4 DEF IInv, TypeOK
<1>6. <<"gotConnected">> \in Seq(Aborts) /\ k \in 0..Len(<<"gotConnected">>)
  <2>1. "gotConnected" \in Aborts
    BY DEF Aborts
  <2>2. <<"gotConnected">> \in Seq(Aborts) /\ Len(<<"gotConnected">>) = 1
    BY <2>1, ShortSeqs
  <2>3. QED
    BY <2>2, FailingWriteRange
<1>7. UNCHANGED <<registry, fetches, perLogin>> /\ prompts' \subseteq prompts
  BY <1>3 DEF registry, pending
<1>8. QED
  BY <1>1, <1>2, <1>3, <1>4, <1>5, <1>6, <1>7, SendsIInv

\* The gatekeeper connection that closeCallback leaves behind is closed.
LEMMA ServerClosesIInv ==
  ASSUME IInv, NEW c \in DOMAIN conns, ServerCloses(c)
  PROVE  IInv'
<1> DEFINE cs == Closed(conns, c)
           over80 == WithConn(cs, NewId(0), 2, sid)
<1>1. crashed = None /\ conns[c].phase = "connected"
  BY DEF ServerCloses
<1>2. c = connection /\ Handled(c) /\ sid # None /\ ~invalid
  BY <1>1, LiveConnIsOwned
<1>3. nextId \in Nat /\ nextId \notin DOMAIN conns
  BY DEF IInv, TypeOK, IdsAllocated
<1>4. /\ DOMAIN cs = DOMAIN conns
      /\ \A x \in DOMAIN conns : x # connection => cs[x] = conns[x]
      /\ cs[connection] \in Conns /\ cs[connection].phase = "closed"
      /\ cs[connection].handler = conns[connection].handler
  BY <1>2 DEF Closed, IInv, TypeOK, Conns, Phases
<1>5. CASE conns[c].mode = 1
  <2>1. /\ nextId' = nextId + 1
        /\ NetworkError(over80, nextId)
        /\ crashed' \in {None, "closeCallback"}
        /\ UNCHANGED <<logins, pending>>
    BY <1>2, <1>3, <1>5 DEF ServerCloses, NewId
  <2>2. \A x \in (DOMAIN over80) \ {nextId} : x \in DOMAIN conns /\ over80[x] = cs[x]
    BY <1>3, <1>4 DEF WithConn, NewId
  <2>3. conns' = Deleted(over80, nextId)
    BY <2>1 DEF NetworkError, TearDown
  <2>4. /\ DOMAIN conns' \subseteq DOMAIN conns
        /\ conns' \in [DOMAIN conns' -> Conns]
        /\ \A x \in DOMAIN conns' : /\ conns'[x].phase = "closed"
                                    /\ conns'[x].handler = conns[x].handler
    BY <1>2, <1>4, <2>2, <2>3, OthersAreClosed
  <2>5. /\ invalid' = TRUE /\ dying' = TRUE /\ connection' = None /\ sid' = sid
        /\ gc' = gc /\ loggedIn' = loggedIn /\ timerSet' = FALSE
        /\ timers' \subseteq timers \cup {sid}
        /\ logins' = logins /\ fetches' = fetches /\ prompts' \subseteq prompts
        /\ roomlist' \in {"unset", "set"} /\ begun' \subseteq Buddies
    BY <2>1 DEF NetworkError, TearDown, StopTimer, pending, perLogin, IInv, TypeOK
  <2>6. gc \in {"connecting", "connected"} /\ loggedIn \in BOOLEAN
    BY <1>2 DEF IInv, TypeOK, OfflineIsClean
  <2>7. nextId' \in Nat /\ nextId <= nextId'
    BY <1>3, <2>1
  <2>8. crashed' \in Aborts \cup {None}
    BY <2>1 DEF Aborts
  <2>9. QED
    BY <1>2, <2>4, <2>5, <2>6, <2>7, <2>8, TornDown
<1>6. CASE conns[c].mode # 1
  <2>1. NetworkError(cs, connection) /\ UNCHANGED <<registry, pending, crashed>>
    BY <1>2, <1>6 DEF ServerCloses
  <2>2. /\ UNCHANGED <<registry, fetches, begun>> /\ prompts' \subseteq prompts
        /\ roomlist' \in {"unset", "set"} /\ crashed' \in Aborts \cup {None}
    BY <1>1, <2>1 DEF registry, pending, perLogin, IInv, TypeOK
  <2>3. QED
    BY <1>2, <1>4, <2>1, <2>2, NetworkErrorIInv
<1>7. QED
  BY <1>5, <1>6

\* A frame arrives on the session's own connection, and the session is valid.
LEMMA FrameOwned ==
  ASSUME IInv, NEW c \in DOMAIN conns, NEW m, NEW parse, Frame(c, m, parse)
  PROVE  /\ c = connection /\ sid # None /\ ~invalid /\ Usable /\ crashed = None
         /\ conns[c].phase = "connected" /\ conns[c].handler = sid /\ c \in Nat
         /\ parse
<1>1. crashed = None /\ conns[c].phase = "connected"
  BY DEF Frame
<1>2. c = connection /\ sid # None /\ ~invalid /\ Usable /\ conns[c].handler = sid
  BY <1>1, LiveConnIsOwned
<1>3. c \in Nat
  BY DEF IInv, TypeOK
<1>4. parse
  BY <1>2 DEF Frame
<1>5. QED
  BY <1>1, <1>2, <1>3, <1>4

\* A handler that tears down a session whose connection is untouched.
LEMMA NetworkErrorNow ==
  ASSUME IInv, Usable, NetworkError(conns, connection), UNCHANGED <<registry, pending>>,
         crashed' \in Aborts \cup {None}
  PROVE  IInv'
<1>1. /\ UNCHANGED <<registry, fetches, begun>> /\ prompts' \subseteq prompts
      /\ roomlist' \in {"unset", "set"}
  BY DEF registry, pending, perLogin, IInv, TypeOK
<1>2. QED
  BY <1>1, UsableExists, NetworkErrorIInv

\* The new connection takes the place of the gatekeeper's in one step.
LEMMA SwitchIInv ==
  ASSUME IInv, Usable, crashed = None, sid # None, NEW c \in DOMAIN conns, c = connection,
         SwitchToCS(c)
  PROVE  IInv'
<1> DEFINE new == [mode |-> 0, phase |-> "attempt", handler |-> sid]
<1>1. /\ gc' = gc /\ dying' = dying /\ sid' = sid /\ invalid' = invalid
      /\ connection' = nextId /\ loggedIn' = loggedIn /\ timerSet' = timerSet
      /\ timers' = timers /\ crashed' = crashed /\ nextId' = nextId + 1 /\ logins' = logins
      /\ fetches' = fetches /\ prompts' = prompts /\ roomlist' = roomlist /\ begun' = begun
  <2>1. nextId + 0 = nextId
    BY DEF IInv, TypeOK
  <2>2. QED
    BY <2>1 DEF SwitchToCS, NewId, pending, perLogin
<1>2. /\ nextId \in Nat /\ nextId \notin DOMAIN conns /\ sid \in Nat /\ sid < nextId
      /\ c \in Nat /\ c < nextId /\ ~invalid
  BY UsableExists DEF IInv, TypeOK, IdsAllocated, OnlyOwnedCallsBack
<1>3. /\ DOMAIN conns' = (DOMAIN conns \ {c}) \cup {nextId}
      /\ conns' = [x \in (DOMAIN conns \ {c}) \cup {nextId} |-> conns'[x]]
      /\ conns'[nextId] = new
      /\ \A x \in DOMAIN conns \ {c} : conns'[x] = conns[x] /\ x # nextId
  BY <1>2 DEF SwitchToCS, Deleted, WithConn, Restrict, NewId
<1>4. new \in Conns
  BY <1>2 DEF Conns, Phases
<1>5. conns' \in [DOMAIN conns' -> Conns] /\ DOMAIN conns' \subseteq Nat
  BY <1>2, <1>3, <1>4 DEF IInv, TypeOK
<1>6. TypeOK'
  <2>1. nextId' \in Nat
    BY <1>1, <1>2
  <2>2. QED
    BY <1>1, <1>2, <1>5, <2>1 DEF IInv, TypeOK
<1>7. ValidOwnsConnection' /\ OnlyOwnedCallsBack'
  BY <1>1, <1>2, <1>3 DEF IInv, ValidOwnsConnection, OnlyOwnedCallsBack
<1>8. IdsAllocated' /\ IdsResolveToTheirSession'
  <2>1. ASSUME NEW x \in DOMAIN conns
        PROVE  /\ x < nextId + 1 /\ conns[x].handler < nextId + 1
               /\ conns[x].handler \notin DOMAIN conns /\ conns[x].handler # nextId
    BY <1>2 DEF IInv, TypeOK, Conns, IdsAllocated, IdsResolveToTheirSession
  <2>2. sid < nextId + 1 /\ nextId < nextId + 1 /\ sid # nextId /\ sid \notin DOMAIN conns
    BY <1>2 DEF IInv, IdsAllocated
  <2>3. \A x \in DOMAIN conns' : /\ x < nextId' /\ conns'[x].handler < nextId'
                                 /\ conns'[x].handler \notin DOMAIN conns'
    BY <1>1, <1>3, <2>1, <2>2
  <2>4. \A t \in timers : t < nextId + 1 /\ t # nextId /\ t \notin DOMAIN conns
    BY <1>2 DEF IInv, TypeOK, IdsAllocated, IdsResolveToTheirSession
  <2>5. \A f \in fetches : /\ f.owner < nextId + 1 /\ f.owner # nextId
                           /\ f.owner \notin DOMAIN conns
                           /\ f.owner = sid => f.login = logins
    BY <1>2 DEF IInv, TypeOK, Fetches, IdsAllocated, IdsResolveToTheirSession
  <2>6. QED
    BY <1>1, <1>3, <2>2, <2>3, <2>4, <2>5 DEF IdsAllocated, IdsResolveToTheirSession
<1>9. PromptsDoNotDangle' /\ OfflineIsClean' /\ TornDownIsAnnounced' /\ StopsOfHealthySessions'
  BY <1>1 DEF IInv, PromptsDoNotDangle, OfflineIsClean, TornDownIsAnnounced,
              StopsOfHealthySessions
<1>10. QED
  BY <1>6, <1>7, <1>8, <1>9 DEF IInv

LEMMA GkReplyIInv ==
  ASSUME IInv, NEW c \in DOMAIN conns, GkReply(c)
  PROVE  IInv'
<1>1. /\ c = connection /\ sid # None /\ ~invalid /\ Usable /\ crashed = None
      /\ \/ SwitchToCS(c)
         \/ SwitchFails(c)
         \/ "badReply" \in Faults /\ Abort("rand() % res.size()")
  BY FrameOwned DEF GkReply
<1>2. CASE SwitchToCS(c)
  BY <1>1, <1>2, SwitchIInv
<1>3. CASE SwitchFails(c)
  <2>1. /\ nextId' = nextId + 1 /\ nextId \in Nat
        /\ NetworkError(conns, c)
        /\ crashed' = "parseGkResponse"
        /\ UNCHANGED <<logins, pending>>
    BY <1>3 DEF SwitchFails, IInv, TypeOK
  <2>2. conns' = Deleted(conns, c)
    BY <2>1 DEF NetworkError, TearDown
  <2>3. /\ DOMAIN conns' \subseteq DOMAIN conns
        /\ conns' \in [DOMAIN conns' -> Conns]
        /\ \A x \in DOMAIN conns' : /\ conns'[x].phase = "closed"
                                    /\ conns'[x].handler = conns[x].handler
    BY <1>1, <2>2, OthersAreClosed
  <2>4. /\ invalid' = TRUE /\ dying' = TRUE /\ connection' = None /\ sid' = sid
        /\ gc' = gc /\ loggedIn' = loggedIn /\ timerSet' = FALSE
        /\ timers' \subseteq timers \cup {sid}
        /\ logins' = logins /\ fetches' = fetches /\ prompts' \subseteq prompts
        /\ roomlist' \in {"unset", "set"} /\ begun' \subseteq Buddies
    BY <2>1 DEF NetworkError, TearDown, StopTimer, pending, perLogin, IInv, TypeOK
  <2>5. gc \in {"connecting", "connected"} /\ loggedIn \in BOOLEAN
    BY <1>1 DEF IInv, TypeOK, OfflineIsClean
  <2>6. nextId' \in Nat /\ nextId <= nextId'
    BY <2>1
  <2>7. crashed' \in Aborts \cup {None}
    BY <2>1 DEF Aborts
  <2>8. QED
    BY <1>1, <2>3, <2>4, <2>5, <2>6, <2>7, TornDown
<1>4. CASE "badReply" \in Faults /\ Abort("rand() % res.size()")
  BY <1>4, AbortIInv DEF Aborts, MalformedAborts
<1>5. QED
  BY <1>1, <1>2, <1>3, <1>4

\* The login goes through, or the request that fails tears the session down and
\* the rest of the handler still runs.
LEMMA LoginAcceptedIInv ==
  ASSUME IInv, NEW c \in DOMAIN conns, LoginAccepted(c)
  PROVE  IInv'
<1>1. PICK k \in FailingWrite(Len(LoginCalls)) :
    /\ loggedIn' = TRUE /\ gc' = "connected"
    /\ IF k = 0 THEN UNCHANGED <<dying, invalid, connection, conns>> ELSE TearDown(conns, c)
    /\ IF k \in 1..Len(LoginCalls) - 1
       THEN /\ crashed' = LoginCalls[k + 1]
            /\ StopTimer
            /\ UNCHANGED <<fetches, begun>>
       ELSE /\ ArmTimer
            /\ FetchAvatars
            /\ UNCHANGED crashed
    /\ UNCHANGED <<registry, sid, prompts, roomlist>>
  BY FrameOwned DEF LoginAccepted
<1>2. c = connection /\ sid # None /\ ~invalid /\ Usable /\ crashed = None
  BY FrameOwned DEF LoginAccepted
<1>3. k \in 0..4 /\ LoginCalls \in Seq(Aborts) /\ Len(LoginCalls) = 4
  BY CallsAreAborts, FailingWriteRange
<1>4. sid \in Nat /\ logins \in Nat /\ nextId \in Nat
  BY <1>2 DEF IInv, TypeOK
<1>5. /\ nextId' = nextId /\ logins' = logins /\ sid' = sid /\ prompts' = prompts
      /\ timerSet' \in BOOLEAN
      /\ timers' \subseteq timers \cup {sid}
      /\ fetches' \subseteq fetches \cup
           [owner : {sid}, buddy : Buddies, stage : {"key"}, login : {logins}]
      /\ roomlist' = roomlist /\ begun' \in {begun, Buddies}
      /\ roomlist' \in {"unset", "set"} /\ begun' \subseteq Buddies
  BY <1>1 DEF StopTimer, ArmTimer, FetchAvatars, registry, IInv, TypeOK
<1>6. CASE k = 0
  <2>1. /\ dying' = dying /\ invalid' = invalid /\ connection' = connection /\ conns' = conns
        /\ crashed' = None
    BY <1>1, <1>2, <1>6
  <2>2. \A f \in fetches' : \/ f \in fetches
                            \/ f \in Fetches /\ f.owner = sid /\ f.login = logins
    BY <1>4, <1>5 DEF Fetches
  <2>3. TypeOK'
    <3>1. fetches' \subseteq Fetches /\ timers' \subseteq Nat
      BY <1>4, <1>5, <2>2 DEF IInv, TypeOK
    <3>2. QED
      BY <1>1, <1>5, <2>1, <3>1 DEF IInv, TypeOK
  <2>4. ValidOwnsConnection' /\ OnlyOwnedCallsBack'
    BY <1>5, <2>1 DEF IInv, ValidOwnsConnection, OnlyOwnedCallsBack
  <2>5. IdsAllocated' /\ IdsResolveToTheirSession'
    <3>1. sid < nextId /\ sid \notin DOMAIN conns
      BY <1>2 DEF IInv, IdsAllocated
    <3>2. QED
      BY <1>5, <2>1, <2>2, <3>1 DEF IInv, IdsAllocated, IdsResolveToTheirSession
  <2>6. PromptsDoNotDangle' /\ OfflineIsClean' /\ TornDownIsAnnounced' /\ StopsOfHealthySessions'
    BY <1>1, <1>2, <1>5, <2>1 DEF IInv, PromptsDoNotDangle, OfflineIsClean,
                                  TornDownIsAnnounced, StopsOfHealthySessions
  <2>7. QED
    BY <2>3, <2>4, <2>5, <2>6 DEF IInv
<1>7. CASE k # 0
  <2>1. TearDown(conns, c)
    BY <1>1, <1>7
  <2>2. /\ invalid' = TRUE /\ dying' = TRUE /\ connection' = None
        /\ conns' = Deleted(conns, connection)
    BY <1>2, <2>1 DEF TearDown
  <2>3. /\ DOMAIN conns' \subseteq DOMAIN conns
        /\ conns' \in [DOMAIN conns' -> Conns]
        /\ \A x \in DOMAIN conns' : /\ conns'[x].phase = "closed"
                                    /\ conns'[x].handler = conns[x].handler
    BY <1>2, <2>2, OthersAreClosed
  <2>4. crashed' \in Aborts \cup {None}
    <3>1. CASE k \in 1..Len(LoginCalls) - 1
      <4>1. k + 1 \in 1..Len(LoginCalls)
        BY <1>3, <3>1
      <4>2. LoginCalls[k + 1] \in Aborts
        BY <1>3, <4>1, ElementOfSeq
      <4>3. QED
        BY <1>1, <3>1, <4>2
    <3>2. CASE k \notin 1..Len(LoginCalls) - 1
      BY <1>1, <1>2, <3>2
    <3>3. QED
      BY <3>1, <3>2
  <2>5. nextId' \in Nat /\ nextId <= nextId'
    BY <1>4, <1>5
  <2>6. loggedIn' \in BOOLEAN /\ gc' \in {"connecting", "connected"}
    BY <1>1
  <2>7. QED
    BY <1>2, <1>5, <2>2, <2>3, <2>4, <2>5, <2>6, TornDown
<1>8. QED
  BY <1>6, <1>7

\* A reply that is cut short leaves the session half logged in, and whole.
LEMMA LoginMalformedIInv ==
  ASSUME IInv, NEW c \in DOMAIN conns, LoginMalformed(c)
  PROVE  IInv'
<1>1. /\ "badReply" \in Faults /\ crashed = None /\ sid # None
      /\ \/ Abort("parseCSLoginResponse")
         \/ /\ loggedIn' = TRUE
            /\ gc' \in {gc, "connected"}
            /\ UNCHANGED <<dying, sid, invalid, connection, timerSet>>
            /\ UNCHANGED <<conns, timers, crashed, registry, pending>>
  BY FrameOwned DEF LoginMalformed
<1>2. CASE Abort("parseCSLoginResponse")
  BY <1>1, <1>2, AbortIInv DEF Aborts, MalformedAborts
<1>3. CASE /\ loggedIn' = TRUE
           /\ gc' \in {gc, "connected"}
           /\ UNCHANGED <<dying, sid, invalid, connection, timerSet>>
           /\ UNCHANGED <<conns, timers, crashed, registry, pending>>
  <2>1. /\ dying' = dying /\ sid' = sid /\ invalid' = invalid /\ connection' = connection
        /\ timerSet' = timerSet /\ conns' = conns /\ timers' = timers /\ crashed' = crashed
        /\ nextId' = nextId /\ logins' = logins /\ fetches' = fetches /\ prompts' = prompts
        /\ roomlist' = roomlist /\ begun' = begun
    BY <1>3 DEF registry, pending, perLogin
  <2>2. TypeOK'
    BY <1>3, <2>1 DEF IInv, TypeOK
  <2>3. ValidOwnsConnection' /\ OnlyOwnedCallsBack'
    BY <2>1 DEF IInv, ValidOwnsConnection, OnlyOwnedCallsBack
  <2>4. IdsAllocated' /\ IdsResolveToTheirSession' /\ PromptsDoNotDangle'
    BY <2>1 DEF IInv, IdsAllocated, IdsResolveToTheirSession, PromptsDoNotDangle
  <2>5. OfflineIsClean' /\ TornDownIsAnnounced' /\ StopsOfHealthySessions'
    BY <1>1, <1>3, <2>1 DEF IInv, OfflineIsClean, TornDownIsAnnounced, StopsOfHealthySessions
  <2>6. QED
    BY <2>2, <2>3, <2>4, <2>5 DEF IInv
<1>4. QED
  BY <1>1, <1>2, <1>3

\* The frames that only end the session: a refused login, a login elsewhere.
LEMMA RefusalIInv ==
  ASSUME IInv, NEW c \in DOMAIN conns, LoginRefused(c) \/ LoggedInElsewhere(c)
  PROVE  IInv'
<1>1. Usable /\ crashed = None /\ c = connection
  BY FrameOwned DEF LoginRefused, LoggedInElsewhere
<1>2. NetworkError(conns, c) /\ UNCHANGED <<registry, pending, crashed>>
  BY FrameOwned DEF LoginRefused, LoggedInElsewhere
<1>3. UNCHANGED <<registry, pending>> /\ crashed' \in Aborts \cup {None}
  BY <1>1, <1>2
<1>4. QED
  BY <1>1, <1>2, <1>3, NetworkErrorNow

\* The parser of a message may stop the process in any session.
LEMMA ParserStopsIInv ==
  ASSUME IInv, Abort("_parseChatMessage")
  PROVE  IInv'
<1>1. "_parseChatMessage" \in Aborts
  BY DEF Aborts
<1> QED
  BY <1>1, AbortIInv

LEMMA OfflineMessagesIInv ==
  ASSUME IInv, NEW c \in DOMAIN conns, OfflineMessages(c)
  PROVE  IInv'
<1>1. Usable /\ crashed = None /\ c = connection
  BY FrameOwned DEF OfflineMessages
<1>2. \/ \E n \in 1..2 : \E k \in FailingWrite(n) :
           /\ Sends(conns, [i \in 1..n |-> "deleteOfflineMessage"], k)
           /\ UNCHANGED <<registry, pending>>
      \/ Abort("_parseChatMessage")
      \/ /\ NetworkError(conns, c)
         /\ crashed' \in {"_parseChatMessage", "buffer.reset"}
         /\ UNCHANGED <<registry, pending>>
  BY FrameOwned DEF OfflineMessages
<1>3. ASSUME NEW n \in 1..2, NEW k \in FailingWrite(n),
             Sends(conns, [i \in 1..n |-> "deleteOfflineMessage"], k),
             UNCHANGED <<registry, pending>>
      PROVE  IInv'
  <2> DEFINE calls == [i \in 1..n |-> "deleteOfflineMessage"]
  <2>1. "deleteOfflineMessage" \in Aborts
    BY DEF Aborts
  <2>2. calls \in Seq(Aborts) /\ Len(calls) = n /\ n \in Nat
    BY <2>1
  <2>3. UNCHANGED <<registry, fetches, perLogin>> /\ prompts' \subseteq prompts
    BY <1>3 DEF registry, pending
  <2>4. QED
    BY <1>1, <1>3, <2>2, <2>3, SendsNow
<1>4. CASE /\ NetworkError(conns, c)
           /\ crashed' \in {"_parseChatMessage", "buffer.reset"}
           /\ UNCHANGED <<registry, pending>>
  <2>1. crashed' \in Aborts \cup {None}
    BY <1>4 DEF Aborts
  <2>2. QED
    BY <1>1, <1>4, <2>1, NetworkErrorNow
<1>5. CASE Abort("_parseChatMessage")
  BY <1>5, ParserStopsIInv
<1>6. QED
  BY <1>2, <1>3, <1>4, <1>5

LEMMA TextMessageIInv ==
  ASSUME IInv, NEW c \in DOMAIN conns, TextMessage(c)
  PROVE  IInv'
BY FrameOwned, ParserStopsIInv DEF TextMessage

LEMMA NegativeLengthIInv ==
  ASSUME IInv, NEW c \in DOMAIN conns, NegativeLength(c)
  PROVE  IInv'
<1>1. "badReply" \in Faults /\ Abort("substr")
  BY FrameOwned DEF NegativeLength
<1>2. "substr" \in Aborts
  BY DEF Aborts
<1> QED
  BY <1>1, <1>2, AbortIInv

LEMMA AddRequestIInv ==
  ASSUME IInv, NEW c \in DOMAIN conns, AddRequest(c)
  PROVE  IInv'
<1>1. Usable /\ crashed = None /\ sid # None
  BY FrameOwned DEF AddRequest
<1>2. prompts' = prompts \cup {sid} /\ UNCHANGED <<session, conns, timers, crashed, registry, fetches, perLogin>>
  BY FrameOwned DEF AddRequest
<1>3. /\ conns \in [DOMAIN conns -> Conns] /\ conns[connection].phase # "closed"
      /\ conns' = conns
      /\ roomlist' \in {"unset", "set"} /\ begun' = begun
  BY <1>1, <1>2, UsableExists DEF IInv, TypeOK, perLogin
<1>4. QED
  BY <1>1, <1>2, <1>3, OwnConnMoves

\* The timer finds its own valid session, or none.
LEMMA KeepAliveTimerIInv ==
  ASSUME IInv, NEW t \in timers, KeepAliveTimer(t)
  PROVE  IInv'
<1>1. crashed = None /\ t \in Nat /\ t \notin DOMAIN conns
  BY DEF KeepAliveTimer, IInv, TypeOK, IdsResolveToTheirSession
<1>2. CASE t = sid
  <2>1. ~dying /\ sid # None
    BY <1>1, <1>2, ConstantsAssumption DEF KeepAliveTimer
  <2>2. ~invalid
    BY <2>1 DEF IInv, TypeOK, TornDownIsAnnounced
  <2>3. Usable
    BY <2>1, <2>2, UnusableIsInvalid
  <2>4. PICK k \in FailingWrite(1) :
          Sends(conns, <<"sendKeepAlive">>, k) /\ UNCHANGED <<registry, pending>>
    BY <1>2, <2>3 DEF KeepAliveTimer
  <2>5. <<"sendKeepAlive">> \in Seq(Aborts) /\ Len(<<"sendKeepAlive">>) = 1
    <3>1. "sendKeepAlive" \in Aborts
      BY DEF Aborts
    <3>2. QED
      BY <3>1, ShortSeqs
  <2>6. UNCHANGED <<registry, fetches, perLogin>> /\ prompts' \subseteq prompts
    BY <2>4 DEF registry, pending
  <2>7. QED
    BY <1>1, <2>3, <2>4, <2>5, <2>6, SendsNow
<1>3. CASE t # sid
  <2>1. TimerEnds(t) /\ UNCHANGED <<registry, session, conns, pending, crashed>>
    BY <1>1, <1>3 DEF KeepAliveTimer
  <2>2. /\ timers' \subseteq timers /\ fetches' = fetches
        /\ UNCHANGED <<registry, session, conns, prompts, perLogin, crashed>>
    BY <2>1 DEF TimerEnds, pending
  <2>3. fetches' \subseteq Fetches
    BY <2>2 DEF IInv, TypeOK
  <2>4. QED
    BY <1>1, <2>2, <2>3, LessOutstanding
<1>4. QED
  BY <1>2, <1>3

LEMMA FetchIInv ==
  ASSUME IInv, NEW f \in fetches, KeyFetched(f) \/ ImageFetched(f)
  PROVE  IInv'
<1>1. f \in Fetches /\ fetches \subseteq Fetches /\ f.owner \notin DOMAIN conns
  BY DEF IInv, TypeOK, IdsResolveToTheirSession
<1>2. CASE KeyFetched(f)
  <2> DEFINE g == [f EXCEPT !.stage = "image"]
  <2>1. crashed = None /\ UNCHANGED <<registry, session, conns, timers, prompts, perLogin, crashed>>
    BY <1>2 DEF KeyFetched
  <2>2. g \in Fetches /\ g.owner = f.owner /\ g.login = f.login
    <3>1. g = [owner |-> f.owner, buddy |-> f.buddy, stage |-> "image", login |-> f.login]
      BY <1>1 DEF Fetches
    <3>2. QED
      BY <1>1, <3>1 DEF Fetches
  <2>3. fetches' \subseteq fetches \cup {g}
    BY <1>2 DEF KeyFetched
  <2>4. fetches' \subseteq Fetches
    BY <1>1, <2>2, <2>3
  <2>5. \A h \in fetches' : \E i \in fetches : h.owner = i.owner /\ h.login = i.login
    BY <2>2, <2>3
  <2>6. QED
    BY <2>1, <2>4, <2>5, LessOutstanding
<1>3. CASE ImageFetched(f)
  <2>1. /\ crashed = None /\ fetches' \subseteq fetches
        /\ UNCHANGED <<registry, session, conns, timers, prompts, perLogin, crashed>>
    BY <1>1, <1>3 DEF ImageFetched
  <2>2. QED
    BY <1>1, <2>1, LessOutstanding
<1>4. QED
  BY <1>2, <1>3

\* What a login has begun: nothing before its reply, and everything or nothing then.
LoginInv ==
  /\ LoginAllOrNothing
  /\ sid # None /\ ~loggedIn /\ ~invalid =>
       ~timerSet /\ sid \notin timers /\ begun = {}
  /\ gc = "connected" => loggedIn /\ sid # None

\* What a step that handles no login and no reply to it does to the session, and to
\* what the login has begun.
Untouched ==
  \/ sid' = None /\ gc' # "connected"
  \/ UNCHANGED <<gc, loggedIn, sid>> /\ invalid' = TRUE
  \/ /\ UNCHANGED <<gc, invalid, loggedIn, timerSet, sid, begun>>
     /\ sid \in timers' <=> sid \in timers

LEMMA UntouchedKeeps == ASSUME LoginInv, Untouched PROVE LoginInv'
<1>3. CASE sid' = None /\ gc' # "connected"
  BY <1>3 DEF LoginInv, LoginAllOrNothing
<1>4. CASE UNCHANGED <<gc, loggedIn, sid>> /\ invalid' = TRUE
  BY <1>4 DEF LoginInv, LoginAllOrNothing
<1>5. CASE UNCHANGED <<gc, invalid, loggedIn, timerSet, sid, begun>> /\ (sid \in timers' <=> sid \in timers)
  BY <1>5 DEF LoginInv, LoginAllOrNothing
<1> QED
  BY <1>3, <1>4, <1>5 DEF Untouched

LEMMA SendsUntouched ==
  ASSUME NEW cs, NEW calls, NEW k, Sends(cs, calls, k), UNCHANGED begun PROVE Untouched
  BY DEF Sends, NetworkError, TearDown, session, Untouched

LEMMA AbortUntouched == ASSUME NEW call, Abort(call) PROVE Untouched
  BY DEF Abort, Untouched

LEMMA NetworkErrorUntouched == ASSUME NEW cs, NEW con, NetworkError(cs, con) PROVE Untouched
  BY DEF NetworkError, TearDown, Untouched

LEMMA EndsUntouched ==
  ASSUME NEW c, NEW upcall, Ends(c, upcall) PROVE Untouched
<1>1. CASE UNCHANGED <<session, timers>> /\ UNCHANGED <<registry, pending>>
  BY <1>1 DEF session, pending, perLogin, Untouched
<1>2. CASE Abort(upcall)
  BY <1>2, AbortUntouched
<1>3. CASE NetworkError(Closed(conns, c), connection) /\ UNCHANGED <<registry, pending>>
  BY <1>3, NetworkErrorUntouched DEF registry, pending
<1> QED
  BY <1>1, <1>2, <1>3 DEF Ends

LEMMA LoginHandled ==
  ASSUME IInv, LoginInv, Login PROVE LoginInv'
<1>1. sid' = nextId /\ loggedIn' = FALSE /\ timerSet' = FALSE /\ gc' = "connecting"
      /\ begun' = {} /\ UNCHANGED timers /\ nextId \in Nat
  BY DEF Login, NewId, IInv, TypeOK
<1>2. nextId \notin timers
  BY <1>1 DEF IInv, IdsAllocated, TypeOK
<1> QED
  BY <1>1, <1>2 DEF LoginInv, LoginAllOrNothing

LEMMA AcceptedHandled ==
  ASSUME IInv, LoginInv, NEW c \in DOMAIN conns, LoginAccepted(c), ~Abort("readCallback") PROVE LoginInv'
<1>1. PICK k \in FailingWrite(Len(LoginCalls)) :
        /\ loggedIn' = TRUE /\ gc' = "connected" /\ sid' = sid
        /\ IF k = 0 THEN TRUE ELSE TearDown(conns, c)
        /\ \/ k \in 1..Len(LoginCalls) - 1
           \/ ArmTimer /\ begun' = Buddies
  BY DEF LoginAccepted, Frame, registry, FetchAvatars
<1>2. sid # None
  BY ConstantsAssumption DEF LoginAccepted, Frame, Handled, IInv, TypeOK, Conns, Abort
<1>3. CASE k = 0
  BY <1>1, <1>2, <1>3 DEF LoginCalls, ArmTimer, LoginInv, LoginAllOrNothing
<1>4. CASE k # 0
  BY <1>1, <1>2, <1>4 DEF TearDown, LoginInv, LoginAllOrNothing
<1> QED
  BY <1>3, <1>4

LEMMA MalformedHandled ==
  ASSUME IInv, LoginInv, NEW c \in DOMAIN conns, LoginMalformed(c) PROVE LoginInv'
<1>1. CASE \E call : Abort(call)
  BY <1>1, AbortUntouched, UntouchedKeeps
<1>2. CASE ~\E call : Abort(call)
  <2>1. /\ loggedIn' = TRUE /\ gc' \in {gc, "connected"} /\ ~loggedIn /\ ~invalid
        /\ UNCHANGED <<sid, invalid, timerSet, timers, begun>>
        /\ "badReply" \in Faults
    BY <1>2 DEF LoginMalformed, Frame, pending, perLogin
  <2>2. sid # None
    BY <1>2, ConstantsAssumption DEF LoginMalformed, Frame, Handled, IInv, TypeOK, Conns
  <2> QED
    BY <2>1, <2>2 DEF LoginInv, LoginAllOrNothing
<1> QED
  BY <1>1, <1>2

LEMMA NextLoginInv == ASSUME IInv, LoginInv, [Next]_vars PROVE LoginInv'
<1>0. pending' = pending => begun' = begun
  BY DEF pending, perLogin
<1>1. CASE Login
  BY <1>1, LoginHandled
<1>2. CASE Logout \/ DisconnectTimeout
  <2>1. Untouched
    BY <1>2 DEF Logout, DisconnectTimeout, Disconnect, Untouched
  <2> QED
    BY <2>1, UntouchedKeeps
<1>3. CASE UiRequest
  <2>1. \/ \E calls : Abort(Head(calls))
        \/ (\E calls, k : Sends(conns, calls, k)) /\ UNCHANGED <<registry, pending>>
    BY <1>3 DEF UiRequest
  <2> QED
    BY <1>0, <2>1, AbortUntouched, SendsUntouched, UntouchedKeeps
<1>4. ASSUME NEW p \in prompts, AnswerPrompt(p) PROVE LoginInv'
  <2>1. \/ \E call : Abort(call)
        \/ (\E calls, k : Sends(conns, calls, k)) /\ begun' = begun
    BY <1>4 DEF AnswerPrompt, perLogin
  <2> QED
    BY <2>1, AbortUntouched, SendsUntouched, UntouchedKeeps
<1>5. ASSUME NEW c \in DOMAIN conns, GotConnected(c) PROVE LoginInv'
  <2>1. \/ \E call : Abort(call)
        \/ UNCHANGED <<session, timers>> /\ UNCHANGED <<registry, pending>>
        \/ (\E cs, calls, k : Sends(cs, calls, k)) /\ UNCHANGED <<registry, pending>>
    BY <1>5 DEF GotConnected
  <2>2. UNCHANGED <<session, timers>> /\ begun' = begun => Untouched
    BY DEF session, Untouched
  <2> QED
    BY <1>0, <2>1, <2>2, AbortUntouched, SendsUntouched, UntouchedKeeps
<1>6. ASSUME NEW c \in DOMAIN conns, ConnectFails(c) \/ SocketFails(c) PROVE LoginInv'
  BY <1>6, EndsUntouched, UntouchedKeeps DEF ConnectFails, SocketFails
<1>7. ASSUME NEW c \in DOMAIN conns, ServerCloses(c) PROVE LoginInv'
  <2>1. \/ Ends(c, "closeCallback")
        \/ \E cs, con : NetworkError(cs, con)
    BY <1>7 DEF ServerCloses
  <2> QED
    BY <2>1, EndsUntouched, NetworkErrorUntouched, UntouchedKeeps
<1>8. ASSUME NEW c \in DOMAIN conns, GkReply(c) PROVE LoginInv'
  <2>1. SwitchToCS(c) \/ SwitchFails(c) \/ (\E call : Abort(call))
    BY <1>8 DEF GkReply, Frame
  <2>2. CASE SwitchToCS(c)
    <3>1. Untouched
      BY <2>2 DEF SwitchToCS, Untouched, pending, perLogin
    <3> QED
      BY <3>1, UntouchedKeeps
  <2>3. CASE SwitchFails(c)
    <3>1. Untouched
      BY <2>3, NetworkErrorUntouched DEF SwitchFails
    <3> QED
      BY <3>1, UntouchedKeeps
  <2> QED
    BY <2>1, <2>2, <2>3, AbortUntouched, UntouchedKeeps
<1>9. ASSUME NEW c \in DOMAIN conns, LoginAccepted(c) PROVE LoginInv'
  BY <1>9, AcceptedHandled, AbortUntouched, UntouchedKeeps
<1>10. ASSUME NEW c \in DOMAIN conns, LoginRefused(c) \/ LoggedInElsewhere(c) PROVE LoginInv'
  <2>1. Abort("readCallback") \/ (NetworkError(conns, c) /\ UNCHANGED <<registry, pending>>)
    BY <1>10 DEF LoginRefused, LoggedInElsewhere, Frame
  <2> QED
    BY <1>0, <2>1, AbortUntouched, NetworkErrorUntouched, UntouchedKeeps
<1>11. ASSUME NEW c \in DOMAIN conns, OfflineMessages(c) PROVE LoginInv'
  <2>1. \/ Abort("readCallback")
        \/ Abort("_parseChatMessage")
        \/ NetworkError(conns, c) /\ UNCHANGED <<registry, pending>>
        \/ (\E calls, k : Sends(conns, calls, k)) /\ UNCHANGED <<registry, pending>>
    BY <1>11 DEF OfflineMessages, Frame
  <2> QED
    BY <1>0, <2>1, AbortUntouched, NetworkErrorUntouched, SendsUntouched, UntouchedKeeps
<1>12. ASSUME NEW c \in DOMAIN conns, AddRequest(c) PROVE LoginInv'
  <2>1. Abort("readCallback") \/ UNCHANGED <<session, timers, begun>>
    BY <1>12 DEF AddRequest, Frame, perLogin
  <2>2. UNCHANGED <<session, timers, begun>> => Untouched
    BY DEF session, Untouched
  <2> QED
    BY <2>1, <2>2, AbortUntouched, UntouchedKeeps
<1>13. ASSUME NEW t \in timers, KeepAliveTimer(t) PROVE LoginInv'
  <2>1. CASE t = sid
    <3>1. \/ \E call : Abort(call)
          \/ (\E calls, k : Sends(conns, calls, k)) /\ UNCHANGED <<registry, pending>>
      BY <1>13, <2>1 DEF KeepAliveTimer
    <3> QED
      BY <1>0, <3>1, AbortUntouched, SendsUntouched, UntouchedKeeps
  <2>2. CASE t # sid
    <3>1. \/ \E call : Abort(call)
          \/ TimerEnds(t) /\ UNCHANGED session /\ UNCHANGED <<registry, pending>>
      BY <1>13, <2>2 DEF KeepAliveTimer
    <3>2. TimerEnds(t) /\ UNCHANGED <<session, begun>> => Untouched
      BY <2>2 DEF TimerEnds, session, Untouched
    <3> QED
      BY <1>0, <3>1, <3>2, AbortUntouched, UntouchedKeeps
  <2> QED
    BY <2>1, <2>2
<1>14. ASSUME NEW f \in fetches, KeyFetched(f) \/ ImageFetched(f) PROVE LoginInv'
  <2>1. (\E call : Abort(call)) \/ UNCHANGED <<session, timers, begun>>
    BY <1>14 DEF KeyFetched, ImageFetched, perLogin
  <2>2. UNCHANGED <<session, timers, begun>> => Untouched
    BY DEF session, Untouched
  <2> QED
    BY <2>1, <2>2, AbortUntouched, UntouchedKeeps
<1>15. ASSUME NEW c \in DOMAIN conns, LoginMalformed(c) PROVE LoginInv'
  BY <1>15, MalformedHandled
<1>16. CASE RoomsRequest
  <2>1. \/ \E call : Abort(call)
        \/ \E cs, con : NetworkError(cs, con)
        \/ UNCHANGED <<session, timers, begun>>
    BY <1>16 DEF RoomsRequest
  <2>2. UNCHANGED <<session, timers, begun>> => Untouched
    BY DEF session, Untouched
  <2> QED
    BY <2>1, <2>2, AbortUntouched, NetworkErrorUntouched, UntouchedKeeps
<1>17. ASSUME NEW c \in DOMAIN conns, TextMessage(c) \/ NegativeLength(c) PROVE LoginInv'
  <2>1. \E call : Abort(call)
    BY <1>17 DEF TextMessage, NegativeLength, Frame
  <2> QED
    BY <2>1, AbortUntouched, UntouchedKeeps
<1>18. CASE UNCHANGED vars
  <2>1. Untouched
    BY <1>18 DEF vars, Untouched
  <2> QED
    BY <2>1, UntouchedKeeps
<1> QED
  BY <1>1, <1>2, <1>3, <1>4, <1>5, <1>6, <1>7, <1>8, <1>9, <1>10, <1>11, <1>12, <1>13, <1>14,
     <1>15, <1>16, <1>17, <1>18 DEF Next

LEMMA NextIInv == IInv /\ [Next]_vars => IInv'
<1> SUFFICES ASSUME IInv, [Next]_vars PROVE IInv'
  OBVIOUS
<1>1. CASE Login
  BY <1>1, LoginIInv
<1>2. CASE Logout \/ DisconnectTimeout
  BY <1>2, DisconnectIInv DEF Logout, DisconnectTimeout
<1>3. CASE UiRequest \/ RoomsRequest
  BY <1>3, UiRequestIInv, RoomsRequestIInv
<1>4. CASE \E p \in prompts : AnswerPrompt(p)
  BY <1>4, AnswerPromptIInv
<1>5. ASSUME NEW c \in DOMAIN conns,
             \/ GotConnected(c) \/ ConnectFails(c)
             \/ SocketFails(c) \/ ServerCloses(c)
             \/ GkReply(c)
             \/ LoginAccepted(c) \/ LoginRefused(c) \/ LoginMalformed(c)
             \/ TextMessage(c) \/ OfflineMessages(c) \/ NegativeLength(c)
             \/ AddRequest(c) \/ LoggedInElsewhere(c)
      PROVE  IInv'
  <2>1. CASE ConnectFails(c) \/ SocketFails(c)
    BY <2>1, EndsIInv DEF ConnectFails, SocketFails
  <2>2. CASE GotConnected(c) \/ ServerCloses(c) \/ GkReply(c)
    BY <2>2, GotConnectedIInv, ServerClosesIInv, GkReplyIInv
  <2>3. CASE LoginAccepted(c) \/ LoginRefused(c) \/ LoginMalformed(c) \/ LoggedInElsewhere(c)
    BY <2>3, LoginAcceptedIInv, RefusalIInv, LoginMalformedIInv
  <2>4. CASE TextMessage(c) \/ OfflineMessages(c)
    BY <2>4, TextMessageIInv, OfflineMessagesIInv
  <2>5. CASE NegativeLength(c) \/ AddRequest(c)
    BY <2>5, NegativeLengthIInv, AddRequestIInv
  <2>6. QED
    BY <1>5, <2>1, <2>2, <2>3, <2>4, <2>5
<1>6. CASE \E t \in timers : KeepAliveTimer(t)
  BY <1>6, KeepAliveTimerIInv
<1>7. CASE \E f \in fetches : KeyFetched(f) \/ ImageFetched(f)
  BY <1>7, FetchIInv
<1>8. CASE UNCHANGED vars
  BY <1>8 DEF vars, IInv, TypeOK, ValidOwnsConnection, OnlyOwnedCallsBack, IdsAllocated,
              IdsResolveToTheirSession, PromptsDoNotDangle, OfflineIsClean,
              TornDownIsAnnounced, StopsOfHealthySessions
<1>9. QED
  BY <1>1, <1>2, <1>3, <1>4, <1>5, <1>6, <1>7, <1>8 DEF Next

-----------------------------------------------------------------------------
\* The inductive invariant holds in every reachable state of the plugin.
THEOREM Invariant == Spec => []IInv
<1>1. Init => IInv
  BY InitIInv
<1>2. IInv /\ [Next]_vars => IInv'
  BY NextIInv
<1>3. QED
  BY <1>1, <1>2, PTL DEF Spec

\* The variables of a session, and of what is outstanding for it, keep their types.
THEOREM TypeCorrect == Spec => []TypeOK
BY Invariant, PTL DEF IInv

\* A valid session never sends through a dangling or closed connection.
THEOREM ConnectionsOwned == Spec => []ValidOwnsConnection
BY Invariant, PTL DEF IInv

\* A connection the session lost track of never calls back: the asserts of
\* readCallback, connectionError, readError and closeCallback hold.
THEOREM StrangersAreQuiet == Spec => []OnlyOwnedCallsBack
BY Invariant, PTL DEF IInv

\* Callbacks that outlive their session find it or nothing, never another object.
THEOREM StaleIdsAreHarmless == Spec => []IdsResolveToTheirSession
BY Invariant, PTL DEF IInv

\* The address in an AddRequest is that of the live session, in every login.
THEOREM PromptsAreLive == Spec => []PromptsDoNotDangle
BY Invariant, PTL DEF IInv

\* libpurple is told of every teardown, and only of one.
THEOREM TeardownsAnnounced == Spec => []TornDownIsAnnounced
BY Invariant, PTL DEF IInv

\* A healthy session stops the process only in a parser or in its first request for the
\* chat rooms, whatever writes and attempts fail: the asserts of the other entry points
\* and upcalls hold, and their pointers are good, as long as the session is valid.
THEOREM HealthySessionsStop == Spec => []StopsOfHealthySessions
BY Invariant, PTL DEF IInv

\* In a session that is logged in, parseCSLoginResponse has armed the timer and begun the
\* download of every avatar of the roster, or has stopped before either, whatever replies,
\* failing writes and earlier sessions there have been.
THEOREM LoginsAreWhole == Spec => []LoginAllOrNothing
<1>1. Init => LoginInv
  BY DEF Init, LoginInv, LoginAllOrNothing
<1>2. IInv /\ LoginInv /\ [Next]_vars => LoginInv'
  BY NextLoginInv
<1>3. LoginInv => LoginAllOrNothing
  BY DEF LoginInv
<1> QED
  BY <1>1, <1>2, <1>3, Invariant, PTL DEF Spec

\* As long as login replies are well formed, an account shown as connected has its
\* keep-alive timer, and the session the handle to stop it (parseCSLoginResponse).
THEOREM KeptAlive ==
  ASSUME "badReply" \notin Faults PROVE Spec => []ConnectedIsKeptAlive
<1>1. Init => LoginInv
  BY DEF Init, LoginInv, LoginAllOrNothing
<1>2. IInv /\ LoginInv /\ [Next]_vars => LoginInv'
  BY NextLoginInv
<1>3. LoginInv => ConnectedIsKeptAlive
  BY DEF LoginInv, LoginAllOrNothing, ConnectedIsKeptAlive
<1> QED
  BY <1>1, <1>2, <1>3, Invariant, PTL DEF Spec
=============================================================================
