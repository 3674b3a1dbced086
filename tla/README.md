# Specification of rediffbol-prpl

A TLA+ development of rediffbol-prpl, the libpurple protocol plugin for Rediff
Bol: models of its parts, TLC runs on small instances, and proofs checked by
TLAPS. Paths and line numbers are those of the repository's `src/`.

## The system

The plugin runs inside a chat client. libpurple owns the event loop: it calls
the plugin's entry points when the user acts, and the callbacks the plugin has
registered when a socket is ready, a timer is due, a download is complete or the
user answers a dialogue. Everything runs on one thread and every callback runs
to completion. What makes the code hard is what survives a callback: connection
attempts, sockets, timers, HTTP downloads and prompts stay outstanding while the
session they belong to is torn down, deleted or replaced by the next login.

| Component | State | Operations | What makes it correct |
|---|---|---|---|
| `PurpleAsyncConn` (conn.cpp) | socket, attempt, two input handlers, txbuf, read buffer | establish, write, close, read and write callbacks | bytes leave in order, none is stuck; a closed connection calls nobody and tells its owner once |
| `RObject` (RObject.cpp) | counter, id → object | construct, destroy, look up, invalidate | an id resolves to its object or to nothing |
| Session, `RediffBolConn` (rediffbol.cpp) | current connection, login state, timer handle, groups, validity | login through gatekeeper and chat server, tear-down, keep-alive, upcalls | owns one live connection while valid; a tear-down is announced; no call on a dead session |
| Request builders (rediffbol.cpp, rediffbol_chatroom.cpp, request.h) | the keep-alive counter | one per request | the declared lengths are those written |
| Plugin entry points (rediffbol_init.cpp) | `gc->proto_data` | login, close, and one per user operation | used only on a session that can serve them |
| Avatars (avatar.cpp) | outstanding downloads | key, image | a late download finds its session or does nothing |
| Framing and dispatch (`readCallback`, `parseCSResponse`) | what is left in the read buffer | split into frames, dispatch | every frame handled once and in order, none left waiting unless the one before it was bad |
| Reply parsers | roster, presence | one per reply | a bad reply is contained, a login takes effect as a whole |
| Offline mailbox | messages on the server | show, delete | nothing is given up that was not shown; shown once per login |
| Add requests | prompts with the address of the session | show, accept, deny | a prompt outlives no session |
| Roster, groups cache | `groups` | filled at login, consulted by add and move | a group exists before a buddy is put into it |
| Chat rooms | roomlist | request, fill | a reply fills the list that asked |
| `MessageBuffer`, util, encode, FontParser | offset in a buffer | bounds, integers, texts | reads stay inside, what was written is what is read, parsers end |

Interactions. libpurple → entry points → session → connection → libpurple's
socket functions; libpurple → connection callbacks → session upcalls
(`PurpleAsyncConnHandler`); session → `purple_connection_error_reason` →
libpurple's zero-second timeout → `rediffbol_close`. Ids of `RObject` stand for
addresses in every callback but one: an authorization prompt holds a pointer.

## Modules

| Module | Contents |
|---|---|
| `ByteStream` | abstract: what a connection promises its owner |
| `AsyncConn` | one `PurpleAsyncConn`; `MCAsyncConn` is its instance for TLC |
| `AsyncConnProofs` | its invariants, and that it implements `ByteStream` |
| `Framing` | its incoming side: reads, the buffer, the loop that takes frames out of it; `MCFraming` |
| `FramingProofs` | its safety invariants |
| `Session` | session, entry points, avatars, registry; `MCSession` |
| `SessionProofs` | its safety invariants |
| `Requests` | every request builder, the order they write in, and the groups they create and use; `MCRequests` |
| `RequestsProofs` | that declared and written lengths agree, and that groups exist |
| `ChatMessage` | a message put into bytes and taken apart again; `MCChatMessage` |
| `ChatMessageBytes` | where the bytes of each segment are in the buffer |
| `ChatMessageProofs` | which lengths survive that, and that messages arrive |
| `Deliveries` | abstract: what the user is promised for what the server keeps for him |
| `Conversation` | mailbox, add requests and room lists over several logins; `MCConversation` |
| `ConversationProofs` | its invariants, and that it implements `Deliveries` |
| `ConversationCounts` | how often a request is asked and a list filled |

`AsyncConn` and `Framing` are the two directions of one connection object and share
nothing but its end. `Session` takes complete frames and failing writes as events
and is about who may still be called; `Requests` is what the builders write while
nothing fails; `Conversation` is the two ends together, with a session that may
end anywhere, and takes from `ChatMessage` that a message may be unreadable.

### AsyncConn

Variables are the fields of the class (`fd`, `rx_handler` and `tx_handler` as
booleans, `txbuf` as a sequence) and three histories: bytes accepted from the
owner, bytes the kernel took, terminal upcalls. A byte is its position in the
stream, so that losing, repeating and reordering are all visible. An action is
a call or a callback: `Establish`, `GotConnected`, `ConnectFailed`, `Write(n,k)`
with the `k` bytes the kernel takes at once, `WriteCb...`, `ReadFails`,
`ReadEof`, `OwnerCloses`. `close()` is one operator that every failing path goes
through, as in the code. A `NULL` from `purple_proxy_connect` is an `attempt`
that never answers and is the owner's case in `Session`. `close()` closes the socket
only when `purple_input_get_error` succeeds on it (148); `Close` takes that call, which
asks the system for the pending error of a socket, to succeed on every open socket. That
`ClosedIsQuiet` finds no open socket rests on this assumption; were it to fail, the
descriptor would stay open with nothing registered for it.

### Session

An action is a whole callback including everything the handler calls. Two
operators carry this:

- `NetworkError` is `setStateNetworkError`: `softDestroy` (timer, validity,
  connection) and the announcement to libpurple.
- `Sends(cs, calls, k)` is a handler that writes several requests in a row of
  which the `k`-th fails. The failing `write` closes the connection and calls
  `readError`, which tears the session down and returns into the handler; the
  next call asserts `!isInvalid()` or goes through the `NULL` connection.

A failed assertion, and a call through a `NULL` or freed pointer or to an object
of the wrong class, set `crashed` to the call that would make it, after which
nothing happens. Not all of these need a session that is gone. The parser of a message
may stop the process on a healthy one, for a message that came alone (`TextMessage`) or
out of the mailbox (`OfflineMessages`): which messages do is `ChatMessage`'s. So may a
negative length in a malformed reply (`NegativeLength`), and the first request for the
chat rooms (`RoomsRequest`), which gives up the uninitialised `roomlist`. Connections are kept as a function of their ids, so the object
`closeCallback` loses track of is still there. The entry points are `Login`,
`Disconnect` (from the timeout or the user), `RoomsRequest`, and `UiRequest` for all
others that send. `begun` is a history: the buddies whose avatars the session has begun
to fetch.
`Faults` selects what may go wrong: failing writes, attempts that cannot start,
malformed replies. Refused and dropped connections, end of stream, refused logins
and a second login elsewhere are always possible. A login reply that is cut short
(`LoginMalformed`) raises an exception after `connection_state` was set: the
account may already be shown as connected, and nothing that follows a login happens.

Reading mode 2 (the gatekeeper over port 80) has no action: `readCallback`
handles it (251-265), but `closeCallback` tears the session down in the step in
which it opens such a connection, so no such connection ever reads.

External, modelled from how the code uses libpurple:
`purple_proxy_connect` answers through the event loop and not from inside the
call; `purple_connection_error_reason` schedules a disconnect that runs before any
timer of 30 seconds; disconnecting an account closes its prompts; an account
that is not connected is shown no operations. `PromptsDoNotDangle` rests on the
third, and on the code never deleting a session before libpurple disconnects it.

### Requests

A request is a record of the lengths it declares and the bytes it writes, both
computed from the lengths of its fields the way the builder does. `bytes` and
`body` count the writes, `size` and `payload` are the sums in the code. Actions
are the callers; `groups` decides whether a group is created first. `onServer`
is the server's set of groups, which does what the requests say (external);
`strayed` collects the groups a buddy was put into that were not there. All
sends are on a connection that stays up, since what a failing one does is
`Session`'s. A group is named by the length of its name, as every other string is:
two groups are two lengths. The login reply gives each group two names, one as key
of `groups` and one for the buddy list; they are one name here.

### Framing

Bytes are counted: `received` from the socket, `start` of them taken off the
buffer, and a frame ends at byte `frames[k].end`. `Read` is `read_cb` up to the
loop of `readCallback`, `HandleFrame` one round of that loop, `LoopEnds` the early
`return` and the loop's condition. What a parser makes of a frame is a property of
the frame: it is handled ("ok"), raises `MessageBufferOverflowException` ("bad") or
ends the connection ("ends"). The gatekeeper's connection leaves the loop after one
frame, which replaces it. The catch clause's `buffer.reset()` goes back to
the start of the buffer, which by then is the tail behind the bad frame.

### ChatMessage

The one module in which bytes are bytes. `Bytes` is what `sendMessage` writes of a
text, and the same for the segments other clients write; `Init` puts a message of
`Messages` into the buffer and each step is a round of the loop of
`_parseChatMessage`. A text is its length, the letters it repeats, the name of its font,
and the 13 bytes that describe the font: `Dialog` and `FontBytes` are this program's,
other clients choose theirs. The letters matter, because the offset may move back and
they are then read as lengths. A letter is one UTF-16 short, NUL and surrogates left out:
pairs of surrogates would be four bytes that belong together, and where half of them is
read, `Paired` decides. `Encode` converts what has whole code units and paired surrogates,
and aborts on the rest, as `encode` asserts. The offset is an integer that may leave the
buffer in both directions; reads throw `MessageBufferOverflowException` ("dropped"),
`substr` with a negative offset throws what nobody catches ("aborted"), and a smiley's code
below zero reads before the table, which shows anything or stops the process. `a && b` is
the verdict of two reads in a row.

`SafeText` and `OwnText` are the single texts something can be said of. Where `Landing`,
the offset behind the text, is not in the message, the loop ends, whatever the text is.
Where it is, the bytes around it decide: the description of a font is read again as tags
and lengths, so that `SafeText` asks for this program's, and leaves out the second and the
fourth byte. `OwnText` asks in addition for this program's font, which makes what is
found at these two bytes known.

### Conversation

The server's part is external: a mailbox, pending add requests, replies in the order
of the requests. It keeps a message until it is told to delete it and a request
until it is answered, and passes a request on at once to a user who is there. The
session's part are the handlers: `OfflineMessages` is `parseOfflineMessages` with
its three ways to end – all that can be read is shown and deleted, the first
unreadable one stops the handler or the process, or a deletion cannot be written,
after which one more message is shown before `deleteOfflineMessage` asserts.
`SessionEnds` is everything that ends a session between two handlers. What is on the
way from a lost connection may still arrive, in part and in any order (`late`).
`prompts` are open and go down when the user answers; `prompted` counts how often a login
has asked. `roomlist` is "unset" in a new session: the constructor does not write it, and the
first request for rooms gives up what it finds there, which may stop the process
(`SessionEnds`).

## Runs

| Run | Instance | States | Shows |
|---|---|---|---|
| `asyncconn` | 8 bytes, writes of up to 4 | 192 | invariants, refinement of `ByteStream`, every byte leaves |
| `session_faults` | 3 logins, 2 buddies, all faults | 390 160 | ownership, ids, prompts, announcement, where the process may stop |
| `session_fair` | 2 logins, failing writes and attempts, fair | 2 583 | liveness; connected accounts are kept alive |
| `requests` | 6 requests per connection, lengths 0 and 3 | 15 235 | declared lengths are those written; buddies go to groups that exist |
| `framing` | 3 frames of 4 and 7 bytes, reads of up to 12 | 26 244 | every frame once, whole and in order; which frames wait |
| `chatmessage` | 410 messages | 6 428 | what arrives, what is lost, what stops the reader, and that the parser ends |
| `conversation` | 2 logins, 2 messages, 1 request to be added, 2 lists | 90 977 | nothing is lost; refinement of `Deliveries` |
| `session_fallback` | violated | – | the fallback to port 80 tears itself down |
| `session_ui` | violated | – | a message between tear-down and disconnect |
| `session_badreply` | violated | – | a reply stops the process |
| `session_loginerror` | violated | – | an attempt that cannot start stops the process |
| `requests_accept` | violated | – | accepting a request writes six bytes too many |

Bounds. Eight bytes in writes of up to four allow a write that is split, one
queued behind it and one that finds the callback armed over an empty buffer.
Two logins are the fewest in which something of one session is outstanding
during the next; three let it survive two. Two buddies are two downloads that
progress apart. Each request builder is linear in the lengths of its fields, so
zero and one other length tell two builders apart; six requests let the four of
the login be followed by two. A group known at the login, removed and used again takes three requests more than
the login's three. Frames of 4 and 7 bytes
in reads of 1 to 12 put the end of a read at every byte of a size and of a
body, behind it, and behind the second frame; three frames let one wait behind a
bad one and a third wake it. The messages of `MCMessages` have every text length up
to 140 letters and those around 256, 32 768 and 65 536 bytes, with letters whose upper or
lower byte is zero, below 128 or from 128 on; this program's texts of 1518 to 2030 letters
around the length at which the letters are read as a length; fonts whose lengths
are read as other tags or into which a length moves the offset back; and two to four
segments of which some are unsound. Two
logins are enough for a message to be shown and its deletion lost; two messages for
one behind an unreadable one; one add request for being listed and pushed; two
lists for one overlapping the other.
`MaxBytes`, `MaxLogins`, `MaxRequests`, `MaxFrames`, `MaxLists` and `MaxPieces` are
guards of the model only and bound no value in the code.

`CHECK_DEADLOCK FALSE` is set everywhere: a closed connection, a process that has
stopped, and one that has used its bound of logins or requests really do
nothing more.

### Properties worth a reader's attention

- `StreamIntegrity`, `PendingIsArmed`: `write()` tries the socket only while no
  callback is armed, which is sound only if queued bytes always have one.
- `OnlyOwnedCallsBack` with `ValidOwnsConnection`: the asserts of `readCallback`
  and of the terminal upcalls. Nothing checks them at run time in a callback's
  favour: they hold because each path that replaces `connection` closes the other.
- `IdsResolveToTheirSession`: callbacks cast what they find to `RediffBolConn`
  although connections are registered in the same table. Sound only because ids
  are never used again.
- `TornDownIsAnnounced`: invalid and about to be disconnected are the same.
- `StopsOfHealthySessions`: for all faults, no handler, callback or entry point stops the
  process on a session that is not torn down, but for the parser of a message, the first
  request for the chat rooms, and the parsers of malformed replies. The stops on a session
  that is torn down are the findings below.
- `LoginAllOrNothing`: a session that is logged in has its timer and has begun the
  download of every avatar; a login reply cut short leaves it without either, never with
  some of them.
- `FramesAlign`: every request but one is as long as it declares, and so is its payload,
  whatever is in it.
- `BuddyGroupsExist`: `groups` is written at login only, so that removing a group and
  adding a buddy to it puts him into a group that is gone. The property says that
  this is the only case.
- `FramesInOrder`, `OnlyBehindException`: cutting, re-assigning and resetting the
  buffer under the loop never loses the place, and a frame waits without need only
  behind a bad one.
- `SoundArrives`, `LoneArrives`, `OwnTextArrives`: see the observations.
- `RoundsAdvance`: a lone text moves the offset back at most once, while it is read; from
  there on, and in a sound message always, each round brings the end nearer.
- `KeptUntilTold`: whatever breaks, the server gives up a message only after the user
  was shown it.
- `AskedAtMostTwice`, `ListIsFilledOnce`: a login asks about a request twice at most, also
  when the user answers in between; a list is filled twice only if he asked again too early.

### Fairness

`AsyncConn`: the writable callback, weakly. libpurple calls it for as long as it
is registered and the socket is writable; a peer that reads nothing for ever
without failing is excluded.

`Session`: the disconnect timeout and each keep-alive timer (libpurple runs what
is due), the end of a connection attempt (the operating system's timeout ends
one), and the two replies the login waits for. The last is an assumption on the
servers: the program has no timeout of its own for a server that accepts and
says nothing, so no weaker one gives `LoginResolves`. The liveness run leaves
malformed replies out, because a login reply cut short really does leave the
session undecided (`LoginMalformed`).

`Framing`: the loop runs on (one thread), and `read_cb` is called while the socket
is readable (libpurple's event loop). Nothing is assumed of the server.

`ChatMessage`: the loop runs on. `ParsingEnds` is about the loop's own progress.

`Conversation`: the server answers what it has received, and replies that have come
are handled, as `Framing` shows of frames without exceptions. Sessions may still end
at any time; `MailIsDelivered` promises nothing for those that do.

### Where code and documents disagree

1. `closeCallback` (1097): a comment announces the login over port 80, and
   control falls through into the error path, which deletes its connection.
2. `sendMessage` (768) and the other operations assert a valid session, which no
   entry point makes sure of; libpurple goes on showing the account as connected
   until the disconnect it has scheduled.
3. Malformed replies (334, 381) stop the process although CHANGELOG 0.3.1 says
   that the plugin is robust against them.
4. An attempt to the chat server that cannot start (348-357): the error path deletes
   `connection`, and `parseGkResponse` goes on to `connection->close()` through `NULL`,
   although CHANGELOG 0.3.2 says that login errors no longer do that. The run ends in
   that call: it asks for a bad pointer and not for any stop, of which the failing
   assertion behind the fallback to port 80 would be a shorter one.
5. `sendAcceptAddRequest` (1194, 1211) declares six bytes fewer than it writes.

### Observations no document speaks of

- `bytesToLEInt` joins signed bytes: a length of which a byte is 128 or more is read
  as negative, `readStringn` then takes all that is left, and the offset moves back by
  256 or 65536 against where it should be. A single text of this program mostly arrives
  all the same (`LoneArrives`), because the offset ends up before the message, which
  `isEnd` takes for its end, or at bytes that are no tag. But a text of 110 or 111 letters,
  or 128 more, and so on, puts it on the second or fourth byte of the message. There a
  text is found in a font of 3072 or some 200 million bytes, and the message is
  dropped without a word if it has fewer (`OwnTextArrives`).
- If it has more, letters are read as a length. ASCII letters give one that no message
  is long enough for. Others may give a negative one: `readStringn` takes the rest, which
  is an odd number of bytes, and `encode` asserts. A message of 1646 'é', which is nothing
  but long, ends the process of its reader; left in a mailbox it does so at every login.
- `LoneText` asks for a font with a name. Without one, texts of 116 and 118 letters (and 128 more, and so on)
  are read a second time from the second or sixth byte on, as a text of an odd number of
  bytes, which `encode` asserts against.
- With more than one segment everything can happen: the second is shown twice or
  lost, the conversion aborts on half a code unit, and a text of 27 letters followed by one of
  64, or a smiley followed by one of 102, is parsed for ever. `SoundArrives` and `ParsingEnds` say where this
  stops.
- Bytes that are no segment are skipped four at a time (`SkipUnknown`); two of them at
  the end drop the message.
- The same request to be added can be asked twice in one login, and both answered.
- The first request for the chat rooms gives up `roomlist` (47) before anything was
  ever assigned to it.
- An offline message that cannot be parsed blocks those behind it at every login; if
  it stops the process, then at every login too.

## Proofs

All are for every value of the constants that satisfy the named assumptions:
`BoundsAssumption`, `ConstantsAssumption`, `LengthsAssumption`,
`FramingAssumption`, `ConversationAssumption`, `MessagesAssumption`, which ask for no
more than types and, in `Session`, that `None` is not an id, in `Conversation`, that messages and requests
are different things.

`AsyncConnProofs`. The invariant adds to the checked properties `ArmedIsConnected`:
a writable callback comes only with a readable one, that one only with an open
socket, and neither with a pending attempt. `StreamIntegrity` needs
`PendingIsArmed`: a write given to the kernel at once extends `wire` by the new
bytes only, which is right only if nothing is queued then. Refinement follows from
the invariant by mapping `Establish` and the idle callback to stutters, `GotConnected` to
`Open`, `Write` to `Write`, the draining callback to `Deliver`, every closing step to `Close`.

`SessionProofs`. `IInv` joins the checked invariants with two that are not worth
a run of their own: `IdsAllocated` (every id in use is below the counter, and the
session's differs from its connection's), without which a fresh id could be one
that a stale callback holds, and `OfflineIsClean` (without a session the account is
offline, no disconnect is scheduled and no timer handle kept). `ValidOwnsConnection` and `OnlyOwnedCallsBack` are inductive only
together: an upcall is known to be the owned connection's by the second, and leaves
the session with a live connection by the first. The proof has a lemma for each
action; the handlers share lemmas for `NetworkError` and `Sends`. `LoginInv` is
`LoginAllOrNothing` with what it needs of the times before a login: a session not
logged in has no timer, and no download is of a login to come. `KeptAlive` assumes
that replies are well formed (`"badReply" \notin Faults`), without which it is false.
`HealthySessionsStop` is a conjunct of `IInv` too: each action either leaves `crashed`
alone, or is one of the three that the property names, or was entered with a valid
session, and then the stop comes after the `NetworkError` inside the handler.

`RequestsProofs`. One lemma for each builder, one that `Write` of well-formed
requests preserves the invariant, then a case for each action. `GroupsKnown`
strengthens `BuddyGroupsExist` by where a group of `groups` is: on the server, or
removed since the login.

`FramingProofs`. `FramesInOrder` is inductive once the ends of the frames are known to
grow by at least four: then only the frame behind the last one handled can be complete.
`NoneEnded`, that an open connection has handled nothing that ends it, is what makes
`NothingAfterTheEnd` inductive.

`ConversationProofs`. The refinement maps `kept` to mailbox and pending requests and
leaves the histories alone. `Known` says that everything kept, listed and prompted has
arrived, and that every deletion and answer under way, on this connection or a late one,
is about something shown or decided: the server's steps do what the queue says, so the
promise has to be kept by what is written into it. `Listed` is `RoomsFindAList` and that
requests and replies die with the session. `Shown` is `ShownOncePerLogin` and that there
is one listing of the mailbox in each login: a request for it, a reply with it, or the
messages seen.

`ConversationCounts` adds what is still coming to the user of one request to be added:
a listing not made yet, replies and prompts about it, and the request itself while it
has not arrived. No step makes it more (each trades one for another), a login
begins with at most two. What is counted is `prompted`, the times the login has asked,
which an answer does not lower. `ListIsFilledOnce` is inductive in the same way, since each
step trades a request for a reply and a reply for a filling. Queues are counted by sets
of positions, with lemmas for an appended entry, a tail and a concatenation.

`ChatMessageBytes`. The buffer is the segments one behind the other, each with its
bytes where `Ends` says. The recursive functions of the model are shown to satisfy their
equations, and concatenation to put every byte in its place, for messages of any number
of segments. The induction this takes is over a natural number and is done on
a set: were there numbers up to the length for which the claim fails, there would be a
least one, and it follows from its predecessor.

`ChatMessageProofs`. First what `bytesToLEInt` reads of the two bytes `intToSWord` writes:
sound lengths come back, and only they; a low byte from 128 on gives that byte less 256.
Then the parser, from `TypeInv`, by which the buffer remains the bytes of the message, so
that `ChatMessageBytes` says what every tag, length and code is read from.
`SoundInv` says that the offset is where a segment begins, or among stray bytes a multiple
of four further, and that what is shown is what the segments before it mean. It is
inductive because a round reads exactly one segment, or four stray bytes.
`LoneInv` says what a `SafeText` can come to: not read yet; shown; or shown and read again
(`Chain`). In the last case the offset is odd, since the 25 bytes around the name of the
font are, and stays odd in steps of four, the last of which ends with the buffer. Behind
the fourth byte every tag read at such an offset straddles lengths, the name of the font,
its description or letters, and none is 0 or 1: no two bytes of a letter are both zero,
and neither are two neighbours in `FontBytes`. No property of the letters is used but
that they are neither NUL nor half of a pair.
`OwnInv` is about `Struck`, the texts of this program that move the offset to the second or
fourth byte. Read from there, the bytes of `Dialog` give a font that is longer than any
message (`FourthByte`), or one of 3072 bytes (`SecondByte`). In the second case the bytes
read as a length are letters: if all are ASCII it is too long (`AsciiLength`); a negative
one leaves an odd number of bytes to `encode`; one that fits is even, because an odd one
aborts as well, and leads to an even offset, half a letter off. There no tag is found
(`HalfLetters`), and the message, whose length is odd, ends within one. From
`Landing` and the two bytes of the length follow the low bytes 220 and 222, and from the
3061 bytes it takes to have anything behind that font the 3292 of `OwnTextArrives`. The
three invariants together give `RoundsAdvance`, the part of `ParsingEnds` that is not about
fairness.

Only model-checked: liveness (`EveryByteLeaves`, `LoginResolves`, `TornDownIsClosed`,
`StaleTimersExpire`, `EveryFrameHandled`, `ParsingEnds`, `MailIsDelivered`), which
needs fairness and `ENABLED`. Every invariant and every action property a run checks is
a theorem. Of messages with several segments of which one is unsound nothing is claimed,
because nothing holds of them (see the observations).

## Not modelled

- Negative frame sizes (267). From the code: -1 to -3 leave the buffer misaligned,
  -4 hands the rest to the parser and stays where it is, and below that `substr` throws
  what nobody catches. A frame that overlaps others needs the contents of the bytes,
  which `Framing` only counts.
- Malformed replies of add requests and rooms; they raise the same exception as any
  other bad frame, after prompts or rooms were added.
- Reading over HTTP in mode 2: never reached, see `Session`.
- The value of the uninitialised `roomlist`, beyond that its use may stop the process.
- Presence, contact ids, mail counts, typing notifications received: they call
  libpurple and change nothing of the session but the texts it keeps for tooltips.
- Surrogates in the texts of `ChatMessage`: letters are single shorts there. A lone half of
  a pair, which other clients might send, is an unreadable message of `Conversation`.
- Characters: iconv's tables, the escaping of entities, `FontParser`; `seek`, `readShort`
  and `peek` of `MessageBuffer`.
- `alias_buddy` and the other entry points that only log or fill in tables.
- `response.h` (included nowhere) and the build files.

## Plan

1. `AsyncConn`, `Session`, `Requests` and their proofs – done.
2. `Framing`, `ChatMessage`, `Conversation`, `Deliveries`, the groups in `Requests`, and
   their proofs – done. The mailbox and the room list share `Conversation`, since both
   are requests and replies on one connection; the groups are in `Requests`, whose
   requests create them.
3. The lone text of `ChatMessage` for every length, any letters and, where the offset leaves
   the message, any font, and messages of sound lengths with any number of segments – done.
4. Left: frames with negative sizes, with a buffer of bytes; presence and status texts.
