------------------------------ MODULE AsyncConn ------------------------------
(***************************************************************************)
(* PurpleAsyncConn (conn.cpp): one non-blocking TCP connection driven by   *)
(* the callbacks of libpurple's event loop.  The object registers its id,  *)
(* not its address, with libpurple, writes straight to the socket while it *)
(* can, queues the rest in txbuf and drains it from a writable callback.   *)
(*                                                                         *)
(* Every callback runs to completion, so an action is a whole callback (or *)
(* a whole call by the owner).  A byte is its position in the stream, so   *)
(* that a lost, repeated or reordered byte shows.  What a read delivers is *)
(* the session's business; here a read matters when it ends the stream.    *)
(***************************************************************************)
EXTENDS SequencesExt

CONSTANTS
  MaxBytes,   \* bound: bytes the owner hands over in one connection
  MaxWrite    \* bound: bytes of one write() call

ASSUME BoundsAssumption == MaxBytes \in Nat /\ MaxWrite \in Nat \ {0}

VARIABLES
  invalid,    \* RObject::invalid
  attempt,    \* connection_attempt_data # NULL
  fd,         \* "unset" (-1), "open", or "closed" (0)
  rx, tx,     \* rx_handler # 0, tx_handler # 0
  txbuf,      \* the circular buffer; <<>> once it is destroyed
  accepted,   \* history: bytes of the write() calls that did not fail
  wire,       \* history: bytes the kernel took
  upcalls     \* history: terminal upcalls made to the owner

vars == <<invalid, attempt, fd, rx, tx, txbuf, accepted, wire, upcalls>>

\* The constructor, up to the owner's call of establish_connection.
Init ==
  /\ invalid = FALSE /\ attempt = FALSE /\ fd = "unset"
  /\ rx = FALSE /\ tx = FALSE /\ txbuf = <<>>
  /\ accepted = <<>> /\ wire = <<>> /\ upcalls = <<>>

\* Fault: the writable callback outlives the connection.
CloseKeepsTx ==
  /\ invalid' = TRUE /\ attempt' = FALSE
  /\ fd' = IF fd = "open" THEN "closed" ELSE fd
  /\ txbuf' = <<>> /\ rx' = FALSE /\ UNCHANGED tx

(***************************************************************************)
(* close(): invalidates the object, cancels a pending attempt, closes the  *)
(* socket, drops the buffer and removes both input handlers.  It does all  *)
(* of it again, without effect, when the destructor follows.               *)
(* Assumed of libpurple and the kernel: purple_input_get_error succeeds on *)
(* an open socket; where it does not, the code leaves the socket open.     *)
(***************************************************************************)
Close ==
  /\ invalid' = TRUE
  /\ attempt' = FALSE
  /\ fd' = IF fd = "open" THEN "closed" ELSE fd
  /\ txbuf' = <<>>
  /\ tx' = FALSE
  /\ rx' = FALSE

\* Fault: the owner is told, the connection stays as it was.
TellOnly(upcall) ==
  /\ upcalls' = Append(upcalls, upcall)
  /\ UNCHANGED <<invalid, attempt, fd, rx, tx, txbuf, accepted, wire>>

\* close(), then one of HANDLER's three terminal upcalls.  The owner's id still
\* resolves: an owner deletes its connection before it goes (see Session).
CloseAndTell(upcall) ==
  /\ Close
  /\ upcalls' = Append(upcalls, upcall)
  /\ UNCHANGED <<accepted, wire>>

-----------------------------------------------------------------------------
\* establish_connection; the assertion is its "try to ensure this is called
\* only once".  purple_proxy_connect answers later or, on NULL, never.
Establish ==
  /\ fd = "unset" /\ ~attempt /\ ~invalid
  /\ ~rx /\ ~tx
  /\ attempt' = TRUE
  /\ UNCHANGED <<invalid, fd, rx, tx, txbuf, accepted, wire, upcalls>>

\* got_connected_cb with a socket.
GotConnected ==
  /\ attempt
  /\ attempt' = FALSE
  /\ fd' = "open"
  /\ rx' = TRUE
  /\ UNCHANGED <<invalid, tx, txbuf, accepted, wire, upcalls>>

\* got_connected_cb with source < 0.
ConnectFailed == attempt /\ CloseAndTell("connectionError")

-----------------------------------------------------------------------------
Chunk(n) == [i \in 1..n |-> Len(accepted) + i]

\* Fault: write() tries the socket although earlier bytes are queued.
TakenOvertaking(n) == 0..n

\* How many of n bytes write() gives to the kernel at once: none when a
\* writable callback is armed (or on EAGAIN), else what the socket takes.
TakenAtOnce(n) == IF tx THEN {0} ELSE 0..n

\* write(data, n) that does not fail: what the kernel did not take is queued
\* and the writable callback armed.  The owner writes once it is connected.
Write(n, k) ==
  /\ ~invalid /\ rx
  /\ Len(accepted) + n <= MaxBytes
  /\ k \in TakenAtOnce(n)
  /\ accepted' = accepted \o Chunk(n)
  /\ wire' = wire \o SubSeq(Chunk(n), 1, k)
  /\ txbuf' = txbuf \o SubSeq(Chunk(n), k + 1, n)
  /\ tx' = IF k < n THEN TRUE ELSE tx
  /\ UNCHANGED <<invalid, attempt, fd, rx, upcalls>>

\* Fault: the owner is told of an end it has no upcall for.
WriteFailsUnheard == ~invalid /\ rx /\ ~tx /\ CloseAndTell("writeError")

\* write() whose ::write fails (never attempted while tx is armed).
WriteFails == ~invalid /\ rx /\ ~tx /\ CloseAndTell("readError")

\* Fault: the callback disarms without looking at the buffer.
DisarmEagerly ==
  /\ tx /\ tx' = FALSE
  /\ UNCHANGED <<invalid, attempt, fd, rx, txbuf, accepted, wire, upcalls>>

\* write_cb on an empty buffer: disarm.
WriteCbIdle ==
  /\ tx /\ txbuf = <<>>
  /\ tx' = FALSE
  /\ UNCHANGED <<invalid, attempt, fd, rx, txbuf, accepted, wire, upcalls>>

\* Fault: what was offered is marked as read, not what was taken.
MarksOffered(k) ==
  /\ tx /\ k \in 1..Len(txbuf)
  /\ wire' = wire \o SubSeq(txbuf, 1, k)
  /\ txbuf' = <<>>
  /\ UNCHANGED <<invalid, attempt, fd, rx, tx, accepted, upcalls>>

\* write_cb: the kernel takes some of the contiguous part of the buffer.  On
\* EAGAIN nothing changes.
WriteCbTakes(k) ==
  /\ tx /\ k \in 1..Len(txbuf)
  /\ wire' = wire \o SubSeq(txbuf, 1, k)
  /\ txbuf' = SubSeq(txbuf, k + 1, Len(txbuf))
  /\ UNCHANGED <<invalid, attempt, fd, rx, tx, accepted, upcalls>>

WriteCbFails == tx /\ txbuf # <<>> /\ CloseAndTell("readError")

\* read_cb that gets an error other than EAGAIN, or the end of the stream.
ReadFails == rx /\ CloseAndTell("readError")
ReadEof   == rx /\ CloseAndTell("closeCallback")

-----------------------------------------------------------------------------
\* The owner closes or deletes the connection.
OwnerCloses == ~invalid /\ Close /\ UNCHANGED <<accepted, wire, upcalls>>

WriteCb == WriteCbIdle \/ \E k \in 1..Len(txbuf) : WriteCbTakes(k)

Next ==
  \/ Establish \/ GotConnected \/ ConnectFailed
  \/ \E n \in 1..MaxWrite : \E k \in 0..n : Write(n, k)
  \/ WriteFails
  \/ WriteCbIdle
  \/ \E k \in 1..Len(txbuf) : WriteCbTakes(k)
  \/ WriteCbFails
  \/ ReadFails \/ ReadEof \/ OwnerCloses

Spec == Init /\ [][Next]_vars

\* The event loop calls back a writable socket for as long as the callback is
\* armed, and the peer goes on reading (or the socket fails).
FairSpec == Spec /\ WF_vars(WriteCb \/ WriteCbFails)

-----------------------------------------------------------------------------
Upcalls == {"connectionError", "readError", "closeCallback"}

TypeOK ==
  /\ invalid \in BOOLEAN /\ attempt \in BOOLEAN
  /\ rx \in BOOLEAN /\ tx \in BOOLEAN
  /\ fd \in {"unset", "open", "closed"}
  /\ txbuf \in Seq(Nat) /\ accepted \in Seq(Nat) /\ wire \in Seq(Nat)
  /\ upcalls \in Seq(Upcalls)

\* The owner's bytes leave in the order they were handed over: while the
\* connection is valid, what the kernel took followed by what is queued is
\* exactly what was accepted (write() must not overtake the queue).
StreamIntegrity == ~invalid => wire \o txbuf = accepted

\* Queued bytes always have a writable callback to drain them: no path queues
\* without arming, or disarms with bytes left.
PendingIsArmed == txbuf # <<>> => tx

\* A connection that was closed, by any path, has nothing registered with the
\* event loop and no socket left open (its id may be called back no more).
\* It rests on what is assumed at Close.
ClosedIsQuiet == invalid => ~attempt /\ ~rx /\ ~tx /\ fd # "open"

\* The owner hears of the end at most once, and only of a connection that is
\* already closed: its upcall deletes the object on the spot.
ToldOnce == Len(upcalls) <= 1 /\ (upcalls # <<>> => invalid)

\* What the connection promises its owner.
Stream == INSTANCE ByteStream WITH
  in <- accepted, out <- wire,
  st <- IF invalid THEN "closed" ELSE IF rx THEN "open" ELSE "new"

\* Every step of the connection is a step of the byte stream.
ImplementsStream == Stream!Safety

\* Every byte handed over is sent or the connection ends: no byte waits in the
\* queue for ever.
EveryByteLeaves == \A n \in 1..MaxBytes : Stream!Delivered(n)
=============================================================================
