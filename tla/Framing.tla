------------------------------- MODULE Framing -------------------------------
(***************************************************************************)
(* The incoming side of one connection: read_cb appends what a read brings *)
(* to `awaiting', and readCallback takes frames (a size and as many bytes) *)
(* off it while they are complete.  A frame is handed to parseGkResponse   *)
(* or parseCSResponse; what they do with it is Session and Requests, here  *)
(* it goes well, raises MessageBufferOverflowException, or ends the        *)
(* connection.                                                             *)
(*                                                                         *)
(* Bytes are counted, not stored.  One round of the loop is an action, and *)
(* nothing of this program runs between two rounds.                        *)
(***************************************************************************)
EXTENDS Integers, Sequences

CONSTANTS
  Sizes,       \* the sizes a frame announces, without its first four bytes
  ReadMax,     \* bytes of one read (1024 in read_cb)
  MaxFrames    \* bound: frames the server sends on one connection

ASSUME FramingAssumption ==
  Sizes \subseteq Nat /\ ReadMax \in Nat \ {0} /\ MaxFrames \in Nat

Kinds == {"ok", "bad", "ends"}
Frame == [end : Nat, kind : Kinds]

VARIABLES
  parseMode,   \* parse_mode: 1 on a gatekeeper connection, 0 on a chat connection
  frames,      \* history: the frames the server sent, as [end, kind]
  received,    \* bytes read from the socket so far
  start,       \* bytes taken off awaiting: its first byte is byte start + 1
  looping,     \* inside the loop of readCallback
  handled,     \* history: the frames handed to a parser, by number
  open         \* the connection object is alive and not closed

vars == <<parseMode, frames, received, start, looping, handled, open>>

\* The bytes of the first k frames.
End(k) == IF k = 0 THEN 0 ELSE frames[k].end
Sent   == End(Len(frames))

\* buffer.left().
Left == received - start

\* Fault: the size of the frame is not compared with what is left.
HeaderOnly(k) == End(k - 1) = start /\ Left >= 4

\* Fault: the comparison is strict.
OneMoreByte(k) == End(k - 1) = start /\ Left >= 4 /\ End(k) < received

\* Frame k is next and all of it is there: peekInt32() + 4 <= left().
Complete(k) == End(k - 1) = start /\ Left >= 4 /\ End(k) <= received

Init ==
  /\ parseMode \in {0, 1}
  /\ frames = <<>> /\ received = 0 /\ start = 0
  /\ looping = FALSE /\ handled = <<>> /\ open = TRUE

-----------------------------------------------------------------------------
\* The server sends a frame; the program may be anywhere.
ServerSends(size, kind) ==
  /\ open /\ Len(frames) < MaxFrames
  /\ frames' = Append(frames, [end |-> Sent + 4 + size, kind |-> kind])
  /\ UNCHANGED <<parseMode, received, start, looping, handled, open>>

\* read_cb with n bytes: awaiting.push, then readCallback begins.
Read(n) ==
  /\ open /\ ~looping
  /\ n <= Sent - received
  /\ received' = received + n
  /\ looping' = TRUE
  /\ UNCHANGED <<parseMode, frames, start, handled, open>>

\* Fault: the loop ends after a frame, whatever the connection.
OneFrame(k) == looping' = FALSE

\* What becomes of the loop after frame k: an exception leaves it, a parser that
\* closed the connection has set it to NULL, and the gatekeeper's is left by break.
LoopOn(k) == looping' = (frames[k].kind = "ok" /\ parseMode = 0)

\* Fault: the catch clause empties the buffer instead of going back to its start.
EmptyOnException(k) ==
  start' = IF frames[k].kind = "bad" THEN received ELSE End(k)

\* buffer = buffer.tail(), before the frame is parsed; buffer.reset() in the catch
\* clause goes back to the start of that tail.
TakeTail(k) == start' = End(k)

\* Fault: after the gatekeeper's answer its connection stays.
KeepGatekeeper(k) == open' = (frames[k].kind # "ends")

\* parseGkResponse replaces the connection; a reply that ends the session closes it.
Survives(k) == open' = (frames[k].kind # "ends" /\ ~(frames[k].kind = "ok" /\ parseMode = 1))

\* One round: readInt32, readMessageBuffer, tail and the parser.
HandleFrame(k) ==
  /\ looping
  /\ Complete(k)
  /\ handled' = Append(handled, k)
  /\ TakeTail(k) /\ LoopOn(k) /\ Survives(k)
  /\ UNCHANGED <<parseMode, frames, received>>

\* The condition of the loop, or the size it peeks at, says that it has to wait.
LoopEnds ==
  /\ looping
  /\ \A k \in 1..Len(frames) : ~Complete(k)
  /\ looping' = FALSE
  /\ UNCHANGED <<parseMode, frames, received, start, handled, open>>

\* read_cb with 0 or -1, and every close by the session between two callbacks.
Closes ==
  /\ open /\ ~looping
  /\ open' = FALSE
  /\ UNCHANGED <<parseMode, frames, received, start, looping, handled>>

Next ==
  \/ \E size \in Sizes, kind \in Kinds : ServerSends(size, kind)
  \/ \E n \in 1..ReadMax : Read(n)
  \/ \E k \in 1..Len(frames) : HandleFrame(k)
  \/ LoopEnds
  \/ Closes

Spec == Init /\ [][Next]_vars

\* The loop is not interrupted, and the event loop calls read_cb while the socket is
\* readable.
FairSpec ==
  /\ Spec
  /\ WF_vars(\E n \in 1..ReadMax : Read(n))
  /\ WF_vars(LoopEnds \/ \E k \in 1..Len(frames) : HandleFrame(k))

-----------------------------------------------------------------------------
\* The variables keep their types, and no more is taken off the buffer than was read.
TypeOK ==
  /\ parseMode \in {0, 1}
  /\ frames \in Seq(Frame)
  /\ received \in Nat /\ start \in 0..received
  /\ looping \in BOOLEAN /\ open \in BOOLEAN
  /\ handled \in Seq(Nat)

\* However the bytes are cut into reads and wherever an exception is raised, every
\* frame is handed over once, in the order in which it was sent, and the buffer
\* begins with the next frame: a frame is never taken in the middle.
FramesInOrder ==
  /\ \A i \in 1..Len(handled) : handled[i] = i
  /\ start = End(Len(handled)) /\ Len(handled) <= Len(frames)
  /\ received <= Sent

\* Between two callbacks a complete frame waits in the buffer of an open connection
\* only if the frame before it raised an exception: readCallback leaves the loop
\* there and looks at the buffer again only when a read brings more.
OnlyBehindException ==
  open /\ ~looping /\ (\E k \in 1..Len(frames) : Complete(k)) =>
    handled # <<>> /\ frames[Len(handled)].kind = "bad"

\* Nothing is parsed behind a frame that ended the connection, and on the gatekeeper's
\* connection nothing behind the answer that replaced it ("the message buffer is no
\* longer valid").
NothingAfterTheEnd ==
  \A i \in 1..Len(handled) - 1 :
    frames[i].kind # "ends" /\ (parseMode = 1 => frames[i].kind = "bad")

\* All that was sent has been read and the last frame handled was a bad one, so that
\* no read will wake the frames that wait behind it.
Stranded ==
  /\ ~looping /\ received = Sent
  /\ handled # <<>> /\ frames[Len(handled)].kind = "bad"

\* Every frame is handled unless the connection goes or the frames are stranded.
EveryFrameHandled ==
  \A k \in 1..MaxFrames :
    Len(frames) >= k ~> Len(handled) >= k \/ ~open \/ Stranded
=============================================================================
