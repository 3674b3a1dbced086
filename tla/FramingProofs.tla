--------------------------- MODULE FramingProofs ---------------------------
(***************************************************************************)
(* The safety properties of Framing, for all frame sizes, all sizes of a   *)
(* read and any number of frames.                                          *)
(***************************************************************************)
EXTENDS Framing, TLAPS

\* The frames lie one behind the other, each with at least its size field.
Laid ==
  \A i, j \in 0..Len(frames) : i < j => End(i) + 4 <= End(j)

\* The loop runs on a live connection only.
LoopIsOpen == looping => open

\* While the connection is open nothing was handled that closes it.
NoneEnded ==
  open => \A i \in 1..Len(handled) :
            frames[i].kind # "ends" /\ (parseMode = 1 => frames[i].kind = "bad")

IInv ==
  /\ TypeOK /\ FramesInOrder /\ Laid /\ LoopIsOpen /\ NoneEnded
  /\ NothingAfterTheEnd /\ OnlyBehindException

\* A frame that was sent has an end and a kind.
LEMMA FrameTypes ==
  ASSUME TypeOK, NEW k \in 1..Len(frames)
  PROVE  frames[k].end \in Nat /\ frames[k].kind \in Kinds
<1>1. frames[k] \in Frame
  BY DEF TypeOK
<1> QED
  BY <1>1 DEF Frame

\* An end is a number; sending a frame leaves those before it where they are.
LEMMA EndIsNat ==
  ASSUME TypeOK, NEW k \in 0..Len(frames)
  PROVE  End(k) \in Nat
  BY FrameTypes DEF End

LEMMA EndStays ==
  ASSUME TypeOK, NEW f, frames' = Append(frames, f), NEW k \in 0..Len(frames)
  PROVE  End(k)' = End(k)
  BY DEF TypeOK, End

\* The only complete frame is the one behind those already handled.
LEMMA NextFrame ==
  ASSUME TypeOK, FramesInOrder, Laid, NEW k \in 1..Len(frames), Complete(k)
  PROVE  k = Len(handled) + 1
<1>1. Len(handled) \in 0..Len(frames) /\ k - 1 \in 0..Len(frames)
  BY DEF TypeOK, FramesInOrder
<1>2. End(k - 1) = End(Len(handled))
  BY DEF Complete, FramesInOrder
<1>3. End(k - 1) \in Nat /\ End(Len(handled)) \in Nat
  BY <1>1, EndIsNat
<1>4. ~(k - 1 < Len(handled)) /\ ~(Len(handled) < k - 1)
  BY <1>1, <1>2, <1>3 DEF Laid
<1> QED
  BY <1>1, <1>4

LEMMA InitInv == Init => IInv
<1> SUFFICES ASSUME Init PROVE IInv
  OBVIOUS
<1>1. /\ frames = <<>> /\ handled = <<>> /\ received = 0 /\ start = 0
      /\ looping = FALSE /\ open = TRUE /\ parseMode \in {0, 1}
  BY DEF Init
<1>2. Len(frames) = 0 /\ Len(handled) = 0 /\ End(0) = 0 /\ Sent = 0
  BY <1>1 DEF End, Sent
<1>3. TypeOK
  <2>1. <<>> \in Seq(Frame) /\ <<>> \in Seq(Nat)
    OBVIOUS
  <2>2. looping \in BOOLEAN /\ open \in BOOLEAN
    BY <1>1
  <2>3. received \in Nat /\ start \in 0..received
    BY <1>1
  <2> QED
    BY <1>1, <2>1, <2>2, <2>3 DEF TypeOK
<1>4. FramesInOrder /\ Laid /\ LoopIsOpen
  BY <1>1, <1>2 DEF FramesInOrder, Laid, LoopIsOpen
<1>5. NoneEnded /\ NothingAfterTheEnd /\ OnlyBehindException
  BY <1>2 DEF NoneEnded, NothingAfterTheEnd, OnlyBehindException
<1> QED
  BY <1>3, <1>4, <1>5 DEF IInv

LEMMA SendInv ==
  ASSUME IInv, FramingAssumption, NEW size \in Sizes, NEW kind \in Kinds, ServerSends(size, kind)
  PROVE  IInv'
<1> DEFINE f == [end |-> Sent + 4 + size, kind |-> kind]
<1>1. TypeOK /\ FramesInOrder /\ Laid
  BY DEF IInv
<1>2. frames' = Append(frames, f) /\ size \in Nat
  BY DEF ServerSends, FramingAssumption
<1>3. Len(frames) \in Nat /\ Len(frames)' = Len(frames) + 1 /\ Sent \in Nat
  BY <1>1, <1>2, EndIsNat DEF TypeOK, Sent
<1>4. \A k \in 0..Len(frames) : End(k)' = End(k) /\ End(k) \in Nat
  BY <1>1, <1>2, EndStays, EndIsNat
<1>5. \A k \in 1..Len(frames) : frames'[k] = frames[k]
  BY <1>1, <1>2 DEF TypeOK
<1>6. \A j \in Nat : j = Len(frames) + 1 => End(j)' = Sent + 4 + size
  <2>1. frames'[Len(frames) + 1] = f
    BY <1>1, <1>2 DEF TypeOK
  <2> QED
    BY <1>3, <2>1 DEF End
<1>7. TypeOK'
  <2>1. f \in Frame
    BY <1>2, <1>3 DEF Frame
  <2> QED
    BY <1>1, <1>2, <2>1 DEF TypeOK, ServerSends
<1>8. FramesInOrder'
  <2>1. Len(handled) \in 0..Len(frames)
    BY <1>1 DEF TypeOK, FramesInOrder
  <2>2. received \in Nat /\ received' = received /\ start' = start /\ handled' = handled
    BY <1>1 DEF TypeOK, ServerSends
  <2>3. Sent' = Sent + 4 + size
    <3>1. frames'[Len(frames) + 1] = f
      BY <1>1, <1>2 DEF TypeOK
    <3> QED
      BY <1>3, <3>1 DEF Sent, End
  <2> QED
    BY <1>1, <1>2, <1>3, <1>4, <2>1, <2>2, <2>3 DEF FramesInOrder
<1>9. Laid'
  <2> SUFFICES ASSUME NEW i \in 0..Len(frames)', NEW j \in 0..Len(frames)', i < j
               PROVE  End(i)' + 4 <= End(j)'
    BY DEF Laid
  <2>1. i \in 0..Len(frames)
    BY <1>3
  <2>2. CASE j \in 0..Len(frames)
    BY <1>1, <1>4, <2>1, <2>2 DEF Laid
  <2>3. CASE j = Len(frames) + 1
    <3>1. End(i) <= Sent
      BY <1>1, <1>3, <1>4, <2>1 DEF Laid, Sent
    <3> QED
      BY <1>2, <1>3, <1>4, <1>6, <2>1, <2>3, <3>1
  <2> QED
    BY <1>3, <2>2, <2>3
<1>10. LoopIsOpen'
  BY DEF IInv, LoopIsOpen, ServerSends
<1>11. Len(handled) \in 0..Len(frames) /\ handled' = handled /\ open' = open
       /\ looping' = looping /\ parseMode' = parseMode
  BY <1>1 DEF TypeOK, FramesInOrder, ServerSends
<1>12. NoneEnded' /\ NothingAfterTheEnd'
  BY <1>3, <1>5, <1>11 DEF IInv, NoneEnded, NothingAfterTheEnd
<1>13. OnlyBehindException'
  <2> SUFFICES ASSUME open, ~looping, NEW k \in 1..Len(frames)', Complete(k)'
               PROVE  handled # <<>> /\ frames'[Len(handled)].kind = "bad"
    BY <1>11 DEF OnlyBehindException
  <2>1. k \in 1..Len(frames)
    <3>1. received \in Nat /\ received' = received /\ received <= Sent
      BY <1>1 DEF TypeOK, FramesInOrder, ServerSends
    <3> QED
      BY <1>2, <1>3, <1>6, <3>1 DEF Complete
  <2>2. Complete(k)
    <3>1. k - 1 \in 0..Len(frames) /\ k \in 0..Len(frames)
      BY <1>3, <2>1
    <3> QED
      BY <1>4, <3>1 DEF Complete, Left, ServerSends
  <2>3. handled # <<>> /\ frames[Len(handled)].kind = "bad"
    BY <2>1, <2>2 DEF IInv, OnlyBehindException
  <2>4. Len(handled) \in 1..Len(frames)
    BY <1>1, <1>11, <2>3 DEF TypeOK
  <2> QED
    BY <1>5, <2>3, <2>4
<1> QED
  BY <1>7, <1>8, <1>9, <1>10, <1>12, <1>13 DEF IInv

LEMMA ReadInv ==
  ASSUME IInv, FramingAssumption, NEW n \in 1..ReadMax, Read(n)
  PROVE  IInv'
<1>1. TypeOK /\ FramesInOrder /\ Sent \in Nat
  BY EndIsNat DEF IInv, Sent, TypeOK
<1>2. /\ parseMode' = parseMode /\ frames' = frames /\ start' = start /\ handled' = handled
      /\ open' = open /\ open /\ looping' = TRUE
      /\ received' = received + n /\ n <= Sent - received /\ n \in Nat
  BY DEF Read, FramingAssumption
<1>3. TypeOK'
  BY <1>1, <1>2 DEF TypeOK
<1>4. FramesInOrder'
  BY <1>1, <1>2 DEF TypeOK, FramesInOrder, End, Sent
<1>5. Laid' /\ NoneEnded' /\ NothingAfterTheEnd'
  BY <1>2 DEF IInv, Laid, NoneEnded, NothingAfterTheEnd, End
<1>6. LoopIsOpen' /\ OnlyBehindException'
  BY <1>2 DEF LoopIsOpen, OnlyBehindException
<1> QED
  BY <1>3, <1>4, <1>5, <1>6 DEF IInv

LEMMA HandleInv ==
  ASSUME IInv, NEW k \in 1..Len(frames), HandleFrame(k)
  PROVE  IInv'
<1>1. TypeOK /\ FramesInOrder /\ Laid /\ Complete(k)
  BY DEF IInv, HandleFrame
<1>2. k = Len(handled) + 1
  BY <1>1, NextFrame
<1>3. /\ parseMode' = parseMode /\ frames' = frames /\ received' = received
      /\ handled' = Append(handled, k) /\ start' = End(k)
      /\ looping' = (frames[k].kind = "ok" /\ parseMode = 0)
      /\ open' = (frames[k].kind # "ends" /\ ~(frames[k].kind = "ok" /\ parseMode = 1))
  BY DEF HandleFrame, TakeTail, LoopOn, Survives
<1>4. /\ End(k) \in Nat /\ End(k) <= received /\ received \in Nat
      /\ Len(handled) \in Nat /\ Len(handled)' = k /\ handled'[k] = k
      /\ \A i \in 1..Len(handled) : handled'[i] = handled[i]
  BY <1>1, <1>2, <1>3, EndIsNat DEF TypeOK, Complete
<1>5. frames[k].kind \in Kinds /\ parseMode \in {0, 1}
  BY <1>1, FrameTypes DEF TypeOK
<1>6. TypeOK'
  BY <1>1, <1>3, <1>4 DEF TypeOK
<1>7. FramesInOrder'
  BY <1>1, <1>2, <1>3, <1>4 DEF FramesInOrder, End, Sent
<1>8. Laid'
  BY <1>1, <1>3 DEF Laid, End
<1>9. LoopIsOpen'
  <2>1. looping' => frames[k].kind = "ok" /\ parseMode = 0
    BY <1>3
  <2>2. frames[k].kind = "ok" /\ parseMode = 0 => open'
    <3>1. "ok" # "ends" /\ 0 # 1
      OBVIOUS
    <3> QED
      BY <1>3, <3>1, Zenon
  <2> QED
    BY <2>1, <2>2 DEF LoopIsOpen
<1>10. open
  BY DEF IInv, LoopIsOpen, HandleFrame
<1>11. \A i \in 1..Len(handled) :
         frames[i].kind # "ends" /\ (parseMode = 1 => frames[i].kind = "bad")
  BY <1>10 DEF IInv, NoneEnded
<1>12. NothingAfterTheEnd'
  BY <1>2, <1>3, <1>4, <1>11 DEF NothingAfterTheEnd
<1>13. NoneEnded'
  <2>1. open' => frames[k].kind # "ends" /\ ~(frames[k].kind = "ok" /\ parseMode = 1)
    BY <1>3
  <2>2. open' => frames[k].kind # "ends" /\ (parseMode = 1 => frames[k].kind = "bad")
    BY <1>5, <2>1 DEF Kinds
  <2>3. \A i \in 1..Len(handled)' : i \in 1..Len(handled) \/ i = k
    BY <1>2, <1>4
  <2> QED
    BY <1>3, <1>11, <2>2, <2>3 DEF NoneEnded
<1>14. OnlyBehindException'
  <2> SUFFICES ASSUME open', ~looping'
               PROVE  handled' # <<>> /\ frames'[Len(handled)'].kind = "bad"
    BY DEF OnlyBehindException
  <2>1. frames[k].kind = "bad"
    BY <1>3, <1>5 DEF Kinds
  <2> QED
    BY <1>1, <1>3, <1>4, <2>1 DEF TypeOK
<1> QED
  BY <1>6, <1>7, <1>8, <1>9, <1>12, <1>13, <1>14 DEF IInv

LEMMA LoopEndsInv == ASSUME IInv, LoopEnds PROVE IInv'
  BY DEF IInv, LoopEnds, TypeOK, FramesInOrder, Laid, LoopIsOpen, NoneEnded,
         NothingAfterTheEnd, OnlyBehindException, End, Sent, Complete, Left

LEMMA ClosesInv == ASSUME IInv, Closes PROVE IInv'
  BY DEF IInv, Closes, TypeOK, FramesInOrder, Laid, LoopIsOpen, NoneEnded,
         NothingAfterTheEnd, OnlyBehindException, End, Sent

LEMMA StutterInv == ASSUME IInv, UNCHANGED vars PROVE IInv'
  BY DEF IInv, vars, TypeOK, FramesInOrder, Laid, LoopIsOpen, NoneEnded,
         NothingAfterTheEnd, OnlyBehindException, End, Sent, Complete, Left

\* Every reachable state satisfies the inductive invariant.
THEOREM Invariance == Spec => []IInv
<1>1. IInv /\ [Next]_vars => IInv'
  <2> SUFFICES ASSUME IInv, [Next]_vars PROVE IInv'
    OBVIOUS
  <2>1. ASSUME NEW size \in Sizes, NEW kind \in Kinds, ServerSends(size, kind) PROVE IInv'
    BY <2>1, SendInv, FramingAssumption
  <2>2. ASSUME NEW n \in 1..ReadMax, Read(n) PROVE IInv'
    BY <2>2, ReadInv, FramingAssumption
  <2>3. ASSUME NEW k \in 1..Len(frames), HandleFrame(k) PROVE IInv'
    BY <2>3, HandleInv
  <2>4. CASE LoopEnds
    BY <2>4, LoopEndsInv
  <2>5. CASE Closes
    BY <2>5, ClosesInv
  <2>6. CASE UNCHANGED vars
    BY <2>6, StutterInv
  <2> QED
    BY <2>1, <2>2, <2>3, <2>4, <2>5, <2>6 DEF Next
<1> QED
  BY InitInv, <1>1, PTL DEF Spec

\* The variables keep their types, and no more is taken off the buffer than was read.
THEOREM TypeCorrect == Spec => []TypeOK
<1>1. IInv => TypeOK
  BY DEF IInv
<1> QED
  BY Invariance, <1>1, PTL

\* Frames are handed over once, whole and in the order in which they were sent.
THEOREM InOrder == Spec => []FramesInOrder
<1>1. IInv => FramesInOrder
  BY DEF IInv
<1> QED
  BY Invariance, <1>1, PTL

\* A complete frame waits on an open connection only behind one that raised an
\* exception.
THEOREM WaitsBehindException == Spec => []OnlyBehindException
<1>1. IInv => OnlyBehindException
  BY DEF IInv
<1> QED
  BY Invariance, <1>1, PTL

\* Nothing is parsed behind the frame that ended or replaced the connection.
THEOREM EndIsLast == Spec => []NothingAfterTheEnd
<1>1. IInv => NothingAfterTheEnd
  BY DEF IInv
<1> QED
  BY Invariance, <1>1, PTL
=============================================================================
