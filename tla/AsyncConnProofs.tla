--------------------------- MODULE AsyncConnProofs ---------------------------
(***************************************************************************)
(* Proofs about AsyncConn for every MaxBytes and MaxWrite: its invariants, *)
(* and that each of its steps is a step of ByteStream.                     *)
(***************************************************************************)
EXTENDS AsyncConn, SequenceTheorems, TLAPS

\* The handlers are registered on a socket: the writable callback only with the
\* readable one, which got_connected_cb registers when the attempt is over.
ArmedIsConnected == (tx => rx) /\ (attempt => ~rx) /\ (rx => fd = "open")

\* The inductive invariant.  Order (StreamIntegrity) rests on the arming rule:
\* a write that goes straight to the socket finds the queue empty only because
\* a queue that is not empty is armed.
IInv ==
  /\ TypeOK
  /\ StreamIntegrity
  /\ PendingIsArmed
  /\ ClosedIsQuiet
  /\ ToldOnce
  /\ ArmedIsConnected

\* Cutting a sequence in two and joining the parts again gives it back.
LEMMA CutAndJoin ==
  ASSUME NEW s \in Seq(Nat), NEW k \in 0..Len(s)
  PROVE  /\ SubSeq(s, 1, k) \in Seq(Nat)
         /\ SubSeq(s, k + 1, Len(s)) \in Seq(Nat)
         /\ SubSeq(s, 1, k) \o SubSeq(s, k + 1, Len(s)) = s
         /\ Len(SubSeq(s, 1, k)) = k
<1>1. \A i \in 1..Len(s) : s[i] \in Nat
  BY ElementOfSeq
<1>2. SubSeq(s, 1, k) \in Seq(Nat) /\ Len(SubSeq(s, 1, k)) = IF 1 <= k THEN k ELSE 0
  BY <1>1, SubSeqProperties
<1>3. SubSeq(s, k + 1, Len(s)) \in Seq(Nat)
  BY <1>1, SubSeqProperties
<1>4. SubSeq(s, 1, k) \o SubSeq(s, k + 1, Len(s)) = s
  <2>1. k \in 1 - 1..Len(s) /\ 1 \in 1..Len(s) + 1 /\ Len(s) \in k..Len(s)
    OBVIOUS
  <2>2. SubSeq(s, 1, k) \o SubSeq(s, k + 1, Len(s)) = SubSeq(s, 1, Len(s))
    BY <2>1, ConcatAdjacentSubSeq
  <2>3. QED
    BY <2>2, SubSeqFull
<1>5. Len(SubSeq(s, 1, k)) = k
  <2>1. k \in Nat
    OBVIOUS
  <2>2. QED
    BY <1>2, <2>1
<1>6. QED
  BY <1>2, <1>3, <1>4, <1>5

\* Concatenation of byte sequences is associative.
LEMMA Joined ==
  ASSUME NEW s \in Seq(Nat), NEW t \in Seq(Nat), NEW u \in Seq(Nat)
  PROVE  (s \o t) \o u = s \o (t \o u)
BY ConcatAssociative, SMTT(30)

\* What is appended to a sequence leaves it a prefix.
LEMMA PrefixOfConcat ==
  ASSUME NEW s \in Seq(Nat), NEW t \in Seq(Nat)
  PROVE  IsPrefix(s, s \o t)
<1>1. /\ s \o t \in Seq(Nat)
      /\ Len(s \o t) = Len(s) + Len(t)
      /\ \A i \in 1..Len(s) : (s \o t)[i] = s[i]
  BY ConcatProperties
<1>2. \A i \in 1..Len(s) : s[i] \in Nat
  BY ElementOfSeq
<1>3. SubSeq(s, 1, Len(s)) = s
  BY SubSeqFull
<1>4. /\ SubSeq(s \o t, 1, Len(s)) \in Seq(Nat)
      /\ Len(SubSeq(s \o t, 1, Len(s))) = Len(s)
      /\ \A i \in 1..Len(s) : SubSeq(s \o t, 1, Len(s))[i] = s[i]
  <2>1. \A i \in 1..Len(s) : (s \o t)[i] \in Nat
    BY <1>1, <1>2
  <2>2. /\ SubSeq(s \o t, 1, Len(s)) \in Seq(Nat)
        /\ Len(SubSeq(s \o t, 1, Len(s))) = IF 1 <= Len(s) THEN Len(s) ELSE 0
        /\ \A i \in 1..Len(s) : SubSeq(s \o t, 1, Len(s))[i] = (s \o t)[i]
    BY <2>1, SubSeqProperties
  <2>3. QED
    BY <1>1, <2>2
<1>5. SubSeq(s \o t, 1, Len(s)) = s
  BY <1>4, SeqEqual
<1>6. QED
  BY <1>1, <1>3, <1>5 DEF IsPrefix

\* A chunk is a sequence of n byte positions.
LEMMA ChunkType ==
  ASSUME NEW n \in Nat, accepted \in Seq(Nat)
  PROVE  Chunk(n) \in Seq(Nat) /\ Len(Chunk(n)) = n
<1>1. \A i \in 1..n : Len(accepted) + i \in Nat
  OBVIOUS
<1>2. QED
  BY <1>1 DEF Chunk

LEMMA InitIInv == Init => IInv
<1>1. /\ <<>> \in Seq(Nat) /\ <<>> \in Seq(Upcalls)
      /\ <<>> \o <<>> = <<>> /\ Len(<<>>) = 0
  BY ConcatEmptySeq, EmptySeq
<1>2. Init => TypeOK
  BY <1>1 DEF Init, TypeOK
<1>3. Init => StreamIntegrity /\ PendingIsArmed
  BY <1>1 DEF Init, StreamIntegrity, PendingIsArmed
<1>4. Init => ClosedIsQuiet /\ ToldOnce /\ ArmedIsConnected
  BY <1>1 DEF Init, ClosedIsQuiet, ToldOnce, ArmedIsConnected
<1>5. QED
  BY <1>2, <1>3, <1>4 DEF IInv

\* Every way to close makes the invariant true again.
LEMMA CloseIInv ==
  ASSUME IInv, ~invalid, NEW u \in Upcalls,
         \/ CloseAndTell(u)
         \/ Close /\ UNCHANGED <<accepted, wire, upcalls>>
  PROVE  IInv'
<1>1. upcalls = <<>>
  BY DEF IInv, TypeOK, ToldOnce
<1>2. upcalls' \in Seq(Upcalls) /\ Len(upcalls') <= 1
  <2>1. <<>> \in Seq(Upcalls) /\ Len(<<>>) = 0
    BY EmptySeq
  <2>2. CASE CloseAndTell(u)
    <3>1. upcalls' = Append(upcalls, u)
      BY <2>2 DEF CloseAndTell
    <3>2. QED
      BY <1>1, <2>1, <3>1, AppendProperties
  <2>3. CASE UNCHANGED upcalls
    BY <1>1, <2>1, <2>3
  <2>4. QED
    BY <2>2, <2>3
<1>3. TypeOK'
  BY <1>2, EmptySeq DEF IInv, TypeOK, CloseAndTell, Close
<1>4. StreamIntegrity' /\ PendingIsArmed' /\ ClosedIsQuiet' /\ ToldOnce' /\ ArmedIsConnected'
  BY <1>2 DEF IInv, TypeOK, StreamIntegrity, PendingIsArmed, ClosedIsQuiet, ToldOnce, ArmedIsConnected,
              CloseAndTell, Close
<1>5. QED
  BY <1>3, <1>4 DEF IInv

\* write(): the queue is empty whenever the socket is tried directly.
LEMMA WriteIInv ==
  ASSUME IInv, NEW n \in 1..MaxWrite, NEW k \in 0..n, Write(n, k)
  PROVE  IInv' /\ Stream!Write
<1> DEFINE c == Chunk(n)
           taken == SubSeq(c, 1, k)
           queued == SubSeq(c, k + 1, n)
<1>1. n \in Nat /\ k \in Nat /\ k <= n
  BY BoundsAssumption
<1>2. c \in Seq(Nat) /\ Len(c) = n
  BY <1>1, ChunkType DEF IInv, TypeOK
<1>3. taken \in Seq(Nat) /\ queued \in Seq(Nat) /\ taken \o queued = c
  BY <1>1, <1>2, CutAndJoin
<1>4. /\ accepted \in Seq(Nat) /\ wire \in Seq(Nat) /\ txbuf \in Seq(Nat)
      /\ wire \o txbuf = accepted
  BY DEF IInv, TypeOK, StreamIntegrity, Write
<1>5. /\ accepted' = accepted \o c
      /\ wire' = wire \o taken
      /\ txbuf' = txbuf \o queued
  BY DEF Write
<1>6. accepted' \in Seq(Nat) /\ wire' \in Seq(Nat) /\ txbuf' \in Seq(Nat)
  BY <1>2, <1>3, <1>4, <1>5, ConcatProperties
<1>7. wire' \o txbuf' = accepted'
  <2>1. CASE tx
    <3>1. k = 0
      BY <2>1 DEF Write, TakenAtOnce
    <3>2. taken = <<>>
      BY <3>1, SubSeqEmpty
    <3>3. queued = c
      BY <1>2, <3>1, SubSeqFull
    <3>4. wire' = wire
      BY <1>4, <1>5, <3>2, ConcatEmptySeq
    <3>5. wire \o (txbuf \o c) = (wire \o txbuf) \o c
      BY <1>2, <1>4, Joined
    <3>6. QED
      BY <1>4, <1>5, <3>3, <3>4, <3>5
  <2>2. CASE ~tx
    <3>1. txbuf = <<>>
      BY <2>2 DEF IInv, PendingIsArmed
    <3>2. txbuf' = queued /\ wire = accepted
      BY <1>3, <1>4, <1>5, <3>1, ConcatEmptySeq
    <3>3. (wire \o taken) \o queued = wire \o (taken \o queued)
      BY <1>3, <1>4, Joined, ZenonT(30)
    <3>4. QED
      BY <1>3, <1>5, <3>2, <3>3
  <2>3. QED
    BY <2>1, <2>2
<1>8. txbuf' # <<>> => tx'
  <2>1. CASE tx
    BY <2>1 DEF Write
  <2>2. CASE ~tx
    <3>1. txbuf = <<>>
      BY <2>2 DEF IInv, PendingIsArmed
    <3>2. k = n => queued = <<>>
      BY <1>1, SubSeqEmpty
    <3>3. k = n => txbuf' = <<>>
      BY <1>5, <3>1, <3>2, ConcatEmptySeq
    <3>4. QED
      BY <1>1, <3>3 DEF Write
  <2>3. QED
    BY <2>1, <2>2
<1>9. IInv'
  <2>1. tx' \in BOOLEAN
    BY DEF Write, IInv, TypeOK
  <2>2. UNCHANGED <<invalid, attempt, fd, rx, upcalls>> /\ ~invalid /\ rx
    BY DEF Write
  <2>3. TypeOK'
    BY <1>6, <2>1, <2>2 DEF IInv, TypeOK
  <2>4. QED
    BY <1>7, <1>8, <2>2, <2>3
       DEF IInv, StreamIntegrity, PendingIsArmed, ClosedIsQuiet, ToldOnce, ArmedIsConnected
<1>10. Stream!Write
  <2>1. IsPrefix(accepted, accepted') /\ IsPrefix(wire, wire')
    BY <1>2, <1>3, <1>4, <1>5, PrefixOfConcat
  <2>2. IsPrefix(wire', accepted')
    BY <1>6, <1>7, PrefixOfConcat
  <2>3. QED
    BY <2>1, <2>2 DEF Stream!Write, Write, IsPrefix, Stream!IsPrefix
<1>11. QED
  BY <1>9, <1>10

\* write_cb: what the kernel takes is the head of the queue.
LEMMA WriteCbIInv ==
  ASSUME IInv, NEW k \in 1..Len(txbuf), WriteCbTakes(k)
  PROVE  IInv' /\ Stream!Deliver
<1> DEFINE taken == SubSeq(txbuf, 1, k)
           left == SubSeq(txbuf, k + 1, Len(txbuf))
<1>1. /\ accepted \in Seq(Nat) /\ wire \in Seq(Nat) /\ txbuf \in Seq(Nat)
      /\ tx /\ ~invalid /\ rx \in BOOLEAN
      /\ wire \o txbuf = accepted
  BY DEF IInv, TypeOK, StreamIntegrity, ClosedIsQuiet, WriteCbTakes
<1>2. k \in 0..Len(txbuf) /\ k # 0
  BY <1>1
<1>3. /\ taken \in Seq(Nat) /\ left \in Seq(Nat)
      /\ taken \o left = txbuf
      /\ Len(taken) = k
  BY <1>1, <1>2, CutAndJoin
<1>4. wire' = wire \o taken /\ txbuf' = left
  BY DEF WriteCbTakes
<1>5. wire' \in Seq(Nat) /\ Len(wire') = Len(wire) + k
  BY <1>1, <1>3, <1>4, ConcatProperties
<1>6. wire' \o txbuf' = accepted
  <2>1. (wire \o taken) \o left = wire \o (taken \o left)
    BY <1>1, <1>3, Joined
  <2>2. QED
    BY <1>1, <1>3, <1>4, <2>1
<1>7. IInv'
  <2>1. TypeOK'
    BY <1>3, <1>4, <1>5 DEF IInv, TypeOK, WriteCbTakes
  <2>2. QED
    BY <1>1, <1>6, <2>1
       DEF IInv, StreamIntegrity, PendingIsArmed, ClosedIsQuiet, ToldOnce, ArmedIsConnected,
           WriteCbTakes
<1>8. Stream!Deliver
  <2>1. wire' # wire
    BY <1>1, <1>2, <1>5
  <2>2. IsPrefix(wire, wire') /\ IsPrefix(wire', accepted)
    BY <1>1, <1>3, <1>4, <1>5, <1>6, PrefixOfConcat
  <2>3. rx /\ UNCHANGED <<invalid, rx, accepted>>
    BY DEF WriteCbTakes, IInv, ArmedIsConnected
  <2>4. QED
    BY <1>1, <2>1, <2>2, <2>3 DEF Stream!Deliver, IsPrefix, Stream!IsPrefix
<1>9. QED
  BY <1>7, <1>8

\* Every step keeps the invariant and is a step of the byte stream.
LEMMA NextIInv ==
  ASSUME IInv, [Next]_vars
  PROVE  IInv' /\ [Stream!Next]_(Stream!bsVars)
<1> USE DEF Stream!Next, Stream!bsVars
<1>1. CASE Establish
  BY <1>1 DEF Establish, IInv, TypeOK, StreamIntegrity, PendingIsArmed, ClosedIsQuiet,
              ToldOnce, ArmedIsConnected
<1>2. CASE GotConnected
  BY <1>2 DEF GotConnected, IInv, TypeOK, StreamIntegrity, PendingIsArmed, ClosedIsQuiet,
              ToldOnce, ArmedIsConnected, Stream!Open
<1>3. ASSUME NEW n \in 1..MaxWrite, NEW k \in 0..n, Write(n, k)
      PROVE  IInv' /\ [Stream!Next]_(Stream!bsVars)
  BY <1>3, WriteIInv
<1>4. CASE WriteCbIdle
  BY <1>4 DEF WriteCbIdle, IInv, TypeOK, StreamIntegrity, PendingIsArmed, ClosedIsQuiet,
              ToldOnce, ArmedIsConnected
<1>5. ASSUME NEW k \in 1..Len(txbuf), WriteCbTakes(k)
      PROVE  IInv' /\ [Stream!Next]_(Stream!bsVars)
  BY <1>5, WriteCbIInv
<1>6. ASSUME ~invalid, NEW u \in Upcalls,
             \/ CloseAndTell(u)
             \/ Close /\ UNCHANGED <<accepted, wire, upcalls>>
      PROVE  IInv' /\ [Stream!Next]_(Stream!bsVars)
  <2>1. Stream!Close
    BY <1>6 DEF Stream!Close, CloseAndTell, Close
  <2>2. QED
    BY <1>6, <2>1, CloseIInv
<1>7. CASE ConnectFailed \/ WriteFails \/ WriteCbFails \/ ReadFails \/ ReadEof
  <2>1. ~invalid
    BY <1>7 DEF ConnectFailed, WriteFails, WriteCbFails, ReadFails, ReadEof,
                IInv, ClosedIsQuiet
  <2>2. PICK u \in Upcalls : CloseAndTell(u)
    BY <1>7 DEF ConnectFailed, WriteFails, WriteCbFails, ReadFails, ReadEof, Upcalls
  <2>3. QED
    BY <1>6, <2>1, <2>2
<1>8. CASE OwnerCloses
  <2>1. "readError" \in Upcalls
    BY DEF Upcalls
  <2>2. QED
    BY <1>6, <1>8, <2>1 DEF OwnerCloses
<1>9. CASE UNCHANGED vars
  BY <1>9 DEF vars, IInv, TypeOK, StreamIntegrity, PendingIsArmed, ClosedIsQuiet,
              ToldOnce, ArmedIsConnected
<1>10. QED
  BY <1>1, <1>2, <1>3, <1>4, <1>5, <1>7, <1>8, <1>9 DEF Next

\* The inductive invariant holds in every reachable state of a connection.
THEOREM Invariant == Spec => []IInv
<1>1. Init => IInv
  BY InitIInv
<1>2. IInv /\ [Next]_vars => IInv'
  BY NextIInv
<1>3. QED
  BY <1>1, <1>2, PTL DEF Spec

\* The variables of a connection keep their types.
THEOREM TypeCorrect == Spec => []TypeOK
BY Invariant, PTL DEF IInv

\* write() and write_cb never lose, repeat or reorder a byte of a valid
\* connection, whatever the socket takes of each write.
THEOREM BytesInOrder == Spec => []StreamIntegrity
BY Invariant, PTL DEF IInv

\* Queued bytes always have a writable callback armed to drain them.
THEOREM PendingArmed == Spec => []PendingIsArmed
BY Invariant, PTL DEF IInv

\* After close() a connection has nothing registered with the event loop.
THEOREM QuietAfterClose == Spec => []ClosedIsQuiet
BY Invariant, PTL DEF IInv

\* connectionError, readError and closeCallback are called at most once between them,
\* and the connection has closed itself by then.
THEOREM OwnerToldOnce == Spec => []ToldOnce
BY Invariant, PTL DEF IInv

\* The connection implements the byte stream it promises its owner.
THEOREM StreamImplemented == Spec => ImplementsStream
<1>1. Init => Stream!Init
  BY DEF Init, Stream!Init
<1>2. IInv /\ [Next]_vars => [Stream!Next]_(Stream!bsVars)
  BY NextIInv
<1>3. QED
  BY <1>1, <1>2, Invariant, PTL DEF Spec, ImplementsStream, Stream!Safety
=============================================================================
