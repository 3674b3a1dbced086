--------------------------- MODULE ChatMessageBytes ---------------------------
(***************************************************************************)
(* Where the bytes of a message are: the buffer the parser reads is the     *)
(* segments of the message one behind the other, for messages of any       *)
(* number of segments and texts of any length.                              *)
(*                                                                          *)
(* The recursive functions of ChatMessage are first shown to satisfy their  *)
(* equations, by induction on how far they are defined.                     *)
(***************************************************************************)
EXTENDS ChatMessage, WellFoundedInduction, SequenceTheorems, TLAPS

-----------------------------------------------------------------------------
\* A set of natural numbers that is not empty has a least element.
LEMMA LeastNatural ==
  ASSUME NEW T \in SUBSET Nat, T # {}
  PROVE  \E x \in T : \A y \in T : x <= y
<1> DEFINE R == {p \in Nat \X Nat : p[1] < p[2]}
<1>1. IsWellFoundedOn(R, Nat)
  BY NatLessThanWellFounded DEF OpToRel
<1>2. \A x, y \in Nat : y < x => <<y, x>> \in R
  OBVIOUS
<1> HIDE DEF R
<1>3. PICK x \in T : \A y \in T : ~ (<<y, x>> \in R)
  BY <1>1, WFMin
<1>4. \A y \in T : x <= y
  <2> SUFFICES ASSUME NEW y \in T PROVE x <= y
    OBVIOUS
  <2>1. ~(y < x)
    BY <1>2, <1>3
  <2> QED
    BY <2>1
<1> QED
  BY <1>4

\* Induction: a set with zero and the successor of each element below n reaches n.
LEMMA InductionUpTo ==
  ASSUME NEW n \in Nat, NEW T, 0 \in T, \A m \in 0..n : m \in T /\ m < n => m + 1 \in T
  PROVE  \A m \in 0..n : m \in T
<1> SUFFICES ASSUME NEW m \in 0..n, m \notin T PROVE FALSE
  OBVIOUS
<1>1. PICK x \in {i \in 0..n : i \notin T} : \A y \in {i \in 0..n : i \notin T} : x <= y
  <2> DEFINE U == {i \in 0..n : i \notin T}
  <2>1. U \in SUBSET Nat /\ U # {}
    OBVIOUS
  <2> HIDE DEF U
  <2>2. \E x \in U : \A y \in U : x <= y
    BY <2>1, LeastNatural
  <2> QED
    BY <2>2 DEF U
<1>2. x # 0 /\ x - 1 \in 0..n /\ x - 1 < n
  BY <1>1
<1>3. x - 1 \in T
  BY <1>1, <1>2
<1> QED
  BY <1>1, <1>2, <1>3

-----------------------------------------------------------------------------
(***************************************************************************)
(* The recursive functions.                                                *)
(***************************************************************************)
\* There is a function of the running sums of h.
LEMMA SumsExist ==
  ASSUME NEW n \in Nat, NEW h
  PROVE  \E g : g = [k \in 0..n |-> IF k = 0 THEN 0 ELSE g[k - 1] + h[k]]
<1> DEFINE Sums(g, m) == g = [k \in 0..m |-> IF k = 0 THEN 0 ELSE g[k - 1] + h[k]]
           T == {m \in Nat : \E g : Sums(g, m)}
<1>1. 0 \in T
  <2> DEFINE g == [k \in 0..0 |-> 0]
  <2>1. Sums(g, 0)
    OBVIOUS
  <2> QED
    BY <2>1
<1>2. ASSUME NEW m \in Nat, m \in T PROVE m + 1 \in T
  <2>1. PICK g : Sums(g, m)
    BY <1>2
  <2> DEFINE gg == [k \in 0..m + 1 |-> IF k = m + 1 THEN g[m] + h[k] ELSE g[k]]
  <2>2. \A k \in 0..m + 1 : gg[k] = IF k = 0 THEN 0 ELSE gg[k - 1] + h[k]
    BY <2>1
  <2>3. gg = [k \in 0..m + 1 |-> gg[k]]
    OBVIOUS
  <2> HIDE DEF gg
  <2>4. Sums(gg, m + 1)
    BY <2>2, <2>3
  <2> HIDE DEF Sums
  <2> QED
    BY <2>4
<1>3. n \in T
  <2> HIDE DEF T
  <2> QED
    BY <1>1, <1>2, InductionUpTo
<1> QED
  BY <1>3

\* A segment takes at least one byte.
LEMMA SegmentSizeType ==
  ASSUME NEW seg \in Segments
  PROVE  SegmentSize(seg) \in Nat \ {0}
  BY DEF Segments, SegmentSize, Evens

\* The ends of the segments.
LEMMA EndsDef ==
  ASSUME NEW msg \in Seq(Segments)
  PROVE  /\ Ends(msg) \in [0..Len(msg) -> Nat]
         /\ Ends(msg)[0] = 0
         /\ \A k \in 1..Len(msg) : Ends(msg)[k] = Ends(msg)[k - 1] + SegmentSize(msg[k])
<1> DEFINE n == Len(msg)
           h == [k \in 1..n |-> SegmentSize(msg[k])]
           Eq(g) == g = [k \in 0..n |-> IF k = 0 THEN 0 ELSE g[k - 1] + SegmentSize(msg[k])]
<1>1. n \in Nat /\ \A k \in 1..n : msg[k] \in Segments
  OBVIOUS
<1>2. PICK g : g = [k \in 0..n |-> IF k = 0 THEN 0 ELSE g[k - 1] + h[k]]
  <2> HIDE DEF h
  <2> QED
    BY <1>1, SumsExist
<1>3. \A k \in 0..n : g[k] = IF k = 0 THEN 0 ELSE g[k - 1] + SegmentSize(msg[k])
  <2>1. \A k \in 0..n : g[k] = IF k = 0 THEN 0 ELSE g[k - 1] + h[k]
    <3> HIDE DEF h
    <3> QED
      BY <1>2
  <2>2. \A k \in 0..n : k # 0 => h[k] = SegmentSize(msg[k])
    BY <1>1
  <2> HIDE DEF h
  <2> QED
    BY <2>1, <2>2
<1>4. g = [k \in 0..n |-> g[k]]
  BY <1>2
<1>5. Eq(g)
  BY <1>3, <1>4
<1>6. Ends(msg) = CHOOSE e : Eq(e)
  BY DEF Ends
<1>7. Eq(Ends(msg))
  <2> HIDE DEF Eq
  <2> QED
    BY <1>5, <1>6
<1> DEFINE E == Ends(msg)
<1> HIDE DEF E
<1>8. Eq(E)
  BY <1>7 DEF E
<1>9. E[0] = 0 /\ \A k \in 1..n : E[k] = E[k - 1] + SegmentSize(msg[k])
  BY <1>1, <1>8
<1>10. \A k \in 0..n : E[k] \in Nat
  <2> DEFINE T == {k \in 0..n : E[k] \in Nat}
  <2>1. 0 \in T
    BY <1>1, <1>9
  <2>2. ASSUME NEW k \in 0..n, k \in T, k < n PROVE k + 1 \in T
    BY <1>1, <1>9, <2>2, SegmentSizeType
  <2> HIDE DEF T
  <2>3. \A k \in 0..n : k \in T
    BY <1>1, <2>1, <2>2, InductionUpTo
  <2> QED
    BY <2>3 DEF T
<1>11. E \in [0..n -> Nat]
  BY <1>8, <1>10
<1> QED
  BY <1>9, <1>11 DEF E
\* Each segment ends behind the one before it.
LEMMA EndsGrow ==
  ASSUME NEW msg \in Seq(Segments), NEW j \in 0..Len(msg), NEW k \in 0..Len(msg), j < k
  PROVE  Ends(msg)[j] < Ends(msg)[k]
<1> DEFINE n == Len(msg)
           E == Ends(msg)
           T == {i \in 0..n : j < i => E[j] < E[i]}
<1>1. n \in Nat /\ \A i \in 1..n : SegmentSize(msg[i]) \in Nat \ {0}
  <2>1. n \in Nat /\ \A i \in 1..n : msg[i] \in Segments
    OBVIOUS
  <2> QED
    BY <2>1, SegmentSizeType
<1>2. E \in [0..n -> Nat] /\ \A i \in 1..n : E[i] = E[i - 1] + SegmentSize(msg[i])
  BY EndsDef
<1> HIDE DEF E, n
<1>3. j \in 0..n /\ k \in 0..n
  BY DEF n
<1>4. 0 \in T
  BY <1>1, <1>3
<1>5. ASSUME NEW i \in 0..n, i \in T, i < n PROVE i + 1 \in T
  <2>1. E[i + 1] = E[i] + SegmentSize(msg[i + 1]) /\ SegmentSize(msg[i + 1]) \in Nat \ {0}
    BY <1>1, <1>2, <1>5
  <2>2. E[i] \in Nat /\ E[j] \in Nat /\ E[i + 1] \in Nat
    BY <1>1, <1>2, <1>3, <1>5
  <2>3. E[i] < E[i + 1]
    BY <2>1, <2>2
  <2>4. j < i + 1 => j = i \/ j < i
    BY <1>1, <1>3
  <2> QED
    BY <1>1, <1>3, <1>5, <2>2, <2>3, <2>4
<1>6. \A i \in 0..n : i \in T
  <2> HIDE DEF T
  <2> QED
    BY <1>1, <1>4, <1>5, InductionUpTo
<1> QED
  BY <1>3, <1>6 DEF E

-----------------------------------------------------------------------------
(***************************************************************************)
(* Sequences of sequences.                                                 *)
(***************************************************************************)
\* There is a function of the concatenations of the first sequences.
LEMMA ConcatsExist ==
  ASSUME NEW n \in Nat \ {0}, NEW h
  PROVE  \E g : g = [k \in 1..n |-> IF k = 1 THEN h[k] ELSE g[k - 1] \o h[k]]
<1> DEFINE Concats(g, m) == g = [k \in 1..m |-> IF k = 1 THEN h[k] ELSE g[k - 1] \o h[k]]
           T == {m \in Nat : m = 0 \/ \E g : Concats(g, m)}
<1>1. 0 \in T
  OBVIOUS
<1>2. ASSUME NEW m \in Nat, m \in T PROVE m + 1 \in T
  <2>1. CASE m = 0
    <3> DEFINE g == [k \in 1..1 |-> h[k]]
    <3>1. g = [k \in 1..1 |-> IF k = 1 THEN h[k] ELSE g[k - 1] \o h[k]]
      OBVIOUS
    <3>2. Concats(g, 1)
      BY <3>1
    <3> HIDE DEF Concats
    <3> QED
      BY <2>1, <3>2
  <2>2. CASE m # 0
    <3>1. PICK g : Concats(g, m)
      BY <1>2, <2>2
    <3> DEFINE gg == [k \in 1..m + 1 |-> IF k = m + 1 THEN g[m] \o h[k] ELSE g[k]]
    <3>2. ASSUME NEW k \in 1..m + 1
          PROVE  gg[k] = IF k = 1 THEN h[k] ELSE gg[k - 1] \o h[k]
      <4>1. CASE k = m + 1
        <5>1. k # 1 /\ k - 1 = m /\ m \in 1..m + 1 /\ m # m + 1
          BY <2>2, <4>1
        <5>2. gg[k] = g[m] \o h[k] /\ gg[k - 1] = g[m]
          BY <4>1, <5>1
        <5> QED
          BY <5>1, <5>2
      <4>2. CASE k # m + 1
        <5>1. k \in 1..m /\ gg[k] = g[k]
          BY <4>2
        <5>2. k # 1 => k - 1 \in 1..m + 1 /\ k - 1 # m + 1 /\ gg[k - 1] = g[k - 1]
          BY <5>1
        <5>3. g[k] = IF k = 1 THEN h[k] ELSE g[k - 1] \o h[k]
          BY <3>1, <5>1, Zenon
        <5> QED
          BY <5>1, <5>2, <5>3
      <4> QED
        BY <4>1, <4>2
    <3>3. gg = [k \in 1..m + 1 |-> gg[k]]
      OBVIOUS
    <3> HIDE DEF gg
    <3>4. Concats(gg, m + 1)
      BY <3>2, <3>3
    <3> HIDE DEF Concats
    <3> QED
      BY <3>4
  <2> QED
    BY <2>1, <2>2
<1>3. n \in T
  <2> HIDE DEF T
  <2> QED
    BY <1>1, <1>2, InductionUpTo
<1> QED
  BY <1>3

\* The k-th of n sequences ends at the position end[k] of their concatenation.
EndAt(end, n, seqs) ==
  end[0] = 0 /\ \A k \in 1..n : end[k] = end[k - 1] + Len(seqs[k])

\* What the lemma below needs of its parameters.
Flattened(S, n, seqs, end) ==
  /\ n \in Nat \ {0} /\ seqs \in [1..n -> Seq(S)] /\ end \in [0..n -> Nat]
  /\ EndAt(end, n, seqs)

\* FlattenSeq of sequences over S, of which the k-th ends at the position end[k]: what
\* it is long, and where each element of each of them is.
LEMMA FlattenProperties ==
  ASSUME NEW S, NEW n, NEW seqs, NEW end, Flattened(S, n, seqs, end)
  PROVE  /\ FlattenSeq(seqs) \in Seq(S)
         /\ Len(FlattenSeq(seqs)) = end[n]
         /\ \A k \in 1..n : \A i \in 1..Len(seqs[k]) :
               FlattenSeq(seqs)[end[k - 1] + i] = seqs[k][i]
<1>0. /\ n \in Nat \ {0} /\ seqs \in [1..n -> Seq(S)] /\ end \in [0..n -> Nat]
      /\ EndAt(end, n, seqs)
  BY DEF Flattened
<1> USE <1>0
<1> DEFINE Eq(g) == g = [k \in 1..n |-> IF k = 1 THEN seqs[k] ELSE g[k - 1] \o seqs[k]]
<1>1. Len(seqs) = n
  OBVIOUS
<1>2. \E g : Eq(g)
  BY ConcatsExist
<1>3. FlattenSeq(seqs) = (CHOOSE g : Eq(g))[n]
  BY <1>1 DEF FlattenSeq
<1>4. PICK g : Eq(g) /\ FlattenSeq(seqs) = g[n]
  <2> HIDE DEF Eq
  <2> QED
    BY <1>2, <1>3
<1>5. /\ g[1] = seqs[1]
      /\ \A k \in 1..n : k < n => g[k + 1] = g[k] \o seqs[k + 1]
  <2>1. \A k \in 1..n : g[k] = IF k = 1 THEN seqs[k] ELSE g[k - 1] \o seqs[k]
    BY <1>4, Zenon
  <2>2. ASSUME NEW k \in 1..n, k < n PROVE k + 1 \in 1..n /\ k + 1 # 1 /\ (k + 1) - 1 = k
    BY <2>2
  <2>3. 1 \in 1..n
    OBVIOUS
  <2>4. ASSUME NEW k \in 1..n, k < n PROVE g[k + 1] = g[k] \o seqs[k + 1]
    <3>1. g[k + 1] = g[(k + 1) - 1] \o seqs[k + 1]
      BY <2>1, <2>2, <2>4, Zenon
    <3> QED
      BY <2>2, <2>4, <3>1
  <2> QED
    BY <2>1, <2>3, <2>4
<1> HIDE DEF Eq
<1>6. \A k \in 1..n : seqs[k] \in Seq(S) /\ Len(seqs[k]) \in Nat
  OBVIOUS
<1> DEFINE Ordered(m) == \A k \in 0..m : end[k] <= end[m]
           Placed(m) == \A k \in 1..m : \A i \in 1..Len(seqs[k]) :
                          g[m][end[k - 1] + i] = seqs[k][i]
           Done(m) == g[m] \in Seq(S) /\ Len(g[m]) = end[m] /\ Ordered(m) /\ Placed(m)
           T == {m \in 0..n : m = 0 \/ Done(m)}
<1>7. Done(1)
  <2>1. g[1] \in Seq(S) /\ Len(g[1]) = end[1] /\ end[1] \in Nat /\ end[0] <= end[1]
    BY <1>5, <1>6 DEF EndAt
  <2>2. Ordered(1)
    BY <2>1
  <2>3. ASSUME NEW i \in 1..Len(seqs[1]) PROVE g[1][end[0] + i] = seqs[1][i]
    <3>1. end[0] + i = i
      BY <1>6, <2>3 DEF EndAt
    <3> QED
      BY <1>5, <3>1
  <2>4. Placed(1)
    <3> SUFFICES ASSUME NEW k \in 1..1, NEW i \in 1..Len(seqs[k])
                 PROVE  g[1][end[k - 1] + i] = seqs[k][i]
      OBVIOUS
    <3>1. k = 1 /\ k - 1 = 0
      OBVIOUS
    <3> QED
      BY <2>3, <3>1
  <2> QED
    BY <2>1, <2>2, <2>4
<1>8. ASSUME NEW m \in 1..n, Done(m), m < n PROVE Done(m + 1)
  <2>1. /\ m + 1 \in 1..n /\ seqs[m + 1] \in Seq(S) /\ Len(seqs[m + 1]) \in Nat
        /\ end[m + 1] = end[m] + Len(seqs[m + 1]) /\ end[m] \in Nat /\ end[m + 1] \in Nat
    <3>1. m + 1 \in 1..n /\ m + 1 \in 0..n /\ m \in 0..n /\ (m + 1) - 1 = m
      BY <1>8
    <3>2. seqs[m + 1] \in Seq(S) /\ Len(seqs[m + 1]) \in Nat
      BY <1>6, <3>1
    <3>3. end[m + 1] = end[(m + 1) - 1] + Len(seqs[m + 1])
      BY <3>1, Zenon DEF EndAt
    <3> QED
      BY <3>1, <3>2, <3>3
  <2>2. g[m + 1] = g[m] \o seqs[m + 1]
    BY <1>5, <1>8
  <2>3. g[m] \in Seq(S) /\ Len(g[m]) = end[m] /\ Ordered(m) /\ Placed(m)
    BY <1>8
  <2> HIDE DEF Ordered, Placed
  <2>4. /\ g[m + 1] \in Seq(S) /\ Len(g[m + 1]) = end[m + 1]
        /\ \A i \in 1..end[m + 1] :
             g[m + 1][i] = IF i <= end[m] THEN g[m][i] ELSE seqs[m + 1][i - end[m]]
    <3>1. /\ g[m] \o seqs[m + 1] \in Seq(S)
          /\ Len(g[m] \o seqs[m + 1]) = Len(g[m]) + Len(seqs[m + 1])
          /\ \A i \in 1..Len(g[m]) + Len(seqs[m + 1]) :
               (g[m] \o seqs[m + 1])[i] =
                 IF i <= Len(g[m]) THEN g[m][i] ELSE seqs[m + 1][i - Len(g[m])]
      BY <2>1, <2>3, ConcatProperties
    <3> QED
      BY <2>1, <2>2, <2>3, <3>1
  <2>5. Ordered(m + 1)
    <3> SUFFICES ASSUME NEW k \in 0..m + 1 PROVE end[k] <= end[m + 1]
      BY DEF Ordered
    <3>1. end[m] <= end[m + 1]
      BY <2>1
    <3>2. k # m + 1 => k \in 0..n /\ end[k] \in Nat /\ end[k] <= end[m]
      BY <1>8, <2>3 DEF Ordered
    <3> QED
      BY <2>1, <3>1, <3>2
  <2>6. ASSUME NEW k \in 1..m + 1, NEW i \in 1..Len(seqs[k])
        PROVE  g[m + 1][end[k - 1] + i] = seqs[k][i]
    <3>1. CASE k = m + 1
      <4>1. end[m] + i \in 1..end[m + 1] /\ ~(end[m] + i <= end[m]) /\ end[m] + i - end[m] = i
        BY <2>1, <2>6, <3>1
      <4>2. k - 1 = m /\ seqs[k] = seqs[m + 1]
        <5>1. (m + 1) - 1 = m
          OBVIOUS
        <5> QED
          BY <3>1, <5>1
      <4>3. g[m + 1][end[m] + i] = seqs[m + 1][i]
        <5>1. PICK q : q = end[m] + i
          OBVIOUS
        <5>2. q \in 1..end[m + 1] /\ ~(q <= end[m])
          BY <4>1, <5>1, Zenon
        <5>3. g[m + 1][q] = seqs[m + 1][q - end[m]]
          BY <2>4, <5>2, Zenon
        <5>4. q - end[m] = i
          BY <2>1, <5>1
        <5> QED
          BY <5>1, <5>3, <5>4, Zenon
      <4> QED
        BY <4>2, <4>3, Zenon
    <3>2. CASE k # m + 1
      <4>1. k \in 1..m /\ k \in 1..n /\ k - 1 \in 0..n /\ k \in 0..m
        BY <1>8, <3>2
      <4>2. g[m][end[k - 1] + i] = seqs[k][i]
        BY <2>3, <2>6, <4>1 DEF Placed
      <4>3. /\ end[k] <= end[m] /\ end[k] = end[k - 1] + Len(seqs[k]) /\ Len(seqs[k]) \in Nat
            /\ end[k] \in Nat /\ end[k - 1] \in Nat
        BY <1>6, <2>3, <4>1 DEF Ordered, EndAt
      <4>4. end[k - 1] + i \in 1..end[m + 1] /\ end[k - 1] + i <= end[m]
        <5>1. i \in Nat /\ 1 <= i /\ i <= Len(seqs[k])
          BY <2>6, <4>3
        <5>2. end[m] \in Nat /\ end[m + 1] \in Nat /\ end[m] <= end[m + 1]
          BY <2>1
        <5>3. PICK a \in Nat, l \in Nat, b \in Nat, c \in Nat :
                a = end[k - 1] /\ l = Len(seqs[k]) /\ b = end[m] /\ c = end[m + 1]
          BY <4>3, <5>2, Zenon
        <5>4. i <= l /\ a + l <= b /\ b <= c
          BY <4>3, <5>1, <5>2, <5>3
        <5>5. a + i \in 1..c /\ a + i <= b
          BY <5>1, <5>4
        <5> QED
          BY <5>3, <5>5, Zenon
      <4>5. PICK q : q = end[k - 1] + i
        OBVIOUS
      <4>6. q \in 1..end[m + 1] /\ q <= end[m]
        BY <4>4, <4>5, Zenon
      <4>7. g[m + 1][q] = g[m][q]
        BY <2>4, <4>6, Zenon
      <4> QED
        BY <4>2, <4>5, <4>7, Zenon
    <3> QED
      BY <3>1, <3>2
  <2>7. Placed(m + 1)
    BY <2>6 DEF Placed
  <2> QED
    BY <2>4, <2>5, <2>7
<1>9. Done(n)
  <2> HIDE DEF Done
  <2>1. 0 \in T
    OBVIOUS
  <2>2. ASSUME NEW m \in 0..n, m \in T, m < n PROVE m + 1 \in T
    BY <1>7, <1>8, <2>2
  <2>3. \A m \in 0..n : m \in T
    <3> HIDE DEF T
    <3> QED
      BY <2>1, <2>2, InductionUpTo
  <2> QED
    BY <2>3
<1>10. Placed(n) <=> \A k \in 1..n : \A i \in 1..Len(seqs[k]) :
                       FlattenSeq(seqs)[end[k - 1] + i] = seqs[k][i]
  BY <1>4
<1> QED
  BY <1>4, <1>9, <1>10

-----------------------------------------------------------------------------
(***************************************************************************)
(* The bytes of a segment.                                                 *)
(***************************************************************************)
ByteSet == 0..255

LEMMA WordType ==
  ASSUME NEW n \in Nat
  PROVE  /\ Word(n) \in Seq(ByteSet) /\ Len(Word(n)) = 4
         /\ Word(n)[1] = 0 /\ Word(n)[2] = 0
         /\ Word(n)[3] = (n \div 256) % 256 /\ Word(n)[4] = n % 256
<1> DEFINE hi == (n \div 256) % 256
           lo == n % 256
<1>1. hi \in ByteSet /\ lo \in ByteSet
  <2>1. n \div 256 \in Nat
    OBVIOUS
  <2> QED
    BY <2>1 DEF ByteSet
<1>2. Word(n) = <<0, 0>> \o <<hi, lo>>
  BY DEF Word, IntToSWord
<1> HIDE DEF hi, lo
<1>3. <<0, 0>> \o <<hi, lo>> \in Seq(ByteSet)
  BY <1>1 DEF ByteSet
<1>4. Len(<<0, 0>> \o <<hi, lo>>) = 4
  OBVIOUS
<1>5. /\ (<<0, 0>> \o <<hi, lo>>)[1] = 0 /\ (<<0, 0>> \o <<hi, lo>>)[2] = 0
      /\ (<<0, 0>> \o <<hi, lo>>)[3] = hi /\ (<<0, 0>> \o <<hi, lo>>)[4] = lo
  OBVIOUS
<1>6. /\ Word(n) \in Seq(ByteSet) /\ Len(Word(n)) = 4
      /\ Word(n)[1] = 0 /\ Word(n)[2] = 0 /\ Word(n)[3] = hi /\ Word(n)[4] = lo
  BY <1>2, <1>3, <1>4, <1>5, Zenon
<1> QED
  BY <1>6 DEF hi, lo

\* The letter of a pattern that the i-th byte of a text belongs to.
LetterAt(i, pattern) == pattern[(((i - 1) \div 2) % Len(pattern)) + 1]

LEMMA LetterAtType ==
  ASSUME NEW p \in Patterns, NEW i \in Nat \ {0}
  PROVE  /\ \E k \in DOMAIN p : LetterAt(i, p) = p[k]
         /\ LetterAt(i, p) \in Alphabet
         /\ i % 2 = 1 => LetterAt(i + 1, p) = LetterAt(i, p)
<1> DEFINE m == Len(p)
           half == (i - 1) \div 2
<1>1. m \in Nat \ {0} /\ DOMAIN p = 1..m /\ \A k \in 1..m : p[k] \in Alphabet
  <2>1. p \in Seq(Alphabet) /\ p # <<>>
    BY DEF Patterns
  <2> HIDE DEF m
  <2> QED
    BY <2>1 DEF m
<1>2. half \in Nat
  OBVIOUS
<1>3. i % 2 = 1 => ((i + 1) - 1) \div 2 = half
  OBVIOUS
<1>4. LetterAt(i, p) = p[(half % m) + 1]
  BY DEF LetterAt
<1>5. i % 2 = 1 => LetterAt(i + 1, p) = p[(half % m) + 1]
  BY <1>3, Zenon DEF LetterAt
<1> HIDE DEF half, m
<1>6. (half % m) + 1 \in 1..m
  BY <1>1, <1>2
<1> QED
  BY <1>1, <1>4, <1>5, <1>6

\* The bytes of a letter.
LEMMA LetterBytes ==
  ASSUME NEW w \in Alphabet
  PROVE  /\ w \div 256 \in ByteSet /\ w % 256 \in ByteSet
         /\ w \div 256 \notin 216..223
         /\ w \div 256 # 0 \/ w % 256 # 0
         /\ w < 128 => w \div 256 = 0 /\ w % 256 \in 1..127
<1> DEFINE hi == w \div 256
           lo == w % 256
<1>1. w \in Nat /\ w > 0 /\ w < 65536 /\ (w < 55296 \/ w > 57343)
  BY DEF Alphabet
<1>2. hi \in Nat /\ lo \in Nat /\ lo < 256 /\ w = 256 * hi + lo
  BY <1>1
<1> HIDE DEF hi, lo
<1>3. hi < 256
  BY <1>1, <1>2
<1>4. hi < 216 \/ hi > 223
  BY <1>1, <1>2
<1>5. hi # 0 \/ lo # 0
  BY <1>1, <1>2
<1>6. w < 128 => hi = 0 /\ lo \in 1..127
  BY <1>1, <1>2
<1>7. hi \in ByteSet /\ lo \in ByteSet /\ hi \notin 216..223
  BY <1>2, <1>3, <1>4 DEF ByteSet
<1> QED
  BY <1>5, <1>6, <1>7 DEF hi, lo

\* What is always so of letters: none begins as a surrogate, and none is 0.
Unpaired(s) ==
  \A i \in 1..Len(s) : i % 2 = 1 => s[i] \notin 216..223 /\ (i < Len(s) => s[i] # 0 \/ s[i + 1] # 0)

LEMMA LettersType ==
  ASSUME NEW n \in Nat, NEW p \in Patterns
  PROVE  /\ Letters(n, p) \in Seq(ByteSet) /\ Len(Letters(n, p)) = n
         /\ \A i \in 1..n : Letters(n, p)[i] = IF i % 2 = 1 THEN LetterAt(i, p) \div 256
                                                            ELSE LetterAt(i, p) % 256
         /\ Unpaired(Letters(n, p))
<1> DEFINE e(i) == IF i % 2 = 1 THEN LetterAt(i, p) \div 256 ELSE LetterAt(i, p) % 256
<1>1. Letters(n, p) = [i \in 1..n |-> e(i)]
  BY DEF Letters, LetterAt
<1>2. ASSUME NEW i \in 1..n
      PROVE  /\ e(i) \in ByteSet
             /\ i % 2 = 1 => e(i) \notin 216..223 /\ (e(i) # 0 \/ e(i + 1) # 0)
  <2>1. i \in Nat \ {0} /\ (i % 2 = 1 => (i + 1) % 2 # 1)
    OBVIOUS
  <2>2. LetterAt(i, p) \in Alphabet /\ (i % 2 = 1 => LetterAt(i + 1, p) = LetterAt(i, p))
    BY <2>1, LetterAtType
  <2>3. /\ LetterAt(i, p) \div 256 \in ByteSet /\ LetterAt(i, p) % 256 \in ByteSet
        /\ LetterAt(i, p) \div 256 \notin 216..223
        /\ LetterAt(i, p) \div 256 # 0 \/ LetterAt(i, p) % 256 # 0
    BY <2>2, LetterBytes
  <2>4. e(i) = IF i % 2 = 1 THEN LetterAt(i, p) \div 256 ELSE LetterAt(i, p) % 256
    OBVIOUS
  <2>5. i % 2 = 1 => e(i + 1) = LetterAt(i, p) % 256
    BY <2>1, <2>2
  <2> HIDE DEF e
  <2> QED
    BY <2>3, <2>4, <2>5
<1> DEFINE L == Letters(n, p)
<1>3. L = [i \in 1..n |-> e(i)]
  BY <1>1
<1> HIDE DEF e, L
<1>4. L \in Seq(ByteSet) /\ Len(L) = n /\ \A i \in 1..n : L[i] = e(i)
  BY <1>2, <1>3
<1>5. Unpaired(L)
  <2> SUFFICES ASSUME NEW i \in 1..n, i % 2 = 1
               PROVE  L[i] \notin 216..223 /\ (i < n => L[i] # 0 \/ L[i + 1] # 0)
    BY <1>4 DEF Unpaired
  <2>1. i < n => i + 1 \in 1..n
    OBVIOUS
  <2> QED
    BY <1>2, <1>4, <2>1
<1> QED
  BY <1>4, <1>5 DEF e, L

\* Letters that are all ASCII.
LEMMA AsciiLetters ==
  ASSUME NEW n \in Nat, NEW p \in Patterns, \A k \in DOMAIN p : p[k] < 128
  PROVE  \A i \in 1..n : IF i % 2 = 1 THEN Letters(n, p)[i] = 0 ELSE Letters(n, p)[i] \in 1..127
<1> SUFFICES ASSUME NEW i \in 1..n
             PROVE  IF i % 2 = 1 THEN Letters(n, p)[i] = 0 ELSE Letters(n, p)[i] \in 1..127
  OBVIOUS
<1>1. LetterAt(i, p) \in Alphabet /\ \E k \in DOMAIN p : LetterAt(i, p) = p[k]
  <2>1. i \in Nat \ {0}
    OBVIOUS
  <2> QED
    BY <2>1, LetterAtType
<1>2. LetterAt(i, p) < 128
  BY <1>1
<1>3. LetterAt(i, p) \div 256 = 0 /\ LetterAt(i, p) % 256 \in 1..127
  BY <1>1, <1>2, LetterBytes
<1>4. Letters(n, p)[i] = IF i % 2 = 1 THEN LetterAt(i, p) \div 256 ELSE LetterAt(i, p) % 256
  BY LettersType
<1> QED
  BY <1>3, <1>4

LEMMA FontBytesType ==
  /\ FontBytes \in Seq(ByteSet) /\ Len(FontBytes) = 13
  /\ FontBytes[1] = 0 /\ FontBytes[2] = 120 /\ FontBytes[3] = 255 /\ FontBytes[4] = 255
  /\ FontBytes[5] = 5 /\ FontBytes[6] = 1 /\ FontBytes[7] = 0 /\ FontBytes[8] = 50
  /\ FontBytes[9] = 0 /\ FontBytes[10] = 73 /\ FontBytes[11] = 51 /\ FontBytes[12] = 51
  /\ FontBytes[13] = 51
  BY DEF FontBytes, ByteSet

\* j is the m bytes of s and the n bytes of t behind them.
Concat(j, s, m, t, n) ==
  j = s \o t /\ s \in Seq(ByteSet) /\ t \in Seq(ByteSet) /\ Len(s) = m /\ Len(t) = n

LEMMA ConcatBytes ==
  ASSUME NEW m \in Nat, NEW n \in Nat, NEW j, NEW s, NEW t, Concat(j, s, m, t, n)
  PROVE  /\ j \in Seq(ByteSet) /\ Len(j) = m + n
         /\ \A i \in 1..m : j[i] = s[i]
         /\ \A i \in 1..n : j[m + i] = t[i]
<1>1. s \in Seq(ByteSet) /\ t \in Seq(ByteSet) /\ j = s \o t /\ Len(s) = m /\ Len(t) = n
  BY DEF Concat
<1>2. /\ j \in Seq(ByteSet) /\ Len(j) = m + n
      /\ \A i \in 1..m + n : j[i] = IF i <= m THEN s[i] ELSE t[i - m]
  BY <1>1, ConcatProperties
<1>3. \A i \in 1..m : i \in 1..m + n
  OBVIOUS
<1>4. \A i \in 1..n : m + i \in 1..m + n /\ ~(m + i <= m) /\ (m + i) - m = i
  OBVIOUS
<1> QED
  BY <1>2, <1>3, <1>4

\* The words the tags are written in.
LEMMA Tags ==
  /\ \A i \in 1..4 : Word(0)[i] = 0
  /\ \A i \in 1..3 : Word(1)[i] = 0
  /\ Word(1)[4] = 1
<1>1. \A n \in {0, 1} : n \in Nat /\ (n \div 256) % 256 = 0 /\ n % 256 = n
  <2>1. 0 \div 256 = 0 /\ 1 \div 256 = 0 /\ 0 % 256 = 0 /\ 1 % 256 = 1
    OBVIOUS
  <2> QED
    BY <2>1
<1>2. ASSUME NEW n \in {0, 1}
      PROVE  Word(n)[1] = 0 /\ Word(n)[2] = 0 /\ Word(n)[3] = 0 /\ Word(n)[4] = n
  <2>1. n \in Nat /\ (n \div 256) % 256 = 0 /\ n % 256 = n
    BY <1>1
  <2>2. /\ Word(n)[1] = 0 /\ Word(n)[2] = 0
        /\ Word(n)[3] = (n \div 256) % 256 /\ Word(n)[4] = n % 256
    BY <2>1, WordType, ZenonT(40)
  <2> QED
    BY <2>1, <2>2, Zenon
<1>3. 1..4 = {1, 2, 3, 4} /\ 1..3 = {1, 2, 3}
  OBVIOUS
<1> QED
  BY <1>2, <1>3

\* A text of n bytes in a font whose name has f bytes.
IsText(t, f, n) == t \in Segments /\ t.kind = "text" /\ t.font = f /\ t.len = n

LEMMA TextFields ==
  ASSUME NEW t, NEW f, NEW n, IsText(t, f, n)
  PROVE  /\ f \in Nat /\ n \in Nat /\ f % 2 = 0 /\ n % 2 = 0
         /\ t.name \in Patterns /\ t.letters \in Patterns
         /\ t.style \in Seq(ByteSet) /\ Len(t.style) = 13
<1>1. f \in Evens /\ n \in Evens /\ t.name \in Patterns /\ t.letters \in Patterns
      /\ t.style \in [1..13 -> 0..255]
  BY DEF IsText, Segments
<1>2. t.style \in Seq(ByteSet) /\ Len(t.style) = 13
  <2>1. PICK s : s = t.style
    OBVIOUS
  <2>2. s \in [1..13 -> ByteSet]
    BY <1>1, <2>1 DEF ByteSet
  <2>3. s = [i \in 1..13 |-> s[i]] /\ \A i \in 1..13 : s[i] \in ByteSet
    BY <2>2
  <2>4. s \in Seq(ByteSet) /\ Len(s) = 13
    <3>1. [i \in 1..13 |-> s[i]] \in Seq(ByteSet) /\ Len([i \in 1..13 |-> s[i]]) = 13
      BY <2>3
    <3> QED
      BY <2>3, <3>1, Zenon
  <2> QED
    BY <2>1, <2>4, Zenon
<1> QED
  BY <1>1, <1>2 DEF Evens

\* The parts of a text: two words, the name of the font, its description, a word, the letters.
TextParts(b, t, f, n) ==
  /\ b \in Seq(ByteSet) /\ Len(b) = 25 + f + n
  /\ \A i \in 1..4 : b[i] = 0
  /\ \A i \in 1..4 : b[4 + i] = Word(f)[i]
  /\ \A i \in 1..f : b[8 + i] = Letters(f, t.name)[i]
  /\ \A i \in 1..13 : b[8 + f + i] = t.style[i]
  /\ \A i \in 1..4 : b[21 + f + i] = Word(n)[i]
  /\ \A i \in 1..n : b[25 + f + i] = Letters(n, t.letters)[i]

LEMMA TextBytes ==
  ASSUME NEW t, NEW f, NEW n, IsText(t, f, n)
  PROVE  TextParts(Bytes(t), t, f, n)
<1> DEFINE a == Word(0)
           b == Word(f)
           c == Letters(f, t.name)
           d == t.style
           e == Word(n)
           g == Letters(n, t.letters)
<1>0. f \in Nat /\ n \in Nat
  BY TextFields, Zenon
<1>1. Bytes(t) = a \o b \o c \o d \o e \o g
  BY DEF Bytes, IsText
<1>2. /\ a \in Seq(ByteSet) /\ b \in Seq(ByteSet) /\ c \in Seq(ByteSet)
      /\ d \in Seq(ByteSet) /\ e \in Seq(ByteSet) /\ g \in Seq(ByteSet)
      /\ Len(a) = 4 /\ Len(b) = 4 /\ Len(c) = f /\ Len(d) = 13 /\ Len(e) = 4 /\ Len(g) = n
      /\ \A i \in 1..4 : a[i] = 0
  <2>1. a \in Seq(ByteSet) /\ Len(a) = 4 /\ \A i \in 1..4 : a[i] = 0
    <3>1. 0 \in Nat
      OBVIOUS
    <3> QED
      BY <3>1, Tags, WordType, Zenon
  <2>2. b \in Seq(ByteSet) /\ Len(b) = 4 /\ e \in Seq(ByteSet) /\ Len(e) = 4
    BY <1>0, WordType, Zenon
  <2>3. c \in Seq(ByteSet) /\ Len(c) = f /\ g \in Seq(ByteSet) /\ Len(g) = n
    <3>1. t.name \in Patterns /\ t.letters \in Patterns
      BY TextFields, Zenon
    <3> QED
      BY <1>0, <3>1, LettersType, ZenonT(60)
  <2>4. d \in Seq(ByteSet) /\ Len(d) = 13
    BY TextFields, Zenon
  <2> QED
    BY <2>1, <2>2, <2>3, <2>4, Zenon
<1> HIDE DEF a, b, c, d, e, g
<1> USE <1>0
<1> DEFINE four == 4
           eight == 8
           thirteen == 13
<1>3. four \in Nat /\ eight \in Nat /\ thirteen \in Nat /\ four + four = eight
  OBVIOUS
<1>4. Len(a) = four /\ Len(b) = four /\ Len(e) = four /\ Len(d) = thirteen
  BY <1>2
<1> HIDE DEF four, eight, thirteen
<1>5. PICK p1 : Concat(p1, a, four, b, four)
  BY <1>2, <1>4, Zenon DEF Concat
<1>6. /\ p1 \in Seq(ByteSet) /\ Len(p1) = eight
      /\ \A i \in 1..four : p1[i] = a[i]
      /\ \A i \in 1..four : p1[four + i] = b[i]
  BY <1>3, <1>5, ConcatBytes
<1>7. PICK p2 : Concat(p2, p1, eight, c, f)
  BY <1>2, <1>6, Zenon DEF Concat
<1>8. /\ p2 \in Seq(ByteSet) /\ Len(p2) = eight + f
      /\ \A i \in 1..eight : p2[i] = p1[i]
      /\ \A i \in 1..f : p2[eight + i] = c[i]
  BY <1>3, <1>7, ConcatBytes
<1>9. PICK p3 : Concat(p3, p2, eight + f, d, thirteen)
  BY <1>2, <1>4, <1>8, Zenon DEF Concat
<1>10. /\ p3 \in Seq(ByteSet) /\ Len(p3) = eight + f + thirteen
       /\ \A i \in 1..eight + f : p3[i] = p2[i]
       /\ \A i \in 1..thirteen : p3[eight + f + i] = d[i]
  <2>1. eight + f \in Nat
    BY <1>0, <1>3
  <2> QED
    BY <1>3, <1>9, <2>1, ConcatBytes
<1>11. PICK p4 : Concat(p4, p3, eight + f + thirteen, e, four)
  BY <1>2, <1>4, <1>10, Zenon DEF Concat
<1>12. /\ p4 \in Seq(ByteSet) /\ Len(p4) = eight + f + thirteen + four
       /\ \A i \in 1..eight + f + thirteen : p4[i] = p3[i]
       /\ \A i \in 1..four : p4[eight + f + thirteen + i] = e[i]
  <2>1. eight + f + thirteen \in Nat
    BY <1>0, <1>3
  <2> QED
    BY <1>3, <1>11, <2>1, ConcatBytes
<1>13. PICK p5 : Concat(p5, p4, eight + f + thirteen + four, g, n)
  BY <1>2, <1>12, Zenon DEF Concat
<1>14. /\ p5 \in Seq(ByteSet) /\ Len(p5) = eight + f + thirteen + four + n
       /\ \A i \in 1..eight + f + thirteen + four : p5[i] = p4[i]
       /\ \A i \in 1..n : p5[eight + f + thirteen + four + i] = g[i]
  <2>1. eight + f + thirteen + four \in Nat
    BY <1>0, <1>3
  <2> QED
    BY <1>13, <2>1, ConcatBytes
<1>15. Bytes(t) = p5
  BY <1>1, <1>5, <1>7, <1>9, <1>11, <1>13, Zenon DEF Concat
<1>16. four = 4 /\ eight = 8 /\ thirteen = 13
  BY DEF four, eight, thirteen
<1>17. /\ \A i \in 1..25 + f : p5[i] = p4[i]
       /\ \A i \in 1..21 + f : p5[i] = p3[i]
       /\ \A i \in 1..8 + f : p5[i] = p2[i]
       /\ \A i \in 1..8 : p5[i] = p1[i]
  <2>1. 8 + f + 13 = 21 + f /\ 21 + f + 4 = 25 + f
    OBVIOUS
  <2>2. \A i \in 1..25 + f : p5[i] = p4[i]
    BY <1>14, <1>16, <2>1
  <2>3. \A i \in 1..21 + f : i \in 1..25 + f /\ p4[i] = p3[i]
    BY <1>12, <1>16, <2>1
  <2>4. \A i \in 1..8 + f : i \in 1..21 + f /\ p3[i] = p2[i]
    BY <1>10, <1>16, <2>1
  <2>5. \A i \in 1..8 : i \in 1..8 + f /\ p2[i] = p1[i]
    BY <1>8, <1>16, <2>1
  <2> QED
    BY <2>2, <2>3, <2>4, <2>5, Zenon
<1>18. /\ \A i \in 1..4 : p5[i] = 0
       /\ \A i \in 1..4 : p5[4 + i] = b[i]
  <2>1. \A i \in 1..4 : i \in 1..8 /\ 4 + i \in 1..8
    OBVIOUS
  <2>2. \A i \in 1..4 : p1[i] = a[i] /\ p1[4 + i] = b[i]
    BY <1>6, <1>16
  <2> QED
    BY <1>2, <1>17, <2>1, <2>2, Zenon
<1>19. /\ \A i \in 1..f : p5[8 + i] = c[i]
       /\ \A i \in 1..13 : p5[8 + f + i] = d[i]
       /\ \A i \in 1..4 : p5[21 + f + i] = e[i]
  <2>1. /\ \A i \in 1..f : 8 + i \in 1..8 + f
        /\ \A i \in 1..13 : 8 + f + i \in 1..21 + f
        /\ \A i \in 1..4 : 21 + f + i \in 1..25 + f
    OBVIOUS
  <2>2. /\ \A i \in 1..f : p2[8 + i] = c[i]
        /\ \A i \in 1..13 : p3[8 + f + i] = d[i]
    BY <1>8, <1>10, <1>16
  <2>3. \A i \in 1..4 : p4[21 + f + i] = e[i]
    <3>1. 8 + f + 13 = 21 + f
      OBVIOUS
    <3> QED
      BY <1>12, <1>16, <3>1
  <2> QED
    BY <1>17, <2>1, <2>2, <2>3, Zenon
<1>20. /\ Len(p5) = 25 + f + n
       /\ \A i \in 1..n : p5[25 + f + i] = g[i]
  <2>1. 8 + f + 13 + 4 = 25 + f
    OBVIOUS
  <2> QED
    BY <1>14, <1>16, <2>1
<1> QED
  <2>1. TextParts(p5, t, f, n)
    BY <1>14, <1>18, <1>19, <1>20, Zenon DEF b, c, d, e, g, TextParts
  <2> QED
    BY <1>15, <2>1, Zenon

\* The parts of a smiley: three words and its name.
LEMMA SmileyBytes ==
  ASSUME NEW code \in Nat, NEW n \in Nat
  PROVE  LET b == Bytes(Smiley(code, n)) IN
         /\ b \in Seq(ByteSet) /\ Len(b) = 12 + n
         /\ \A i \in 1..4 : b[i] = Word(1)[i]
         /\ \A i \in 1..4 : b[4 + i] = Word(code)[i]
         /\ \A i \in 1..4 : b[8 + i] = Word(n)[i]
<1> DEFINE a == Word(1)
           b == Word(code)
           c == Word(n)
           d == [i \in 1..n |-> 58]
<1>1. Bytes(Smiley(code, n)) = a \o b \o c \o d
  BY DEF Bytes, Smiley
<1>2. /\ a \in Seq(ByteSet) /\ b \in Seq(ByteSet) /\ c \in Seq(ByteSet) /\ d \in Seq(ByteSet)
      /\ Len(a) = 4 /\ Len(b) = 4 /\ Len(c) = 4 /\ Len(d) = n
  <2>1. d \in Seq(ByteSet) /\ Len(d) = n
    BY DEF ByteSet
  <2> QED
    BY <2>1, WordType
<1> HIDE DEF a, b, c, d
<1> DEFINE four == 4
           eight == 8
           twelve == 12
<1>3. four \in Nat /\ eight \in Nat /\ twelve \in Nat /\ four + four = eight /\ eight + four = twelve
  OBVIOUS
<1>4. Len(a) = four /\ Len(b) = four /\ Len(c) = four
  BY <1>2
<1> HIDE DEF four, eight, twelve
<1>5. PICK p1 : Concat(p1, a, four, b, four)
  BY <1>2, <1>4, Zenon DEF Concat
<1>6. /\ p1 \in Seq(ByteSet) /\ Len(p1) = eight
      /\ \A i \in 1..four : p1[i] = a[i]
      /\ \A i \in 1..four : p1[four + i] = b[i]
  BY <1>3, <1>5, ConcatBytes
<1>7. PICK p2 : Concat(p2, p1, eight, c, four)
  BY <1>2, <1>4, <1>6, Zenon DEF Concat
<1>8. /\ p2 \in Seq(ByteSet) /\ Len(p2) = twelve
      /\ \A i \in 1..eight : p2[i] = p1[i]
      /\ \A i \in 1..four : p2[eight + i] = c[i]
  BY <1>3, <1>7, ConcatBytes
<1>9. PICK p3 : Concat(p3, p2, twelve, d, n)
  BY <1>2, <1>8, Zenon DEF Concat
<1>10. /\ p3 \in Seq(ByteSet) /\ Len(p3) = twelve + n
       /\ \A i \in 1..twelve : p3[i] = p2[i]
  BY <1>3, <1>9, ConcatBytes
<1>11. Bytes(Smiley(code, n)) = p3
  BY <1>1, <1>5, <1>7, <1>9, Zenon DEF Concat
<1>12. four = 4 /\ eight = 8 /\ twelve = 12
  BY DEF four, eight, twelve
<1>13. \A i \in 1..4 : i \in 1..8 /\ 4 + i \in 1..8 /\ i \in 1..12 /\ 4 + i \in 1..12 /\ 8 + i \in 1..12
  OBVIOUS
<1>14. \A i \in 1..4 : p3[i] = a[i] /\ p3[4 + i] = b[i] /\ p3[8 + i] = c[i]
  BY <1>6, <1>8, <1>10, <1>12, <1>13
<1> QED
  BY <1>10, <1>11, <1>12, <1>14 DEF a, b, c

\* A stray segment is bytes of the letter A.
LEMMA StrayBytes ==
  ASSUME NEW n \in Nat
  PROVE  /\ Bytes(Stray(n)) \in Seq(ByteSet) /\ Len(Bytes(Stray(n))) = n
         /\ \A i \in 1..n : Bytes(Stray(n))[i] = IF i % 2 = 1 THEN 0 ELSE 65
<1>1. <<65>> \in Patterns /\ Len(<<65>>) = 1 /\ <<65>>[1] = 65
  BY DEF Patterns, Alphabet
<1>2. Bytes(Stray(n)) = Letters(n, <<65>>)
  BY DEF Bytes, Stray
<1>3. ASSUME NEW i \in 1..n
      PROVE  Letters(n, <<65>>)[i] = IF i % 2 = 1 THEN 0 ELSE 65
  <2>1. i \in Nat \ {0}
    OBVIOUS
  <2>2. LetterAt(i, <<65>>) = 65
    <3>1. PICK k \in DOMAIN <<65>> : LetterAt(i, <<65>>) = <<65>>[k]
      BY <1>1, <2>1, LetterAtType
    <3> QED
      BY <3>1
  <2>3. 65 \div 256 = 0 /\ 65 % 256 = 65
    OBVIOUS
  <2>4. Letters(n, <<65>>)[i] = IF i % 2 = 1 THEN LetterAt(i, <<65>>) \div 256
                                             ELSE LetterAt(i, <<65>>) % 256
    BY <1>1, LettersType
  <2> QED
    BY <2>2, <2>3, <2>4
<1> QED
  BY <1>1, <1>2, <1>3, LettersType

\* Segments are what the three operators make.
LEMMA SegmentForms ==
  ASSUME NEW seg \in Segments
  PROVE  \/ seg.kind = "text" /\ IsText(seg, seg.font, seg.len)
         \/ /\ seg.kind = "smiley" /\ seg.code \in Nat /\ seg.len \in Nat
            /\ seg = Smiley(seg.code, seg.len)
         \/ /\ seg.kind = "stray" /\ seg.len \in Nat \ {0} /\ seg = Stray(seg.len)
  BY DEF Segments, IsText, Smiley, Stray

LEMMA BytesType ==
  ASSUME NEW seg \in Segments
  PROVE  Bytes(seg) \in Seq(ByteSet) /\ Len(Bytes(seg)) = SegmentSize(seg)
<1>1. CASE seg.kind = "text"
  <2>1. PICK f, n : f = seg.font /\ n = seg.len
    OBVIOUS
  <2>2. IsText(seg, f, n)
    BY <1>1, <2>1 DEF IsText
  <2>3. SegmentSize(seg) = 25 + f + n
    BY <1>1, <2>1 DEF SegmentSize
  <2>4. Bytes(seg) \in Seq(ByteSet) /\ Len(Bytes(seg)) = 25 + f + n
    <3>1. TextParts(Bytes(seg), seg, f, n)
      BY <2>2, TextBytes, Zenon
    <3> QED
      BY <3>1 DEF TextParts
  <2> QED
    BY <2>3, <2>4, Zenon
<1>2. CASE seg.kind = "smiley"
  BY <1>2, SegmentForms, SmileyBytes DEF SegmentSize, Smiley
<1>3. CASE seg.kind = "stray"
  BY <1>3, SegmentForms, StrayBytes DEF SegmentSize, Stray
<1> QED
  BY <1>1, <1>2, <1>3, SegmentForms

-----------------------------------------------------------------------------
\* The bytes of a whole message.
Buffer(msg) == FlattenSeq([k \in DOMAIN msg |-> Bytes(msg[k])])

LEMMA BufferProperties ==
  ASSUME NEW msg \in Seq(Segments) \ {<<>>}
  PROVE  /\ Buffer(msg) \in Seq(ByteSet) /\ Len(Buffer(msg)) = Size(msg)
         /\ \A k \in 1..Len(msg) : \A i \in 1..SegmentSize(msg[k]) :
              Buffer(msg)[Ends(msg)[k - 1] + i] = Bytes(msg[k])[i]
<1> DEFINE n == Len(msg)
           seqs == [k \in 1..n |-> Bytes(msg[k])]
           end == Ends(msg)
<1>1. n \in Nat \ {0} /\ DOMAIN msg = 1..n /\ \A k \in 1..n : msg[k] \in Segments
  OBVIOUS
<1>2. \A k \in 1..n : seqs[k] = Bytes(msg[k]) /\ Len(seqs[k]) = SegmentSize(msg[k])
  BY <1>1, BytesType
<1>3. seqs \in [1..n -> Seq(ByteSet)]
  BY <1>1, BytesType
<1>4. end \in [0..n -> Nat] /\ end[0] = 0
      /\ \A k \in 1..n : end[k] = end[k - 1] + SegmentSize(msg[k])
  BY EndsDef
<1>5. Buffer(msg) = FlattenSeq(seqs) /\ Size(msg) = end[n]
  BY <1>1 DEF Buffer, Size
<1> HIDE DEF n, seqs, end
<1>6. EndAt(end, n, seqs)
  BY <1>2, <1>4 DEF EndAt
<1>7. /\ FlattenSeq(seqs) \in Seq(ByteSet)
      /\ Len(FlattenSeq(seqs)) = end[n]
      /\ \A k \in 1..n : \A i \in 1..Len(seqs[k]) :
           FlattenSeq(seqs)[end[k - 1] + i] = seqs[k][i]
  <2>1. Flattened(ByteSet, n, seqs, end)
    BY <1>1, <1>3, <1>4, <1>6, Zenon DEF Flattened
  <2> QED
    BY <2>1, FlattenProperties
<1>8. \A k \in 1..n : \A i \in 1..SegmentSize(msg[k]) :
           Buffer(msg)[end[k - 1] + i] = Bytes(msg[k])[i]
  BY <1>2, <1>5, <1>7
<1> QED
  BY <1>5, <1>7, <1>8 DEF n, end
=============================================================================
