-------------------------- MODULE ChatMessageProofs --------------------------
(***************************************************************************)
(* What intToSWord and bytesToLEInt do to every length: the parser reads   *)
(* back what sendMessage wrote exactly when no byte of it is negative.     *)
(* Then what the parser does with whole messages: every sound one arrives, *)
(* and so does a single text of any length and of any letters, but for the *)
(* few that lead back to the header of the message.                        *)
(***************************************************************************)
EXTENDS ChatMessageBytes

LEMMA TwoBytes ==
  ASSUME NEW n \in Nat
  PROVE  /\ n = 256 * (n \div 256) + (n % 256)
         /\ n % 256 \in 0..255 /\ n \div 256 \in Nat /\ (n \div 256) % 256 \in 0..255
         /\ n < 65536 => (n \div 256) % 256 = n \div 256
<1>1. n = 256 * (n \div 256) + (n % 256) /\ n % 256 \in 0..255 /\ n \div 256 \in Nat
  <2>1. n % 256 \in 0..255 /\ n \div 256 \in Nat
    OBVIOUS
  <2>2. n = 256 * (n \div 256) + (n % 256)
    BY Z3
  <2> QED
    BY <2>1, <2>2
<1>2. ASSUME NEW m \in Nat
      PROVE  m % 256 \in 0..255 /\ (m < 256 => m % 256 = m)
  OBVIOUS
<1>3. n < 65536 => n \div 256 < 256
  BY <1>1
<1> QED
  BY <1>1, <1>2, <1>3

\* What bytesToLEInt makes of two bytes behind two zeros.
LEMMA BothPositive ==
  ASSUME NEW c \in 0..255, NEW d \in 0..255, c < 128, d < 128
  PROVE  BytesToLEInt(0, 0, c, d) = c * 256 + d
<1>1. Char(0) = 0
  BY DEF Char
<1> QED
  BY <1>1 DEF BytesToLEInt

LEMMA LowNegative ==
  ASSUME NEW c \in 0..255, NEW d \in 0..255, d >= 128
  PROVE  BytesToLEInt(0, 0, c, d) = d - 256
  BY DEF BytesToLEInt, Char

LEMMA HighNegative ==
  ASSUME NEW c \in 0..255, NEW d \in 0..255, c >= 128, d < 128
  PROVE  BytesToLEInt(0, 0, c, d) = (c - 256) * 256 + d
<1>1. Char(c) = c - 256
  BY DEF Char
<1> QED
  BY <1>1 DEF BytesToLEInt

\* What the two low bytes of a length are read as.
ReadAs(hi, lo, r) ==
  /\ lo >= 128 => r = lo - 256
  /\ lo < 128 /\ hi < 128 => r = hi * 256 + lo
  /\ lo < 128 /\ hi >= 128 => r = (hi - 256) * 256 + lo

LEMMA BytesReadAs ==
  ASSUME NEW hi \in ByteSet, NEW lo \in ByteSet
  PROVE  ReadAs(hi, lo, BytesToLEInt(0, 0, hi, lo))
<1> DEFINE r == BytesToLEInt(0, 0, hi, lo)
<1>0. hi \in 0..255 /\ lo \in 0..255
  BY DEF ByteSet
<1>1. lo >= 128 => r = lo - 256
  BY <1>0, LowNegative
<1>2. lo < 128 /\ hi < 128 => r = hi * 256 + lo
  BY <1>0, BothPositive
<1>3. lo < 128 /\ hi >= 128 => r = (hi - 256) * 256 + lo
  BY <1>0, HighNegative, SMTT(60)
<1> HIDE DEF r
<1>4. ReadAs(hi, lo, r)
  BY <1>1, <1>2, <1>3 DEF ReadAs
<1> QED
  BY <1>4 DEF r

LEMMA ReadBackBytes ==
  ASSUME NEW n \in Nat
  PROVE  ReadBack(n) = BytesToLEInt(0, 0, (n \div 256) % 256, n % 256)
  BY WordType, ZenonT(60) DEF ReadBack

LEMMA ReadBackAs ==
  ASSUME NEW n \in Nat, n \div 256 \in ByteSet
  PROVE  ReadAs(n \div 256, n % 256, ReadBack(n))
<1> DEFINE hi == n \div 256
           lo == n % 256
<1>1. hi \in ByteSet /\ lo \in ByteSet
  BY TwoBytes DEF ByteSet
<1>2. hi % 256 = hi
  <2> HIDE DEF hi
  <2> QED
    BY <1>1 DEF ByteSet
<1>3. ReadBack(n) = BytesToLEInt(0, 0, hi, lo)
  BY <1>2, ReadBackBytes
<1> HIDE DEF hi, lo
<1>4. ReadAs(hi, lo, BytesToLEInt(0, 0, hi, lo))
  BY <1>1, BytesReadAs
<1>5. ReadAs(hi, lo, ReadBack(n))
  BY <1>3, <1>4
<1> QED
  BY <1>5 DEF hi, lo

\* A length whose bytes are all below 128 is read back as it was written.
THEOREM SoundLength == \A n \in Nat : Sound(n) => ReadBack(n) = n
<1> SUFFICES ASSUME NEW n \in Nat, Sound(n) PROVE ReadBack(n) = n
  OBVIOUS
<1> DEFINE hi == n \div 256
           lo == n % 256
<1>1. n = 256 * hi + lo /\ hi \in 0..255 /\ lo \in 0..255 /\ hi % 256 = hi
  BY TwoBytes DEF Sound
<1>2. hi < 128 /\ lo < 128
  BY <1>1 DEF Sound
<1>3. ReadBack(n) = BytesToLEInt(0, 0, hi, lo)
  BY <1>1, ReadBackBytes
<1> HIDE DEF hi, lo
<1>4. hi \in 0..255 /\ lo \in 0..255
  BY <1>1
<1>5. BytesToLEInt(0, 0, hi, lo) = hi * 256 + lo
  BY <1>2, <1>4, BothPositive
<1> QED
  BY <1>1, <1>3, <1>5

\* A length whose low byte is 128 or more is read as that byte less 256, whatever its
\* upper byte: always a negative number.
THEOREM UnsoundLength ==
  \A n \in Nat : n % 256 >= 128 => ReadBack(n) = (n % 256) - 256 /\ ReadBack(n) < 0
<1> SUFFICES ASSUME NEW n \in Nat, n % 256 >= 128
             PROVE  ReadBack(n) = (n % 256) - 256 /\ ReadBack(n) < 0
  OBVIOUS
<1>1. n % 256 \in 0..255 /\ (n \div 256) % 256 \in 0..255
  BY TwoBytes
<1>2. BytesToLEInt(0, 0, (n \div 256) % 256, n % 256) = (n % 256) - 256
  BY <1>1, LowNegative, SMTT(60)
<1> QED
  BY <1>1, <1>2, ReadBackBytes

\* A length up to 65535 is read back as it was written only if it is sound.
THEOREM SoundIsNeeded == \A n \in Nat : n < 65536 /\ ReadBack(n) = n => Sound(n)
<1> SUFFICES ASSUME NEW n \in Nat, n < 65536, ReadBack(n) = n PROVE Sound(n)
  OBVIOUS
<1> DEFINE hi == n \div 256
           lo == n % 256
<1>1. n = 256 * hi + lo /\ hi \in 0..255 /\ lo \in 0..255 /\ hi % 256 = hi
  BY TwoBytes
<1>2. ReadBack(n) = BytesToLEInt(0, 0, hi, lo)
  BY <1>1, ReadBackBytes
<1> HIDE DEF hi, lo
<1>3. lo < 128
  BY <1>1, UnsoundLength DEF lo
<1>4. hi < 128
  <2> SUFFICES ASSUME hi >= 128 PROVE FALSE
    BY <1>1
  <2>1. hi \in 0..255 /\ lo \in 0..255
    BY <1>1
  <2>2. BytesToLEInt(0, 0, hi, lo) = (hi - 256) * 256 + lo
    BY <1>3, <2>1, HighNegative, SMTT(60)
  <2> QED
    BY <1>1, <1>2, <1>3, <2>2
<1>5. n < 32768
  BY <1>1, <1>3, <1>4
<1> QED
  BY <1>3, <1>5 DEF Sound, lo

-----------------------------------------------------------------------------
(***************************************************************************)
(* The types of what is read.                                              *)
(***************************************************************************)
Verdicts == {"ok", "dropped", "aborted"}

\* bytesToLEInt case by case.
LEMMA JoinedBytes ==
  ASSUME NEW a \in ByteSet, NEW b \in ByteSet, NEW c \in ByteSet, NEW d \in ByteSet
  PROVE  /\ d >= 128 => BytesToLEInt(a, b, c, d) = d - 256
         /\ d < 128 /\ c >= 128 => BytesToLEInt(a, b, c, d) = (c - 256) * 256 + d
         /\ d < 128 /\ c < 128 /\ b >= 128 =>
              BytesToLEInt(a, b, c, d) = (b - 256) * 65536 + c * 256 + d
         /\ d < 128 /\ c < 128 /\ b < 128 /\ a >= 128 =>
              BytesToLEInt(a, b, c, d) = (a - 256) * 16777216 + b * 65536 + c * 256 + d
         /\ d < 128 /\ c < 128 /\ b < 128 /\ a < 128 =>
              BytesToLEInt(a, b, c, d) = a * 16777216 + b * 65536 + c * 256 + d
<1>1. ASSUME NEW x \in ByteSet
      PROVE  (x >= 128 => Char(x) = x - 256) /\ (x < 128 => Char(x) = x)
  BY DEF Char, ByteSet
<1>2. a \in 0..255 /\ b \in 0..255 /\ c \in 0..255 /\ d \in 0..255
  BY DEF ByteSet
<1>3. d >= 128 => BytesToLEInt(a, b, c, d) = Char(d)
  BY <1>2 DEF BytesToLEInt
<1>4. d < 128 /\ c >= 128 => BytesToLEInt(a, b, c, d) = Char(c) * 256 + d
  BY <1>2 DEF BytesToLEInt
<1>5. d < 128 /\ c < 128 /\ b >= 128 =>
        BytesToLEInt(a, b, c, d) = Char(b) * 65536 + c * 256 + d
  BY <1>2 DEF BytesToLEInt
<1>6. d < 128 /\ c < 128 /\ b < 128 =>
        BytesToLEInt(a, b, c, d) = Char(a) * 16777216 + b * 65536 + c * 256 + d
  BY <1>2 DEF BytesToLEInt
<1> QED
  BY <1>1, <1>3, <1>4, <1>5, <1>6

LEMMA BytesToLEIntType ==
  ASSUME NEW a \in ByteSet, NEW b \in ByteSet, NEW c \in ByteSet, NEW d \in ByteSet
  PROVE  BytesToLEInt(a, b, c, d) \in Int
<1> DEFINE v == BytesToLEInt(a, b, c, d)
<1>1. a \in 0..255 /\ b \in 0..255 /\ c \in 0..255 /\ d \in 0..255
  BY DEF ByteSet
<1>2. /\ d >= 128 => v = d - 256
      /\ d < 128 /\ c >= 128 => v = (c - 256) * 256 + d
      /\ d < 128 /\ c < 128 /\ b >= 128 => v = (b - 256) * 65536 + c * 256 + d
      /\ d < 128 /\ c < 128 /\ b < 128 /\ a >= 128 =>
           v = (a - 256) * 16777216 + b * 65536 + c * 256 + d
      /\ d < 128 /\ c < 128 /\ b < 128 /\ a < 128 =>
           v = a * 16777216 + b * 65536 + c * 256 + d
  BY JoinedBytes
<1> HIDE DEF v
<1>3. v \in Int
  BY <1>1, <1>2
<1> QED
  BY <1>3 DEF v

\* The four bytes are the tag of a text or a smiley only if the first three are zero.
LEMMA TagBytes ==
  ASSUME NEW a \in ByteSet, NEW b \in ByteSet, NEW c \in ByteSet, NEW d \in ByteSet,
         BytesToLEInt(a, b, c, d) \in {0, 1}
  PROVE  a = 0 /\ b = 0 /\ c = 0 /\ d \in {0, 1}
<1> DEFINE v == BytesToLEInt(a, b, c, d)
<1>1. a \in 0..255 /\ b \in 0..255 /\ c \in 0..255 /\ d \in 0..255
  BY DEF ByteSet
<1>2. /\ d >= 128 => v = d - 256
      /\ d < 128 /\ c >= 128 => v = (c - 256) * 256 + d
      /\ d < 128 /\ c < 128 /\ b >= 128 => v = (b - 256) * 65536 + c * 256 + d
      /\ d < 128 /\ c < 128 /\ b < 128 /\ a >= 128 =>
           v = (a - 256) * 16777216 + b * 65536 + c * 256 + d
      /\ d < 128 /\ c < 128 /\ b < 128 /\ a < 128 =>
           v = a * 16777216 + b * 65536 + c * 256 + d
  BY JoinedBytes
<1>3. 0 <= v /\ v < 2
  OBVIOUS
<1> HIDE DEF v
<1>4. d < 128
  BY <1>1, <1>2, <1>3
<1>5. c < 128
  BY <1>1, <1>2, <1>3, <1>4
<1>6. b < 128
  BY <1>1, <1>2, <1>3, <1>4, <1>5
<1>7. a < 128
  BY <1>1, <1>2, <1>3, <1>4, <1>5, <1>6
<1>8. v = a * 16777216 + b * 65536 + c * 256 + d
  BY <1>1, <1>2, <1>4, <1>5, <1>6, <1>7
<1> QED
  BY <1>1, <1>3, <1>8

LEMMA AndType ==
  ASSUME NEW a \in Verdicts, NEW b \in Verdicts
  PROVE  a && b \in Verdicts /\ (a && b = "ok" <=> a = "ok" /\ b = "ok")
  BY DEF &&, Verdicts

LEMMA ReadTypes ==
  ASSUME NEW o \in Int, NEW n \in Int, Len(buf) \in Nat
  PROVE  /\ ReadLEInt(o) \in {"ok", "dropped"}
         /\ ReadStringn(o, n) \in Verdicts /\ (o >= 0 => ReadStringn(o, n) \in {"ok", "dropped"})
         /\ Encode(o, n) \in Verdicts
<1>1. ReadLEInt(o) \in {"ok", "dropped"}
  BY DEF ReadLEInt
<1>2. Left(o) \in Int
  BY DEF Left
<1>3. ReadStringn(o, n) \in Verdicts /\ (o >= 0 => ReadStringn(o, n) \in {"ok", "dropped"})
  <2>1. CASE n = 0
    BY <2>1 DEF ReadStringn, Verdicts
  <2>2. CASE n # 0 /\ Left(o) < n
    BY <1>2, <2>2 DEF ReadStringn, Verdicts
  <2>3. CASE n # 0 /\ Left(o) >= n
    <3>1. ReadStringn(o, n) = IF o < 0 THEN "aborted" ELSE "ok"
      BY <1>2, <2>3 DEF ReadStringn
    <3> QED
      BY <3>1 DEF Verdicts
  <2> QED
    BY <1>2, <2>1, <2>2, <2>3
<1>4. Encode(o, n) \in Verdicts
  BY DEF Encode, Verdicts
<1> QED
  BY <1>1, <1>3, <1>4


\* The message that is parsed does not change.
Buffered == sent \in Messages /\ buf = Buffer(sent)

LEMMA BufferedBytes ==
  ASSUME Buffered
  PROVE  /\ sent \in Seq(Segments) \ {<<>>}
         /\ buf \in Seq(ByteSet) /\ Len(buf) = Size(sent) /\ Len(buf) \in Nat
         /\ \A o : Byte(o) \in ByteSet /\ LEInt(o) \in Int
<1>1. sent \in Seq(Segments) \ {<<>>}
  BY MessagesAssumption DEF Buffered
<1>2. buf \in Seq(ByteSet) /\ Len(buf) = Size(sent) /\ Len(buf) \in Nat
  <2>1. Buffer(sent) \in Seq(ByteSet) /\ Len(Buffer(sent)) = Size(sent)
    BY <1>1, BufferProperties
  <2> QED
    BY <2>1 DEF Buffered
<1>3. ASSUME NEW o PROVE Byte(o) \in ByteSet
  <2>1. o \in 0..Len(buf) - 1 => buf[o + 1] \in ByteSet
    BY <1>2
  <2> QED
    BY <2>1 DEF Byte, ByteSet
<1>4. ASSUME NEW o PROVE LEInt(o) \in Int
  BY <1>3, BytesToLEIntType DEF LEInt
<1> QED
  BY <1>1, <1>2, <1>3, <1>4

TypeInv == TypeOK /\ buf = Buffer(sent)

LEMMA InitTypes == Init => TypeInv
<1> SUFFICES ASSUME Init PROVE TypeInv
  OBVIOUS
<1>1. Buffered
  BY DEF Init, Buffered, Buffer
<1>2. buf \in Seq(ByteSet) /\ Len(buf) = Size(sent)
  BY <1>1, BufferedBytes
<1>3. \A i \in DOMAIN buf : buf[i] \in 0..255
  <2>1. \A i \in DOMAIN buf : buf[i] \in ByteSet
    BY <1>2
  <2> QED
    BY <2>1 DEF ByteSet
<1>4. shown = <<>> /\ offset = 0 /\ outcome = "parsing"
  BY DEF Init
<1>5. shown \in Seq(Pieces)
  BY <1>4
<1>6. sent \in Messages /\ buf = Buffer(sent)
  BY <1>1 DEF Buffered
<1>7. TypeOK
  BY <1>2, <1>3, <1>4, <1>5, <1>6 DEF TypeOK
<1> QED
  BY <1>6, <1>7 DEF TypeInv

\* A round keeps the types if its verdict, its pieces and its end have theirs.
LEMMA RoundTypes ==
  ASSUME TypeInv, NEW verdict \in Verdicts, NEW pieces, NEW end \in Int,
         verdict = "ok" => pieces \in Seq(Pieces),
         Round(verdict, pieces, end)
  PROVE  TypeInv'
<1>1. /\ sent' = sent /\ buf' = buf /\ offset' = end
      /\ IF verdict = "ok"
         THEN shown' = shown \o pieces /\ outcome' = IF IsEnd(end) THEN "shown" ELSE "parsing"
         ELSE outcome' = verdict /\ shown' = shown
  BY DEF Round
<1>2. shown' \in Seq(Pieces)
  <2>1. shown \in Seq(Pieces)
    BY DEF TypeInv, TypeOK
  <2>2. CASE verdict = "ok"
    <3>1. pieces \in Seq(Pieces) /\ shown' = shown \o pieces
      BY <1>1, <2>2
    <3>2. shown \o pieces \in Seq(Pieces)
      BY <2>1, <3>1, ConcatProperties
    <3> QED
      BY <3>1, <3>2
  <2>3. CASE verdict # "ok"
    BY <1>1, <2>1, <2>3
  <2> QED
    BY <2>2, <2>3
<1>3. outcome' \in {"parsing", "shown", "dropped", "aborted"}
  BY <1>1 DEF Verdicts
<1>4. TypeOK'
  <2>1. (sent \in Messages /\ Len(buf) = Size(sent) /\ \A i \in DOMAIN buf : buf[i] \in 0..255)'
    <3>1. sent \in Messages /\ Len(buf) = Size(sent) /\ \A i \in DOMAIN buf : buf[i] \in 0..255
      BY DEF TypeInv, TypeOK
    <3> QED
      BY <1>1, <3>1
  <2> QED
    BY <1>1, <1>2, <1>3, <2>1 DEF TypeOK
<1>5. (buf = Buffer(sent))'
  BY <1>1 DEF TypeInv
<1> QED
  BY <1>4, <1>5 DEF TypeInv

LEMMA TypesBuffered ==
  ASSUME TypeInv PROVE Buffered
  BY DEF TypeInv, TypeOK, Buffered

LEMMA TextTypes ==
  ASSUME TypeInv, ParseText(offset + 4)
  PROVE  TypeInv'
<1> DEFINE o    == offset + 4
           font == LEInt(o)
           info == o + 4 + font
           len  == LEInt(info + 13)
           text == info + 17
           size == StringLen(text, len)
           v1 == ReadLEInt(o)
           v2 == ReadStringn(o + 4, font)
           v3 == ReadStringn(info, 13)
           v4 == ReadLEInt(info + 13)
           v5 == ReadStringn(text, len)
           v6 == Encode(text, size)
           v7 == Encode(o + 4, StringLen(o + 4, font))
           verdict == v1 && v2 && v3 && v4 && v5 && v6 && v7
           pieces == <<[kind |-> "text", at |-> text, len |-> size]>>
<1>1. Round(verdict, pieces, text + len)
  BY DEF ParseText
<1>2. offset \in Int /\ Len(buf) \in Nat /\ font \in Int /\ len \in Int
  BY TypesBuffered, BufferedBytes DEF TypeInv, TypeOK
<1> HIDE DEF font, len
<1>3. /\ o \in Int /\ o + 4 \in Int /\ info \in Int /\ info + 13 \in Int /\ text \in Int
      /\ text + len \in Int /\ info + 17 = (info + 13) + 4
  BY <1>2
<1> HIDE DEF o, info
<1>4. size \in Int /\ StringLen(o + 4, font) \in Int
  BY <1>2, <1>3 DEF StringLen, Left
<1> HIDE DEF text
<1>5. v1 \in Verdicts /\ v2 \in Verdicts /\ v3 \in Verdicts /\ v4 \in Verdicts
  <2>1. {"ok", "dropped"} \subseteq Verdicts
    BY DEF Verdicts
  <2>2. 13 \in Int
    OBVIOUS
  <2> QED
    BY <1>2, <1>3, <2>1, <2>2, ReadTypes
<1>6. v5 \in Verdicts /\ v6 \in Verdicts /\ v7 \in Verdicts
  BY <1>2, <1>3, <1>4, ReadTypes
<1> HIDE DEF size, v1, v2, v3, v5, v6, v7
<1>7. verdict \in Verdicts /\ (verdict = "ok" => v4 = "ok")
  <2> HIDE DEF v4
  <2> DEFINE w2 == v1 && v2
             w3 == w2 && v3
             w4 == w3 && v4
             w5 == w4 && v5
             w6 == w5 && v6
  <2>2. w2 \in Verdicts
    BY <1>5, AndType
  <2> HIDE DEF w2
  <2>3. w3 \in Verdicts
    BY <1>5, <2>2, AndType
  <2> HIDE DEF w3
  <2>4. w4 \in Verdicts /\ (w4 = "ok" => v4 = "ok")
    BY <1>5, <2>3, AndType
  <2> HIDE DEF w4
  <2>5. w5 \in Verdicts /\ (w5 = "ok" => w4 = "ok")
    BY <1>6, <2>4, AndType
  <2> HIDE DEF w5
  <2>6. w6 \in Verdicts /\ (w6 = "ok" => w5 = "ok")
    BY <1>6, <2>5, AndType
  <2> HIDE DEF w6
  <2>7. w6 && v7 \in Verdicts /\ (w6 && v7 = "ok" => w6 = "ok")
    BY <1>6, <2>6, AndType
  <2>8. verdict = w6 && v7
    BY DEF w2, w3, w4, w5, w6
  <2> QED
    BY <2>4, <2>5, <2>6, <2>7, <2>8
<1>8. verdict = "ok" => pieces \in Seq(Pieces)
  <2> SUFFICES ASSUME verdict = "ok" PROVE pieces \in Seq(Pieces)
    OBVIOUS
  <2>1. Left(info + 13) >= 4
    BY <1>3, <1>7 DEF ReadLEInt
  <2>2. size \in Nat
    BY <1>2, <1>3, <2>1 DEF size, StringLen, Left, text
  <2>3. [kind |-> "text", at |-> text, len |-> size] \in Pieces
    BY <1>3, <2>2 DEF Pieces
  <2> QED
    BY <2>3
<1> HIDE DEF verdict, pieces
<1> QED
  BY <1>1, <1>3, <1>7, <1>8, RoundTypes

LEMMA SmileyTypes ==
  ASSUME TypeInv, ParseSmiley(offset + 4)
  PROVE  TypeInv'
<1> DEFINE o    == offset + 4
           code == LEInt(o)
           len  == LEInt(o + 4)
           v1 == ReadLEInt(o)
           v2 == ReadLEInt(o + 4)
           v3 == ReadStringn(o + 8, len)
           read == v1 && v2 && v3
           smiley == IF code < 21 THEN <<[kind |-> "smiley", code |-> code]>> ELSE <<>>
           wild == <<[kind |-> "wild"]>>
<1>1. \/ code >= 0 /\ Round(read, smiley, o + 8 + len)
      \/ code < 0 /\ Round(read && "aborted", <<>>, o + 8 + len)
      \/ code < 0 /\ Round(read, wild, o + 8 + len)
  BY DEF ParseSmiley
<1>2. offset \in Int /\ Len(buf) \in Nat /\ code \in Int /\ len \in Int
  BY TypesBuffered, BufferedBytes DEF TypeInv, TypeOK
<1> HIDE DEF code, len
<1>3. o \in Int /\ o + 4 \in Int /\ o + 8 \in Int /\ o + 8 + len \in Int
  BY <1>2
<1> HIDE DEF o
<1>4. v1 \in Verdicts /\ v2 \in Verdicts /\ v3 \in Verdicts
  <2>1. {"ok", "dropped"} \subseteq Verdicts
    BY DEF Verdicts
  <2> QED
    BY <1>2, <1>3, <2>1, ReadTypes
<1> HIDE DEF v1, v2, v3
<1>5. read \in Verdicts /\ read && "aborted" \in Verdicts
  <2>1. v1 && v2 \in Verdicts
    BY <1>4, AndType
  <2>2. read \in Verdicts
    BY <1>4, <2>1, AndType
  <2>3. "aborted" \in Verdicts
    BY DEF Verdicts
  <2> QED
    BY <2>2, <2>3, AndType
<1>6. /\ code >= 0 => smiley \in Seq(Pieces)
      /\ <<>> \in Seq(Pieces)
      /\ wild \in Seq(Pieces)
  <2>1. code >= 0 /\ code < 21 => [kind |-> "smiley", code |-> code] \in Pieces
    BY <1>2 DEF Pieces
  <2>2. [kind |-> "wild"] \in Pieces
    BY DEF Pieces
  <2> QED
    BY <2>1, <2>2
<1> HIDE DEF read, smiley, wild
<1> DEFINE end == o + 8 + len
<1>7. end \in Int
  BY <1>3
<1> HIDE DEF end
<1>8. \/ code >= 0 /\ Round(read, smiley, end)
      \/ code < 0 /\ Round(read && "aborted", <<>>, end)
      \/ code < 0 /\ Round(read, wild, end)
  BY <1>1 DEF end
<1> QED
  BY <1>5, <1>6, <1>7, <1>8, RoundTypes

LEMMA SkipTypes ==
  ASSUME TypeInv, SkipUnknown(offset + 4)
  PROVE  TypeInv'
<1>1. Round("ok", <<>>, offset + 4)
  BY DEF SkipUnknown
<1>2. offset + 4 \in Int /\ "ok" \in Verdicts /\ <<>> \in Seq(Pieces)
  BY DEF TypeInv, TypeOK, Verdicts
<1> QED
  BY <1>1, <1>2, RoundTypes

LEMMA NextTypes == TypeInv /\ [Next]_vars => TypeInv'
<1> SUFFICES ASSUME TypeInv, [Next]_vars PROVE TypeInv'
  OBVIOUS
<1>1. CASE ParseText(offset + 4)
  BY <1>1, TextTypes
<1>2. CASE ParseSmiley(offset + 4)
  BY <1>2, SmileyTypes
<1>3. CASE SkipUnknown(offset + 4)
  BY <1>3, SkipTypes
<1>4. CASE CutShort
  BY <1>4 DEF CutShort, TypeInv, TypeOK
<1>5. CASE UNCHANGED vars
  BY <1>5 DEF vars, TypeInv, TypeOK
<1> QED
  BY <1>1, <1>2, <1>3, <1>4, <1>5 DEF Next

LEMMA Types == Spec => []TypeInv
  BY InitTypes, NextTypes, PTL DEF Spec

\* The variables keep their types, and the bytes of every message are as many as the
\* sizes sendMessage announces for it.
THEOREM TypeCorrect == Spec => []TypeOK
<1>1. TypeInv => TypeOK
  BY DEF TypeInv
<1> QED
  BY <1>1, Types, PTL

-----------------------------------------------------------------------------
(***************************************************************************)
(* What the parser finds where a segment begins.                           *)
(***************************************************************************)
\* The k-th segment is seg, and stands at the offsets from e up to end.
SegmentAt(k, seg, e, end) ==
  /\ k \in 1..Len(sent) /\ seg = sent[k]
  /\ e = Ends(sent)[k - 1] /\ end = Ends(sent)[k]

LEMMA SegmentView ==
  ASSUME Buffered, NEW k, NEW seg, NEW e, NEW end, SegmentAt(k, seg, e, end)
  PROVE  /\ seg \in Segments /\ e \in Nat /\ end = e + SegmentSize(seg) /\ end <= Len(buf)
         /\ k = Len(sent) => end = Len(buf)
         /\ \A i \in 1..SegmentSize(seg) :
              e + i - 1 \in 0..Len(buf) - 1 /\ Byte(e + i - 1) = Bytes(seg)[i]
<1>1. /\ k \in 1..Len(sent) /\ seg = sent[k]
      /\ e = Ends(sent)[k - 1] /\ end = Ends(sent)[k]
  BY DEF SegmentAt
<1>2. sent \in Seq(Segments) \ {<<>>} /\ Len(sent) \in Nat
  BY BufferedBytes
<1>3. seg \in Segments /\ k \in 0..Len(sent) /\ k - 1 \in 0..Len(sent) /\ Len(sent) \in 0..Len(sent)
  BY <1>1, <1>2
<1>4. e \in Nat /\ end \in Nat /\ end = e + SegmentSize(seg)
  BY <1>1, <1>2, <1>3, EndsDef
<1>5. Len(buf) \in Nat /\ Len(buf) = Ends(sent)[Len(sent)]
  BY BufferedBytes DEF Size
<1>6. end <= Len(buf)
  <2>1. CASE k = Len(sent)
    <3>1. end = Len(buf)
      BY <1>1, <1>5, <2>1, Zenon
    <3> QED
      BY <1>4, <3>1
  <2>2. CASE k # Len(sent)
    <3>1. k < Len(sent)
      BY <1>1, <1>2, <2>2
    <3>2. Ends(sent)[k] < Ends(sent)[Len(sent)]
      BY <1>2, <1>3, <3>1, EndsGrow
    <3>3. end < Len(buf)
      BY <1>1, <1>5, <3>2, Zenon
    <3> QED
      BY <1>4, <1>5, <3>3
  <2> QED
    BY <2>1, <2>2
<1>7. ASSUME NEW i \in 1..SegmentSize(seg)
      PROVE  e + i - 1 \in 0..Len(buf) - 1 /\ Byte(e + i - 1) = Bytes(seg)[i]
  <2>1. SegmentSize(seg) \in Nat
    BY <1>3, SegmentSizeType
  <2>2. e + i - 1 \in 0..Len(buf) - 1 /\ (e + i - 1) + 1 = e + i
    BY <1>4, <1>5, <1>6, <2>1
  <2>3. Byte(e + i - 1) = buf[e + i]
    BY <2>2 DEF Byte
  <2>4. Buffer(sent)[Ends(sent)[k - 1] + i] = Bytes(sent[k])[i]
    <3>1. i \in 1..SegmentSize(sent[k])
      BY <1>1
    <3> QED
      BY <1>1, <1>2, <3>1, BufferProperties
  <2> QED
    BY <1>1, <2>2, <2>3, <2>4 DEF Buffered
<1> QED
  BY <1>1, <1>3, <1>4, <1>5, <1>6, <1>7

\* The four bytes of a word, where it stands.
LEMMA WordAt ==
  ASSUME NEW o \in Int, NEW n \in Nat, \A i \in 1..4 : Byte(o + i - 1) = Word(n)[i]
  PROVE  LEInt(o) = ReadBack(n)
<1>1. o + 1 - 1 = o /\ o + 2 - 1 = o + 1 /\ o + 3 - 1 = o + 2 /\ o + 4 - 1 = o + 3
  OBVIOUS
<1>2. Byte(o) = Word(n)[1] /\ Byte(o + 1) = Word(n)[2] /\ Byte(o + 2) = Word(n)[3]
      /\ Byte(o + 3) = Word(n)[4]
  BY <1>1
<1> QED
  BY <1>2 DEF LEInt, ReadBack

LEMMA ReadBackTags == ReadBack(0) = 0 /\ ReadBack(1) = 1
<1>1. Sound(0) /\ Sound(1)
  BY DEF Sound
<1> QED
  BY <1>1, SoundLength

LEMMA ReadBackType ==
  ASSUME NEW n \in Nat
  PROVE  ReadBack(n) \in Int
<1>1. Word(n) \in Seq(ByteSet) /\ Len(Word(n)) = 4
  BY WordType, Zenon
<1>2. Word(n)[1] \in ByteSet /\ Word(n)[2] \in ByteSet /\ Word(n)[3] \in ByteSet /\ Word(n)[4] \in ByteSet
  <2>1. PICK w : w = Word(n)
    OBVIOUS
  <2>2. w \in Seq(ByteSet) /\ Len(w) = 4
    BY <1>1, <2>1, Zenon
  <2>3. \A i \in 1..Len(w) : w[i] \in ByteSet
    BY <2>2, ElementOfSeq
  <2>4. {1, 2, 3, 4} \subseteq 1..4
    OBVIOUS
  <2> QED
    BY <2>1, <2>2, <2>3, <2>4, Zenon
<1> QED
  BY <1>2, BytesToLEIntType DEF ReadBack

\* The two lengths of a text that begins at e, the name of its font, the description of
\* the font and the letters.
TextBytesAt(e, t, f, n) ==
  /\ \A i \in 1..4 : Byte(e + 4 + i - 1) = Word(f)[i]
  /\ \A i \in 1..f : Byte(e + 8 + i - 1) = Letters(f, t.name)[i]
  /\ \A i \in 1..13 : Byte(e + 8 + f + i - 1) = t.style[i]
  /\ \A i \in 1..4 : Byte(e + 21 + f + i - 1) = Word(n)[i]
  /\ \A i \in 1..n : Byte(e + 25 + f + i - 1) = Letters(n, t.letters)[i]

\* The k-th segment is a text, and stands at the offsets from e up to end: its tag, the
\* two lengths as they are read, and its bytes.
TextAt(k, e, end, t, f, n) ==
  /\ e \in Nat /\ end = e + 25 + f + n /\ end <= Len(buf)
  /\ k = Len(sent) => end = Len(buf)
  /\ LEInt(e) = 0 /\ LEInt(e + 4) = ReadBack(f) /\ LEInt(e + 21 + f) = ReadBack(n)
  /\ TextBytesAt(e, t, f, n)

LEMMA TextView ==
  ASSUME Buffered, NEW k, NEW e, NEW end, NEW t, NEW f, NEW n,
         IsText(t, f, n), SegmentAt(k, t, e, end)
  PROVE  TextAt(k, e, end, t, f, n)
<1> DEFINE b == Bytes(t)
           size == 25 + f + n
<1>1. f \in Nat /\ n \in Nat
  BY TextFields, Zenon
<1>2. /\ e \in Nat /\ end = e + SegmentSize(t) /\ end <= Len(buf)
      /\ k = Len(sent) => end = Len(buf)
      /\ \A i \in 1..SegmentSize(t) : Byte(e + i - 1) = b[i]
  BY SegmentView
<1>3. SegmentSize(t) = size
  <2>1. t.kind = "text" /\ t.font = f /\ t.len = n
    BY DEF IsText
  <2> QED
    BY <2>1 DEF SegmentSize
<1>4. /\ \A i \in 1..4 : b[i] = 0
      /\ \A i \in 1..4 : b[4 + i] = Word(f)[i]
      /\ \A i \in 1..f : b[8 + i] = Letters(f, t.name)[i]
      /\ \A i \in 1..13 : b[8 + f + i] = t.style[i]
      /\ \A i \in 1..4 : b[21 + f + i] = Word(n)[i]
      /\ \A i \in 1..n : b[25 + f + i] = Letters(n, t.letters)[i]
  <2>1. TextParts(Bytes(t), t, f, n)
    BY TextBytes, Zenon
  <2> QED
    BY <2>1, Zenon DEF TextParts
<1> HIDE DEF b
<1>5. \A i \in 1..size : Byte(e + i - 1) = b[i]
  BY <1>2, <1>3
<1>6. ASSUME NEW p \in Nat, NEW i \in Nat, i > 0, p + i <= size
      PROVE  Byte(e + p + i - 1) = b[p + i]
  <2>1. p + i \in 1..size /\ e + p + i - 1 = e + (p + i) - 1
    BY <1>1, <1>2, <1>6
  <2>2. Byte(e + (p + i) - 1) = b[p + i]
    <3>1. PICK q : q = p + i
      OBVIOUS
    <3>2. q \in 1..size
      BY <2>1, <3>1
    <3>3. Byte(e + q - 1) = b[q]
      BY <1>5, <3>2, Zenon
    <3> QED
      BY <3>1, <3>3, Zenon
  <2> QED
    BY <2>1, <2>2, Zenon
<1>7. /\ \A i \in 1..4 : Byte(e + i - 1) = 0
      /\ \A i \in 1..4 : Byte(e + 4 + i - 1) = Word(f)[i]
  <2>1. \A i \in 1..4 : i \in 1..size
    BY <1>1
  <2>2. \A i \in 1..4 : Byte(e + i - 1) = 0
    BY <1>4, <1>5, <2>1, Zenon
  <2>3. \A i \in 1..4 : Byte(e + 4 + i - 1) = b[4 + i]
    BY <1>1, <1>6
  <2> QED
    BY <1>4, <2>2, <2>3
<1>8. \A i \in 1..f : Byte(e + 8 + i - 1) = Letters(f, t.name)[i]
  BY <1>1, <1>4, <1>6
<1>9. \A i \in 1..13 : Byte(e + 8 + f + i - 1) = t.style[i]
  <2>1. \A i \in 1..13 : Byte(e + (8 + f) + i - 1) = b[8 + f + i]
    BY <1>1, <1>6
  <2>2. e + (8 + f) = e + 8 + f
    BY <1>1, <1>2
  <2> QED
    BY <1>4, <2>1, <2>2
<1>10. \A i \in 1..4 : Byte(e + 21 + f + i - 1) = Word(n)[i]
  <2>1. \A i \in 1..4 : Byte(e + (21 + f) + i - 1) = b[21 + f + i]
    BY <1>1, <1>6
  <2>2. e + (21 + f) = e + 21 + f
    BY <1>1, <1>2
  <2> QED
    BY <1>4, <2>1, <2>2
<1>11. \A i \in 1..n : Byte(e + 25 + f + i - 1) = Letters(n, t.letters)[i]
  <2>1. \A i \in 1..n : Byte(e + (25 + f) + i - 1) = b[25 + f + i]
    BY <1>1, <1>6
  <2>2. e + (25 + f) = e + 25 + f
    BY <1>1, <1>2
  <2> QED
    BY <1>4, <2>1, <2>2
<1>12. LEInt(e) = 0
  <2>1. \A i \in 1..4 : Byte(e + i - 1) = Word(0)[i]
    BY <1>7, Tags
  <2> QED
    BY <1>2, <2>1, WordAt, ReadBackTags
<1>13. LEInt(e + 4) = ReadBack(f) /\ LEInt(e + 21 + f) = ReadBack(n)
  <2>1. e + 4 \in Int /\ e + 21 + f \in Int
    BY <1>1, <1>2
  <2> QED
    BY <1>1, <1>7, <1>10, <2>1, WordAt
<1>14. end = e + 25 + f + n
  BY <1>1, <1>2, <1>3
<1>15. TextBytesAt(e, t, f, n)
  BY <1>7, <1>8, <1>9, <1>10, <1>11, Zenon DEF TextBytesAt
<1> QED
  BY <1>2, <1>12, <1>13, <1>14, <1>15, Zenon DEF TextAt

\* The k-th segment is a smiley, and stands at the offsets from e up to end: its tag and
\* its two numbers as they are read.
SmileyAt(k, e, end, code, n) ==
  /\ e \in Nat /\ end = e + 12 + n /\ end <= Len(buf)
  /\ k = Len(sent) => end = Len(buf)
  /\ LEInt(e) = 1 /\ LEInt(e + 4) = ReadBack(code) /\ LEInt(e + 8) = ReadBack(n)

LEMMA SmileyView ==
  ASSUME Buffered, NEW k, NEW e, NEW end, NEW code \in Nat, NEW n \in Nat,
         SegmentAt(k, Smiley(code, n), e, end)
  PROVE  SmileyAt(k, e, end, code, n)
<1> DEFINE b == Bytes(Smiley(code, n))
           size == 12 + n
<1>1. /\ e \in Nat /\ end = e + SegmentSize(Smiley(code, n)) /\ end <= Len(buf)
      /\ k = Len(sent) => end = Len(buf)
      /\ \A i \in 1..SegmentSize(Smiley(code, n)) : Byte(e + i - 1) = b[i]
  BY SegmentView
<1>2. SegmentSize(Smiley(code, n)) = size
  BY DEF SegmentSize, Smiley
<1>3. /\ \A i \in 1..4 : b[i] = Word(1)[i]
      /\ \A i \in 1..4 : b[4 + i] = Word(code)[i]
      /\ \A i \in 1..4 : b[8 + i] = Word(n)[i]
  BY SmileyBytes
<1> HIDE DEF b
<1>4. \A i \in 1..size : Byte(e + i - 1) = b[i]
  BY <1>1, <1>2
<1>5. \A i \in 1..4 : /\ i \in 1..size /\ 4 + i \in 1..size /\ 8 + i \in 1..size
                      /\ e + 4 + i - 1 = e + (4 + i) - 1 /\ e + 8 + i - 1 = e + (8 + i) - 1
  BY <1>1
<1>6. /\ \A i \in 1..4 : Byte(e + i - 1) = b[i]
      /\ \A i \in 1..4 : Byte(e + (4 + i) - 1) = b[4 + i]
      /\ \A i \in 1..4 : Byte(e + (8 + i) - 1) = b[8 + i]
  BY <1>4, <1>5, Zenon
<1>7. /\ \A i \in 1..4 : Byte(e + i - 1) = Word(1)[i]
      /\ \A i \in 1..4 : Byte(e + 4 + i - 1) = Word(code)[i]
      /\ \A i \in 1..4 : Byte(e + 8 + i - 1) = Word(n)[i]
  BY <1>3, <1>5, <1>6, Zenon
<1>8. LEInt(e) = 1 /\ LEInt(e + 4) = ReadBack(code) /\ LEInt(e + 8) = ReadBack(n)
  <2>1. e \in Int /\ e + 4 \in Int /\ e + 8 \in Int /\ 1 \in Nat
    BY <1>1
  <2> QED
    BY <1>7, <2>1, WordAt, ReadBackTags, Zenon
<1>9. end = e + 12 + n
  BY <1>1, <1>2
<1> QED
  BY <1>1, <1>8, <1>9, Zenon DEF SmileyAt

\* Four stray bytes are no tag that means anything.
LEMMA StrayView ==
  ASSUME Buffered, NEW k, NEW e, NEW end, NEW n \in Nat \ {0},
         SegmentAt(k, Stray(n), e, end)
  PROVE  /\ e \in Nat /\ end = e + n /\ end <= Len(buf)
         /\ k = Len(sent) => end = Len(buf)
         /\ \A j \in Nat : j % 4 = 0 /\ j + 4 <= n => LEInt(e + j) \notin {0, 1}
<1>1. /\ e \in Nat /\ end = e + SegmentSize(Stray(n)) /\ end <= Len(buf)
      /\ k = Len(sent) => end = Len(buf)
      /\ \A i \in 1..SegmentSize(Stray(n)) : Byte(e + i - 1) = Bytes(Stray(n))[i]
  BY SegmentView
<1>2. SegmentSize(Stray(n)) = n
  BY DEF SegmentSize, Stray
<1>3. ASSUME NEW j \in Nat, j % 4 = 0, j + 4 <= n PROVE LEInt(e + j) \notin {0, 1}
  <2>1. Byte(e + (j + 2) - 1) = Bytes(Stray(n))[j + 2]
    <3>1. j + 2 \in 1..n
      BY <1>3
    <3> QED
      BY <1>1, <1>2, <3>1, Zenon
  <2>2. Bytes(Stray(n))[j + 2] = 65
    <3>1. j + 2 \in 1..n /\ (j + 2) % 2 # 1
      BY <1>3
    <3> QED
      BY <3>1, StrayBytes, SMTT(60)
  <2>3. e + (j + 2) - 1 = (e + j) + 1
    BY <1>1
  <2>4. Byte((e + j) + 1) = 65
    BY <2>1, <2>2, <2>3
  <2>5. \A x : Byte(x) \in ByteSet
    BY BufferedBytes
  <2>6. Byte((e + j) + 1) # 0
    BY <2>4
  <2> QED
    <3>1. PICK a \in ByteSet, b \in ByteSet, c \in ByteSet, d \in ByteSet :
            LEInt(e + j) = BytesToLEInt(a, b, c, d) /\ b # 0
      BY <2>5, <2>6, Zenon DEF LEInt
    <3> QED
      BY <3>1, TagBytes
<1> QED
  BY <1>1, <1>2, <1>3

-----------------------------------------------------------------------------
(***************************************************************************)
(* One round of the loop.                                                  *)
(***************************************************************************)
\* What is done depends on the tag alone.
LEMMA NextByTag ==
  ASSUME Next, offset \in Nat, Left(offset) >= 4
  PROVE  /\ outcome = "parsing"
         /\ LEInt(offset) = 0 => ParseText(offset + 4)
         /\ LEInt(offset) = 1 => ParseSmiley(offset + 4)
         /\ LEInt(offset) \notin {0, 1} => Round("ok", <<>>, offset + 4)
<1>1. ReadLEInt(offset) = "ok"
  BY DEF ReadLEInt
<1>2. ~CutShort
  BY <1>1 DEF CutShort
<1>3. ParseText(offset + 4) => outcome = "parsing" /\ LEInt(offset) = 0
  BY DEF ParseText, AtTag
<1>4. ParseSmiley(offset + 4) => outcome = "parsing" /\ LEInt(offset) = 1
  BY DEF ParseSmiley, AtTag
<1>5. SkipUnknown(offset + 4) =>
        /\ outcome = "parsing" /\ LEInt(offset) \notin {0, 1}
        /\ Round("ok", <<>>, offset + 4)
  BY DEF SkipUnknown, AtTag
<1> QED
  BY <1>2, <1>3, <1>4, <1>5 DEF Next

\* Nothing happens to a message that is no longer parsed.
LEMMA NextParses ==
  ASSUME Next PROVE outcome = "parsing"
  BY DEF Next, ParseText, ParseSmiley, SkipUnknown, CutShort, AtTag

\* Letters in UTF-16 are converted.
LEMMA EncodeLetters ==
  ASSUME NEW o \in Int, NEW n \in Nat, n % 2 = 0, NEW p \in Patterns,
         \A i \in 1..n : Byte(o + i - 1) = Letters(n, p)[i]
  PROVE  Encode(o, n) = "ok"
<1>1. n \div 2 \in Nat /\ n = 2 * (n \div 2)
  OBVIOUS
<1>2. ASSUME NEW i \in 0..(n \div 2) - 1 PROVE Byte(o + 2 * i) \notin 216..223
  <2>1. 2 * i + 1 \in 1..n /\ (2 * i + 1) % 2 = 1 /\ o + (2 * i + 1) - 1 = o + 2 * i
    BY <1>1
  <2>2. Byte(o + (2 * i + 1) - 1) = Letters(n, p)[2 * i + 1]
    BY <2>1
  <2>3. Letters(n, p)[2 * i + 1] \notin 216..223
    <3>1. Unpaired(Letters(n, p)) /\ Len(Letters(n, p)) = n
      BY LettersType
    <3> QED
      BY <2>1, <3>1 DEF Unpaired
  <2> QED
    BY <2>1, <2>2, <2>3
<1>3. \A x : x \notin 216..223 => x \notin 216..219 /\ x \notin 220..223
  OBVIOUS
<1>4. Paired(o, n)
  <2> DEFINE units == 0..(n \div 2) - 1
  <2>1. ASSUME NEW i \in units
        PROVE  Byte(o + 2 * i) \notin 216..219 /\ Byte(o + 2 * i) \notin 220..223
    BY <1>2, <1>3
  <2> QED
    BY <2>1 DEF Paired
<1> QED
  BY <1>4 DEF Encode

\* readStringn takes the n bytes at the end of the k-th segment: they are as many as is
\* read, or what is read is negative and they are all that is left.
TakesAll(k, n) == ReadBack(n) = n \/ (ReadBack(n) < 0 /\ k = Len(sent))

\* A text whose font is sound is read whole if its length is, and also if its length is
\* read as a negative number and it is the last segment.
LEMMA TextRound ==
  ASSUME Buffered, NEW k, NEW e, NEW end, NEW t, NEW f, NEW n,
         IsText(t, f, n), SegmentAt(k, t, e, end), Sound(f), TakesAll(k, n),
         offset = e, ParseText(offset + 4)
  PROVE  Round("ok", <<[kind |-> "text", at |-> e + 25 + f, len |-> n]>>,
               e + 25 + f + ReadBack(n))
<1> DEFINE len == ReadBack(n)
           text == e + 25 + f
<1>0. f \in Nat /\ n \in Nat /\ f % 2 = 0 /\ n % 2 = 0 /\ ReadBack(f) = f
      /\ t.name \in Patterns /\ t.letters \in Patterns
  <2>1. /\ f \in Nat /\ n \in Nat /\ f % 2 = 0 /\ n % 2 = 0
        /\ t.name \in Patterns /\ t.letters \in Patterns
    BY TextFields, Zenon
  <2> QED
    BY <2>1, SoundLength
<1>1. f \in Nat /\ n \in Nat /\ len \in Int /\ (len = n \/ (len < 0 /\ k = Len(sent)))
  BY <1>0, ReadBackType DEF TakesAll
<1>2. /\ e \in Nat /\ end = e + 25 + f + n /\ end <= Len(buf)
      /\ k = Len(sent) => end = Len(buf)
      /\ LEInt(e + 4) = ReadBack(f) /\ LEInt(e + 21 + f) = ReadBack(n)
      /\ TextBytesAt(e, t, f, n)
  <2>1. TextAt(k, e, end, t, f, n)
    BY TextView, Zenon
  <2> QED
    BY <2>1, Zenon DEF TextAt
<1>3. Len(buf) \in Nat
  BY BufferedBytes
<1> HIDE DEF len
<1>4. /\ offset + 4 = e + 4 /\ (e + 4) + 4 + f = e + 8 + f /\ (e + 8 + f) + 13 = e + 21 + f
      /\ (e + 8 + f) + 17 = text /\ (e + 4) + 4 = e + 8
  BY <1>1, <1>2
<1>5. ReadLEInt(e + 4) = "ok" /\ ReadLEInt(e + 21 + f) = "ok"
  BY <1>1, <1>2, <1>3 DEF ReadLEInt, Left
<1>6. ReadStringn(e + 8, f) = "ok" /\ ReadStringn(e + 8 + f, 13) = "ok"
  <2>1. /\ Left(e + 8) \in Int /\ Left(e + 8) >= f /\ e + 8 \in Nat
        /\ Left(e + 8 + f) \in Int /\ Left(e + 8 + f) >= 13 /\ e + 8 + f \in Nat
    BY <1>1, <1>2, <1>3 DEF Left
  <2>2. ASSUME NEW p \in Nat, NEW m \in Nat, Left(p) \in Int, Left(p) >= m
        PROVE  ReadStringn(p, m) = "ok"
    BY <2>2 DEF ReadStringn
  <2> QED
    BY <1>1, <2>1, <2>2
<1>7. StringLen(text, len) = n /\ StringLen(e + 8, f) = f
  BY <1>1, <1>2, <1>3 DEF StringLen, Left
<1>8. ReadStringn(text, len) = "ok"
  <2>1. Left(text) \in Int /\ Left(text) >= len /\ text >= 0
    BY <1>1, <1>2, <1>3 DEF Left
  <2> QED
    BY <1>1, <1>2, <2>1 DEF ReadStringn
<1>9. Encode(text, n) = "ok" /\ Encode(e + 8, f) = "ok"
  <2>1. text \in Int /\ e + 8 \in Int
    BY <1>1, <1>2
  <2>2. \A i \in 1..f : Byte(e + 8 + i - 1) = Letters(f, t.name)[i]
    BY <1>2, Zenon DEF TextBytesAt
  <2>3. \A i \in 1..n : Byte(text + i - 1) = Letters(n, t.letters)[i]
    BY <1>2, Zenon DEF TextBytesAt
  <2> HIDE DEF text
  <2> QED
    BY <1>0, <2>1, <2>2, <2>3, EncodeLetters
<1>10. /\ LEInt(offset + 4) = f /\ (offset + 4) + 4 + LEInt(offset + 4) = e + 8 + f
       /\ LEInt(e + 8 + f + 13) = len /\ offset + 4 = e + 4 /\ (offset + 4) + 4 = e + 8
       /\ e + 8 + f + 13 = e + 21 + f /\ e + 8 + f + 17 = text
  BY <1>0, <1>2, <1>4 DEF len
<1> HIDE DEF text
<1> DEFINE all == "ok" && "ok" && "ok" && "ok" && "ok" && "ok" && "ok"
           pieces == <<[kind |-> "text", at |-> text, len |-> n]>>
<1>11. Round(all, pieces, text + len)
  <2> DEFINE o == offset + 4
             info == o + 4 + LEInt(o)
             read == LEInt(info + 13)
             at == info + 17
             verdict == ReadLEInt(o) && ReadStringn(o + 4, LEInt(o)) && ReadStringn(info, 13)
                        && ReadLEInt(info + 13) && ReadStringn(at, read)
                        && Encode(at, StringLen(at, read))
                        && Encode(o + 4, StringLen(o + 4, LEInt(o)))
  <2>1. Round(verdict, <<[kind |-> "text", at |-> at, len |-> StringLen(at, read)]>>, at + read)
    BY DEF ParseText
  <2>2. info = e + 8 + f /\ o = e + 4 /\ o + 4 = e + 8 /\ LEInt(o) = f
    BY <1>10, Zenon
  <2>3. info + 13 = e + 21 + f /\ at = text /\ read = len
    BY <1>10, <2>2, Zenon
  <2>4. StringLen(at, read) = n /\ StringLen(o + 4, LEInt(o)) = f
    BY <1>7, <2>2, <2>3, Zenon
  <2>5. /\ ReadLEInt(o) = "ok" /\ ReadStringn(o + 4, LEInt(o)) = "ok" /\ ReadStringn(info, 13) = "ok"
        /\ ReadLEInt(info + 13) = "ok" /\ ReadStringn(at, read) = "ok"
        /\ Encode(at, StringLen(at, read)) = "ok"
        /\ Encode(o + 4, StringLen(o + 4, LEInt(o))) = "ok"
    BY <1>5, <1>6, <1>8, <1>9, <2>2, <2>3, <2>4, Zenon
  <2>6. verdict = all
    BY <2>5, Zenon
  <2> HIDE DEF verdict, all
  <2> QED
    BY <2>1, <2>3, <2>4, <2>6, Zenon
<1>12. all = "ok"
  <2>1. "ok" && "ok" = "ok"
    BY DEF &&
  <2> QED
    BY <2>1, Zenon
<1> QED
  BY <1>11, <1>12 DEF text, len

\* A smiley whose code and length are sound is read whole.
LEMMA SmileyRound ==
  ASSUME Buffered, NEW k, NEW e, NEW end, NEW code \in Nat, NEW n \in Nat,
         SegmentAt(k, Smiley(code, n), e, end), Sound(code), Sound(n),
         offset = e, ParseSmiley(offset + 4)
  PROVE  Round("ok", IF code < 21 THEN <<[kind |-> "smiley", code |-> code]>> ELSE <<>>, end)
<1>1. /\ e \in Nat /\ end = e + 12 + n /\ end <= Len(buf)
      /\ LEInt(e + 4) = code /\ LEInt(e + 8) = n
  <2>1. ReadBack(code) = code /\ ReadBack(n) = n
    BY SoundLength
  <2>2. SmileyAt(k, e, end, code, n)
    BY SmileyView, Zenon
  <2>3. /\ e \in Nat /\ end = e + 12 + n /\ end <= Len(buf)
        /\ LEInt(e + 4) = ReadBack(code) /\ LEInt(e + 8) = ReadBack(n)
    BY <2>2, Zenon DEF SmileyAt
  <2> QED
    BY <2>1, <2>3
<1>2. Len(buf) \in Nat
  BY BufferedBytes
<1>3. offset + 4 = e + 4 /\ (e + 4) + 4 = e + 8 /\ (e + 4) + 8 + n = end
  BY <1>1
<1>4. ReadLEInt(e + 4) = "ok" /\ ReadLEInt(e + 8) = "ok"
  BY <1>1, <1>2 DEF ReadLEInt, Left
<1>5. ReadStringn((e + 4) + 8, n) = "ok"
  <2>1. Left((e + 4) + 8) \in Int /\ Left((e + 4) + 8) >= n /\ (e + 4) + 8 \in Nat
    BY <1>1, <1>2 DEF Left
  <2> QED
    BY <2>1 DEF ReadStringn
<1> DEFINE o == offset + 4
           read == ReadLEInt(o) && ReadLEInt(o + 4) && ReadStringn(o + 8, LEInt(o + 4))
<1>6. /\ LEInt(o) >= 0
      /\ Round(read, IF LEInt(o) < 21 THEN <<[kind |-> "smiley", code |-> LEInt(o)]>> ELSE <<>>,
               o + 8 + LEInt(o + 4))
  <2>1. \/ LEInt(o) >= 0 /\ Round(read, IF LEInt(o) < 21
                                       THEN <<[kind |-> "smiley", code |-> LEInt(o)]>>
                                       ELSE <<>>, o + 8 + LEInt(o + 4))
        \/ LEInt(o) < 0
    BY DEF ParseSmiley
  <2>2. LEInt(o) = code
    BY <1>1, <1>3
  <2> QED
    BY <2>1, <2>2
<1>7. o = e + 4 /\ o + 4 = e + 8 /\ LEInt(o) = code /\ LEInt(o + 4) = n
      /\ o + 8 + LEInt(o + 4) = end
  BY <1>1, <1>3
<1>8. read = "ok"
  <2>1. ReadLEInt(o) = "ok" /\ ReadLEInt(o + 4) = "ok" /\ ReadStringn(o + 8, LEInt(o + 4)) = "ok"
    BY <1>4, <1>5, <1>7, Zenon
  <2> QED
    BY <2>1 DEF &&
<1> HIDE DEF read, o
<1> QED
  BY <1>6, <1>7, <1>8

-----------------------------------------------------------------------------
(***************************************************************************)
(* Sound messages arrive.                                                  *)
(***************************************************************************)
\* The pieces of a message, segment by segment.
LEMMA MeantDef ==
  ASSUME NEW msg \in Seq(Segments)
  PROVE  /\ MeantBy(msg)[0] = <<>>
         /\ \A k \in 1..Len(msg) :
              MeantBy(msg)[k] = IF Stands(msg[k]) THEN Append(MeantBy(msg)[k - 1], Piece(msg, k))
                                ELSE MeantBy(msg)[k - 1]
<1> DEFINE step(s, k) == IF Stands(msg[k]) THEN Append(s, Piece(msg, k)) ELSE s
           Eq(g, n) == g = [k \in 0..n |-> IF k = 0 THEN <<>> ELSE step(g[k - 1], k)]
           T == {m \in Nat : \E g : Eq(g, m)}
<1>1. MeantBy(msg) = CHOOSE g : Eq(g, Len(msg))
  BY DEF MeantBy
<1> HIDE DEF step
<1>2. 0 \in T
  <2> DEFINE g == [k \in 0..0 |-> <<>>]
  <2>1. g = [k \in 0..0 |-> IF k = 0 THEN <<>> ELSE step(g[k - 1], k)]
    OBVIOUS
  <2>2. Eq(g, 0)
    BY <2>1
  <2> HIDE DEF Eq
  <2> QED
    BY <2>2
<1>3. ASSUME NEW m \in Nat, m \in T PROVE m + 1 \in T
  <2>1. PICK g : Eq(g, m)
    BY <1>3
  <2> DEFINE gg == [k \in 0..m + 1 |-> IF k = m + 1 THEN step(g[m], k) ELSE g[k]]
  <2>2. ASSUME NEW k \in 0..m + 1 PROVE gg[k] = IF k = 0 THEN <<>> ELSE step(gg[k - 1], k)
    <3>1. CASE k = m + 1
      <4>1. k # 0 /\ k - 1 = m /\ m \in 0..m + 1 /\ m # m + 1
        BY <3>1
      <4>2. gg[k] = step(g[m], k) /\ gg[k - 1] = g[m]
        BY <3>1, <4>1
      <4> QED
        BY <4>1, <4>2
    <3>2. CASE k # m + 1
      <4>1. k \in 0..m /\ gg[k] = g[k]
        BY <3>2
      <4>2. k # 0 => k - 1 \in 0..m + 1 /\ k - 1 # m + 1 /\ gg[k - 1] = g[k - 1]
        BY <4>1
      <4>3. g[k] = IF k = 0 THEN <<>> ELSE step(g[k - 1], k)
        BY <2>1, <4>1, Zenon
      <4> QED
        BY <4>1, <4>2, <4>3
    <3> QED
      BY <3>1, <3>2
  <2>3. gg = [k \in 0..m + 1 |-> gg[k]]
    OBVIOUS
  <2> HIDE DEF gg
  <2>4. Eq(gg, m + 1)
    BY <2>2, <2>3
  <2> HIDE DEF Eq
  <2> QED
    BY <2>4
<1>4. Len(msg) \in T
  <2>1. PICK n \in Nat : n = Len(msg)
    OBVIOUS
  <2> HIDE DEF T
  <2>2. \A m \in 0..n : m \in T
    BY <1>2, <1>3, InductionUpTo
  <2>3. n \in T
    BY <2>2
  <2> QED
    BY <2>1, <2>3
<1>5. Eq(MeantBy(msg), Len(msg))
  <2>1. \E g : Eq(g, Len(msg))
    BY <1>4
  <2> HIDE DEF Eq
  <2> QED
    BY <1>1, <2>1
<1>6. \A k \in 0..Len(msg) :
        MeantBy(msg)[k] = IF k = 0 THEN <<>> ELSE step(MeantBy(msg)[k - 1], k)
  BY <1>5, Zenon
<1>7. 0 \in 0..Len(msg) /\ \A k \in 1..Len(msg) : k \in 0..Len(msg) /\ k # 0
  OBVIOUS
<1> QED
  BY <1>6, <1>7, Zenon DEF step

\* The offset is in the k-th segment: where it begins, or four stray bytes or more further.
AtSegment(k) ==
  /\ Ends(sent)[k - 1] <= offset /\ offset < Ends(sent)[k]
  /\ \/ offset = Ends(sent)[k - 1]
     \/ sent[k].kind = "stray" /\ (offset - Ends(sent)[k - 1]) % 4 = 0

\* A sound message is parsed segment by segment, and what the segments before the offset
\* mean has been appended.
SoundInv ==
  SoundMessage =>
    \/ /\ outcome = "parsing"
       /\ \E k \in 1..Len(sent) : AtSegment(k) /\ shown = MeantBy(sent)[k - 1]
    \/ outcome = "shown" /\ shown = Meant

\* Behind a segment there is the next one, or the end of the message.
LEMMA NextSegment ==
  ASSUME Buffered, NEW k, NEW seg, NEW e, NEW end, SegmentAt(k, seg, e, end),
         sent' = sent, buf' = buf, offset' = end, shown' = MeantBy(sent)[k],
         outcome' = IF IsEnd(end) THEN "shown" ELSE "parsing"
  PROVE  SoundInv'
<1>1. /\ k \in 1..Len(sent) /\ end = Ends(sent)[k]
      /\ sent \in Seq(Segments) \ {<<>>} /\ Len(sent) \in Nat /\ Len(buf) \in Nat
  BY BufferedBytes DEF SegmentAt
<1>2. seg \in Segments /\ e \in Nat /\ end = e + SegmentSize(seg) /\ end <= Len(buf)
      /\ (k = Len(sent) => end = Len(buf))
  BY SegmentView
<1>3. end \in Nat
  BY <1>2, SegmentSizeType
<1>4. CASE k = Len(sent)
  <2>1. outcome' = "shown"
    BY <1>2, <1>3, <1>4 DEF IsEnd
  <2>2. shown' = Meant'
    BY <1>4 DEF Meant
  <2> QED
    BY <2>1, <2>2 DEF SoundInv
<1>5. CASE k # Len(sent)
  <2>1. k + 1 \in 1..Len(sent) /\ k \in 0..Len(sent) /\ k + 1 \in 0..Len(sent)
        /\ Len(sent) \in 0..Len(sent) /\ k < k + 1 /\ k < Len(sent) /\ (k + 1) - 1 = k
    BY <1>1, <1>5
  <2>2. Ends(sent)[k] < Ends(sent)[k + 1] /\ Ends(sent)[k] < Ends(sent)[Len(sent)]
    BY <1>1, <2>1, EndsGrow
  <2>3. Len(buf) = Ends(sent)[Len(sent)]
    BY BufferedBytes DEF Size
  <2>4. end < Ends(sent)[k + 1] /\ end < Len(buf)
    BY <1>1, <2>2, <2>3, Zenon
  <2>5. outcome' = "parsing"
    BY <1>1, <1>3, <2>4 DEF IsEnd
  <2>6. Ends(sent)[k] = end /\ end <= end
    BY <1>1, <1>3
  <2>7. AtSegment(k + 1)'
    <3>1. Ends(sent')[(k + 1) - 1] = offset' /\ offset' <= offset' /\ offset' < Ends(sent')[k + 1]
      BY <2>1, <2>4, <2>6, Zenon
    <3> QED
      BY <3>1, Zenon DEF AtSegment
  <2>8. shown' = MeantBy(sent')[(k + 1) - 1] /\ k + 1 \in 1..Len(sent')
    BY <2>1, Zenon
  <2> QED
    BY <2>5, <2>7, <2>8, Zenon DEF SoundInv
<1> QED
  BY <1>4, <1>5

\* Each round of the loop goes on to the next segment, or to the next four stray bytes.
LEMMA SoundStep ==
  ASSUME TypeInv, SoundMessage, SoundInv, Next
  PROVE  SoundInv' /\ (outcome' = "parsing" => offset' > offset)
<1>1. outcome = "parsing"
  BY NextParses
<1>2. PICK k \in 1..Len(sent) : AtSegment(k) /\ shown = MeantBy(sent)[k - 1]
  BY <1>1 DEF SoundInv
<1>3. PICK seg, e, end : seg = sent[k] /\ e = Ends(sent)[k - 1] /\ end = Ends(sent)[k]
  OBVIOUS
<1>4. Buffered /\ SegmentAt(k, seg, e, end)
  BY <1>3, TypesBuffered DEF SegmentAt
<1>5. /\ seg \in Segments /\ e \in Nat /\ end = e + SegmentSize(seg) /\ end <= Len(buf)
      /\ SegmentSize(seg) \in Nat \ {0}
  BY <1>4, SegmentView, SegmentSizeType
<1>6. /\ e <= offset /\ offset < end
      /\ offset = e \/ (seg.kind = "stray" /\ (offset - e) % 4 = 0)
  BY <1>2, <1>3 DEF AtSegment
<1>7. SoundSegment(seg) /\ sent \in Seq(Segments)
  <2>1. sent \in Seq(Segments)
    BY <1>4, BufferedBytes
  <2> QED
    BY <1>3, <2>1 DEF SoundMessage
<1>8. offset \in Int /\ Len(buf) \in Nat /\ shown \in Seq(Pieces)
  BY <1>4, BufferedBytes DEF TypeInv, TypeOK
<1>9. MeantBy(sent)[k] = IF Stands(seg) THEN Append(shown, Piece(sent, k)) ELSE shown
  BY <1>2, <1>3, <1>7, MeantDef
\* A round that appends what the segment means and ends behind it.
<1>10. ASSUME NEW pieces, Round("ok", pieces, end), shown \o pieces = MeantBy(sent)[k]
       PROVE  SoundInv' /\ (outcome' = "parsing" => offset' > offset)
  <2>1. /\ sent' = sent /\ buf' = buf /\ offset' = end /\ shown' = MeantBy(sent)[k]
        /\ outcome' = IF IsEnd(end) THEN "shown" ELSE "parsing"
    BY <1>10 DEF Round
  <2>2. SoundInv'
    BY <1>4, <2>1, NextSegment, Zenon
  <2>3. offset' > offset
    BY <1>5, <1>6, <1>8, <2>1
  <2> QED
    BY <2>2, <2>3
<1>11. CASE seg.kind = "text"
  <2>1. PICK f, n : IsText(seg, f, n) /\ f = seg.font /\ n = seg.len
    BY <1>5, <1>11 DEF IsText
  <2>2. Sound(f) /\ Sound(n) /\ f \in Nat /\ n \in Nat /\ ReadBack(n) = n
    <3>1. Sound(f) /\ Sound(n)
      BY <1>7, <1>11, <2>1 DEF SoundSegment
    <3>2. f \in Nat /\ n \in Nat
      BY <2>1, TextFields, Zenon
    <3> QED
      BY <3>1, <3>2, SoundLength
  <2>3. SegmentAt(k, seg, e, end) /\ TakesAll(k, n)
    BY <1>4, <2>2 DEF TakesAll
  <2>4. TextAt(k, e, end, seg, f, n)
    BY <1>4, <2>1, <2>3, TextView, Zenon
  <2>5. end = e + 25 + f + n /\ LEInt(e) = 0
    BY <2>4, Zenon DEF TextAt
  <2>6. offset = e /\ offset \in Nat
    BY <1>5, <1>6, <1>11
  <2>7. ParseText(offset + 4)
    <3>1. Left(offset) >= 4
      BY <1>5, <1>8, <2>2, <2>5, <2>6 DEF Left
    <3> QED
      BY <2>5, <2>6, <3>1, NextByTag
  <2> DEFINE pieces == <<[kind |-> "text", at |-> e + 25 + f, len |-> n]>>
  <2>8. Round("ok", pieces, e + 25 + f + ReadBack(n))
    BY <1>4, <2>1, <2>2, <2>3, <2>6, <2>7, TextRound, Zenon
  <2>9. e + 25 + f + ReadBack(n) = end
    BY <2>2, <2>5
  <2>10. Append(shown, Piece(sent, k)) = shown \o pieces
    <3>1. end - n = e + 25 + f
      BY <1>5, <2>2, <2>5
    <3>2. Piece(sent, k) = [kind |-> "text", at |-> e + 25 + f, len |-> n]
      BY <1>3, <1>11, <2>1, <3>1 DEF Piece
    <3>3. PICK p : p = [kind |-> "text", at |-> e + 25 + f, len |-> n]
      OBVIOUS
    <3>4. Append(shown, p) = shown \o <<p>>
      BY <1>8
    <3> QED
      BY <3>2, <3>3, <3>4, Zenon
  <2>11. Stands(seg)
    BY <1>11 DEF Stands
  <2> HIDE DEF pieces
  <2>12. Round("ok", pieces, end) /\ shown \o pieces = MeantBy(sent)[k]
    BY <1>9, <2>8, <2>9, <2>10, <2>11
  <2> QED
    BY <1>10, <2>12, Zenon
<1>12. CASE seg.kind = "smiley"
  <2>1. PICK code \in Nat, n \in Nat : seg = Smiley(code, n) /\ code = seg.code /\ n = seg.len
    BY <1>5, <1>12, SegmentForms
  <2>2. Sound(code) /\ Sound(n)
    BY <1>7, <1>12, <2>1 DEF SoundSegment
  <2>3. SegmentAt(k, Smiley(code, n), e, end)
    BY <1>4, <2>1
  <2>4. SmileyAt(k, e, end, code, n)
    BY <1>4, <2>3, SmileyView, Zenon
  <2>5. end = e + 12 + n /\ LEInt(e) = 1
    BY <2>4, Zenon DEF SmileyAt
  <2>6. offset = e /\ offset \in Nat
    BY <1>5, <1>6, <1>12
  <2>7. ParseSmiley(offset + 4)
    <3>1. Left(offset) >= 4
      BY <1>5, <1>8, <2>5, <2>6 DEF Left
    <3> QED
      BY <2>5, <2>6, <3>1, NextByTag
  <2> DEFINE pieces == IF code < 21 THEN <<[kind |-> "smiley", code |-> code]>> ELSE <<>>
  <2>8. Round("ok", pieces, end)
    BY <1>4, <2>2, <2>3, <2>6, <2>7, SmileyRound, Zenon
  <2>9. shown \o pieces = MeantBy(sent)[k]
    <3>1. Piece(sent, k) = [kind |-> "smiley", code |-> code]
      BY <1>3, <1>12, <2>1 DEF Piece
    <3>2. Stands(seg) <=> code < 21
      BY <1>12, <2>1 DEF Stands
    <3>3. PICK p : p = [kind |-> "smiley", code |-> code]
      OBVIOUS
    <3>4. Append(shown, p) = shown \o <<p>> /\ shown \o <<>> = shown
      BY <1>8
    <3> QED
      BY <1>9, <3>1, <3>2, <3>3, <3>4, Zenon
  <2> HIDE DEF pieces
  <2> QED
    BY <1>10, <2>8, <2>9, Zenon
<1>13. CASE seg.kind = "stray"
  <2>1. PICK n \in Nat \ {0} : seg = Stray(n) /\ n = seg.len
    BY <1>5, <1>13, SegmentForms
  <2>2. n % 4 = 0
    BY <1>7, <1>13, <2>1 DEF SoundSegment
  <2>3. /\ end = e + n
        /\ \A j \in Nat : j % 4 = 0 /\ j + 4 <= n => LEInt(e + j) \notin {0, 1}
    BY <1>4, <2>1, StrayView
  <2>4. PICK j \in Nat : offset = e + j /\ j % 4 = 0 /\ j + 4 <= n
    <3>1. offset - e \in Nat /\ (offset - e) % 4 = 0 /\ offset - e < n
      BY <1>5, <1>6, <1>8, <2>3
    <3>2. PICK j \in Nat : j = offset - e
      BY <3>1
    <3>3. j + 4 <= n
      BY <2>2, <3>1, <3>2
    <3> QED
      BY <1>5, <1>8, <3>1, <3>2, <3>3
  <2>5. Round("ok", <<>>, offset + 4)
    <3>1. Left(offset) >= 4 /\ offset \in Nat
      BY <1>5, <1>8, <2>3, <2>4 DEF Left
    <3>2. LEInt(offset) \notin {0, 1}
      BY <2>3, <2>4
    <3> QED
      BY <3>1, <3>2, NextByTag
  <2>6. shown \o <<>> = shown /\ ~Stands(seg)
    BY <1>8, <1>13 DEF Stands
  <2>7. CASE j + 4 = n
    <3>1. offset + 4 = end
      BY <1>5, <2>3, <2>4, <2>7
    <3>2. shown \o <<>> = MeantBy(sent)[k]
      BY <1>9, <2>6
    <3> QED
      BY <1>10, <2>5, <3>1, <3>2, Zenon
  <2>8. CASE j + 4 # n
    <3>1. /\ sent' = sent /\ buf' = buf /\ offset' = offset + 4 /\ shown' = shown
          /\ outcome' = IF IsEnd(offset + 4) THEN "shown" ELSE "parsing"
      BY <2>5, <2>6 DEF Round
    <3>2. /\ e <= offset + 4 /\ offset + 4 < end /\ (offset + 4 - e) % 4 = 0
          /\ offset + 4 > offset
      BY <1>5, <2>3, <2>4, <2>8
    <3>3. outcome' = "parsing"
      BY <1>5, <1>8, <3>1, <3>2 DEF IsEnd
    <3>4. /\ Ends(sent')[k - 1] = e /\ Ends(sent')[k] = end /\ sent'[k].kind = "stray"
          /\ k \in 1..Len(sent') /\ shown' = MeantBy(sent')[k - 1]
      BY <1>2, <1>3, <1>13, <3>1, Zenon
    <3>5. AtSegment(k)'
      <4>1. e <= offset' /\ offset' < end /\ (offset' - e) % 4 = 0
        BY <1>5, <1>8, <3>1, <3>2
      <4> QED
        BY <3>4, <4>1, Zenon DEF AtSegment
    <3> QED
      BY <3>1, <3>2, <3>3, <3>4, <3>5, Zenon DEF SoundInv
  <2> QED
    BY <2>7, <2>8
<1> QED
  BY <1>5, <1>11, <1>12, <1>13, SegmentForms

LEMMA InitSound == Init => SoundInv
<1> SUFFICES ASSUME Init, SoundMessage PROVE SoundInv
  BY DEF SoundInv
<1>1. Buffered /\ offset = 0 /\ shown = <<>> /\ outcome = "parsing"
  BY DEF Init, Buffered, Buffer
<1>2. sent \in Seq(Segments) \ {<<>>}
  BY <1>1, BufferedBytes
<1>3. 1 \in 1..Len(sent) /\ 0 \in 0..Len(sent) /\ 1 \in 0..Len(sent) /\ 0 < 1 /\ 1 - 1 = 0
  BY <1>2
<1>4. Ends(sent)[0] = 0 /\ Ends(sent)[0] < Ends(sent)[1]
  BY <1>2, <1>3, EndsDef, EndsGrow
<1>5. MeantBy(sent)[0] = <<>>
  BY <1>2, MeantDef
<1>6. AtSegment(1)
  BY <1>1, <1>3, <1>4 DEF AtSegment
<1> QED
  BY <1>1, <1>3, <1>5, <1>6, Zenon DEF SoundInv

LEMMA NextSound == TypeInv /\ SoundInv /\ [Next]_vars => SoundInv'
<1> SUFFICES ASSUME TypeInv, SoundInv, [Next]_vars PROVE SoundInv'
  OBVIOUS
<1>1. CASE Next
  <2>1. CASE SoundMessage
    BY <1>1, <2>1, SoundStep
  <2>2. CASE ~SoundMessage
    <3>1. sent' = sent
      BY <1>1 DEF Next, ParseText, ParseSmiley, SkipUnknown, CutShort, Round
    <3> QED
      BY <2>2, <3>1 DEF SoundInv, SoundMessage
  <2> QED
    BY <2>1, <2>2
<1>2. CASE UNCHANGED vars
  <2>1. sent' = sent /\ buf' = buf /\ offset' = offset /\ shown' = shown /\ outcome' = outcome
    BY <1>2 DEF vars
  <2> QED
    BY <2>1 DEF SoundInv, SoundMessage, AtSegment, Meant
<1> QED
  BY <1>1, <1>2

LEMMA Sounds == Spec => []SoundInv
  BY Types, InitSound, NextSound, PTL DEF Spec

\* A message whose lengths are all sound, of any number of segments of any kind, is neither
\* dropped nor aborts the program, and what is shown are the segments that were written.
THEOREM SoundMessagesArrive == Spec => []SoundArrives
<1>1. SoundInv => SoundArrives
  BY DEF SoundInv, SoundArrives
<1> QED
  BY <1>1, Sounds, PTL

-----------------------------------------------------------------------------
(***************************************************************************)
(* A single text: where its offset moves back to, and what is found there. *)
(***************************************************************************)
\* A length that is not sound is read as a negative number, and moves the offset back by
\* a multiple of 256.
LEMMA MovesBack ==
  ASSUME NEW n \in Nat, n < 65536, ~Sound(n)
  PROVE  /\ ReadBack(n) \in Int /\ ReadBack(n) < 0 /\ n - ReadBack(n) \in Nat
         /\ (n - ReadBack(n)) % 256 = 0
<1> DEFINE hi == n \div 256
           lo == n % 256
           r == ReadBack(n)
<1>1. n = 256 * hi + lo /\ hi \in 0..255 /\ lo \in 0..255
  BY TwoBytes
<1>2. ReadAs(hi, lo, r)
  <2>1. n \div 256 \in ByteSet
    BY <1>1 DEF ByteSet
  <2> QED
    BY <2>1, ReadBackAs
<1>3. lo >= 128 \/ n >= 32768
  BY <1>1 DEF Sound
<1>4. \A q \in Nat : (256 * q) % 256 = 0
  OBVIOUS
<1> HIDE DEF hi, lo, r
<1>5. CASE lo >= 128
  <2>1. r = lo - 256
    BY <1>2, <1>5 DEF ReadAs
  <2>2. n - r = 256 * (hi + 1) /\ hi + 1 \in Nat
    BY <1>1, <2>1
  <2>3. r \in Int /\ r < 0 /\ n - r \in Nat /\ (n - r) % 256 = 0
    BY <1>1, <1>4, <2>1, <2>2
  <2> QED
    BY <2>3 DEF r
<1>6. CASE lo < 128
  <2>1. hi >= 128
    BY <1>1, <1>3, <1>6
  <2>2. r = (hi - 256) * 256 + lo
    BY <1>1, <1>2, <1>6, <2>1 DEF ReadAs
  <2>3. r \in Int /\ r < 0 /\ n - r = 65536
    BY <1>1, <2>2
  <2>4. n - r \in Nat /\ (n - r) % 256 = 0
    BY <2>3
  <2> QED
    BY <2>3, <2>4 DEF r
<1> QED
  BY <1>1, <1>5, <1>6

\* The message is the text t, of n bytes in a font of f bytes.
Lone(t, f, n) ==
  IsText(t, f, n) /\ sent = <<t>> /\ Sound(f) /\ f > 0 /\ n < 65536

LEMMA LoneForm ==
  ASSUME Buffered, LoneText
  PROVE  Lone(sent[1], sent[1].font, sent[1].len)
<1>1. sent \in Seq(Segments) /\ Len(sent) = 1
  BY BufferedBytes DEF LoneText
<1>2. sent[1] \in Segments /\ sent = <<sent[1]>>
  BY <1>1
<1> QED
  BY <1>2 DEF Lone, LoneText, IsText

\* What is known of the numbers of a single text, and of its bytes.
LoneNumbers(f, n) ==
  /\ f \in Nat /\ f % 2 = 0 /\ f > 0 /\ f < 32768 /\ Sound(f)
  /\ n \in Nat /\ n % 2 = 0 /\ n < 65536
  /\ Len(buf) = 25 + f + n

LoneBytes(t, f, n) ==
  LoneNumbers(f, n) /\ TextBytesAt(0, t, f, n) /\ LEInt(0) = 0 /\ LEInt(21 + f) = ReadBack(n)

LEMMA LoneView ==
  ASSUME Buffered, NEW t, NEW f, NEW n, Lone(t, f, n)
  PROVE  LoneBytes(t, f, n) /\ SegmentAt(1, t, 0, Len(buf))
<1>0. IsText(t, f, n)
  BY DEF Lone
<1>1. sent = <<t>> /\ Sound(f) /\ f > 0 /\ n < 65536
  BY DEF Lone
<1>2. f \in Nat /\ n \in Nat /\ f % 2 = 0 /\ n % 2 = 0
  BY <1>0, TextFields, Zenon
<1>3. Len(sent) = 1 /\ sent[1] = t /\ 1 \in 1..Len(sent) /\ sent \in Seq(Segments)
  BY <1>1, BufferedBytes
<1>4. Ends(sent)[0] = 0 /\ Ends(sent)[1] = Len(buf)
  BY <1>3, EndsDef, BufferedBytes DEF Size
<1>5. SegmentAt(1, t, 0, Len(buf))
  <2>1. 1 - 1 = 0
    OBVIOUS
  <2> QED
    BY <1>3, <1>4, <2>1 DEF SegmentAt
<1>6. TextAt(1, 0, Len(buf), t, f, n)
  BY <1>0, <1>5, TextView, Zenon
<1>7. /\ Len(buf) = 0 + 25 + f + n /\ TextBytesAt(0, t, f, n) /\ LEInt(0) = 0
      /\ LEInt(0 + 21 + f) = ReadBack(n)
  BY <1>6, Zenon DEF TextAt
<1>8. 0 + 25 + f + n = 25 + f + n /\ 0 + 21 + f = 21 + f
  BY <1>2
<1>9. f < 32768
  BY <1>1 DEF Sound
<1>10. Len(buf) = 25 + f + n /\ LEInt(21 + f) = ReadBack(n)
  BY <1>7, <1>8, Zenon
<1>11. LoneNumbers(f, n)
  BY <1>1, <1>2, <1>9, <1>10 DEF LoneNumbers
<1>12. LoneBytes(t, f, n)
  BY <1>7, <1>10, <1>11, Zenon DEF LoneBytes
<1> QED
  BY <1>5, <1>12, Zenon

\* Byte by byte: the upper and the lower byte of the font's length are hi and lo.
LoneByte(t, f, n, hi, lo) ==
  /\ hi \in 0..127 /\ lo \in 0..127 /\ f = 256 * hi + lo
  /\ \A o \in 0..5 : Byte(o) = 0
  /\ Byte(6) = hi /\ Byte(7) = lo
  /\ \A i \in 1..f : Byte(7 + i) = Letters(f, t.name)[i]
  /\ \A i \in 1..13 : Byte(7 + f + i) = t.style[i]
  /\ Byte(23 + f) = (n \div 256) % 256 /\ Byte(24 + f) = n % 256
  /\ \A i \in 1..n : Byte(24 + f + i) = Letters(n, t.letters)[i]

LEMMA LoneByteAt ==
  ASSUME Buffered, NEW t, NEW f, NEW n, LoneBytes(t, f, n)
  PROVE  \E hi, lo : LoneByte(t, f, n, hi, lo)
<1>0. LoneNumbers(f, n) /\ TextBytesAt(0, t, f, n) /\ LEInt(0) = 0
  BY Zenon DEF LoneBytes
<1>1. /\ f \in Nat /\ f % 2 = 0 /\ f > 0 /\ f < 32768 /\ Sound(f)
      /\ n \in Nat /\ n % 2 = 0 /\ n < 65536
  BY <1>0 DEF LoneNumbers
<1>2. TextBytesAt(0, t, f, n) /\ LEInt(0) = 0
  BY <1>0
<1> DEFINE hi == f \div 256
           lo == f % 256
<1>3. hi \in 0..127 /\ lo \in 0..127 /\ f = 256 * hi + lo /\ hi % 256 = hi
  BY <1>1, TwoBytes DEF Sound
<1>4. Word(f)[1] = 0 /\ Word(f)[2] = 0 /\ Word(f)[3] = hi /\ Word(f)[4] = lo
  <2>1. /\ Word(f)[1] = 0 /\ Word(f)[2] = 0
        /\ Word(f)[3] = (f \div 256) % 256 /\ Word(f)[4] = f % 256
    <3>1. f \in Nat
      BY <1>1
    <3> QED
      BY <3>1, WordType, ZenonT(30)
  <2> QED
    BY <1>3, <2>1, Zenon
<1> HIDE DEF hi, lo
<1>5. Byte(0) = 0 /\ Byte(1) = 0 /\ Byte(2) = 0 /\ Byte(3) = 0
  <2>1. LEInt(0) = BytesToLEInt(Byte(0), Byte(1), Byte(2), Byte(3))
    <3>1. 0 + 1 = 1 /\ 0 + 2 = 2 /\ 0 + 3 = 3
      OBVIOUS
    <3> QED
      BY <3>1, Zenon DEF LEInt
  <2>2. /\ BytesToLEInt(Byte(0), Byte(1), Byte(2), Byte(3)) = 0
        /\ Byte(0) \in ByteSet /\ Byte(1) \in ByteSet /\ Byte(2) \in ByteSet /\ Byte(3) \in ByteSet
    BY <1>2, <2>1, BufferedBytes
  <2>3. \A a, b, c, d \in ByteSet : BytesToLEInt(a, b, c, d) = 0 => a = 0 /\ b = 0 /\ c = 0 /\ d = 0
    <3> SUFFICES ASSUME NEW a \in ByteSet, NEW b \in ByteSet, NEW c \in ByteSet, NEW d \in ByteSet,
                        BytesToLEInt(a, b, c, d) = 0
                 PROVE  a = 0 /\ b = 0 /\ c = 0 /\ d = 0
      OBVIOUS
    <3>1. a = 0 /\ b = 0 /\ c = 0 /\ d \in {0, 1}
      BY TagBytes
    <3>2. BytesToLEInt(0, 0, 0, 1) = 1
      BY BothPositive
    <3> QED
      BY <3>1, <3>2
  <2> QED
    BY <2>2, <2>3
<1>6. Byte(4) = 0 /\ Byte(5) = 0 /\ Byte(6) = hi /\ Byte(7) = lo
  <2>1. \A i \in 1..4 : Byte(0 + 4 + i - 1) = Word(f)[i]
    BY <1>2, Zenon DEF TextBytesAt
  <2>2. /\ 0 + 4 + 1 - 1 = 4 /\ 0 + 4 + 2 - 1 = 5 /\ 0 + 4 + 3 - 1 = 6 /\ 0 + 4 + 4 - 1 = 7
        /\ 1 \in 1..4 /\ 2 \in 1..4 /\ 3 \in 1..4 /\ 4 \in 1..4
    OBVIOUS
  <2>3. Byte(4) = Word(f)[1] /\ Byte(5) = Word(f)[2] /\ Byte(6) = Word(f)[3] /\ Byte(7) = Word(f)[4]
    BY <2>1, <2>2
  <2> QED
    BY <1>4, <2>3
<1>7. \A o \in 0..5 : Byte(o) = 0
  <2>1. \A o \in 0..5 : o \in {0, 1, 2, 3, 4, 5}
    OBVIOUS
  <2> QED
    BY <1>5, <1>6, <2>1
<1>8. ASSUME NEW i \in 1..f PROVE Byte(7 + i) = Letters(f, t.name)[i]
  <2>1. Byte(0 + 8 + i - 1) = Letters(f, t.name)[i]
    BY <1>2, Zenon DEF TextBytesAt
  <2>2. 0 + 8 + i - 1 = 7 + i
    BY <1>1
  <2> QED
    BY <2>1, <2>2, Zenon
<1>9. ASSUME NEW i \in 1..13 PROVE Byte(7 + f + i) = t.style[i]
  <2>1. Byte(0 + 8 + f + i - 1) = t.style[i]
    BY <1>2, Zenon DEF TextBytesAt
  <2>2. 0 + 8 + f + i - 1 = 7 + f + i
    BY <1>1
  <2> QED
    BY <2>1, <2>2, Zenon
<1>10. Byte(23 + f) = (n \div 256) % 256 /\ Byte(24 + f) = n % 256
  <2>1. \A i \in 1..4 : Byte(0 + 21 + f + i - 1) = Word(n)[i]
    BY <1>2, Zenon DEF TextBytesAt
  <2>2. /\ 0 + 21 + f + 3 - 1 = 23 + f /\ 0 + 21 + f + 4 - 1 = 24 + f
        /\ 3 \in 1..4 /\ 4 \in 1..4
    BY <1>1
  <2>3. Byte(23 + f) = Word(n)[3] /\ Byte(24 + f) = Word(n)[4]
    BY <2>1, <2>2, Zenon
  <2>4. n \in Nat
    BY <1>1
  <2>5. Word(n)[3] = (n \div 256) % 256 /\ Word(n)[4] = n % 256
    BY <2>4, WordType, ZenonT(30)
  <2> QED
    BY <2>3, <2>5, Zenon
<1>11. ASSUME NEW i \in 1..n PROVE Byte(24 + f + i) = Letters(n, t.letters)[i]
  <2>1. Byte(0 + 25 + f + i - 1) = Letters(n, t.letters)[i]
    BY <1>2, Zenon DEF TextBytesAt
  <2>2. 0 + 25 + f + i - 1 = 24 + f + i
    BY <1>1
  <2> QED
    BY <2>1, <2>2, Zenon
<1>12. LoneByte(t, f, n, hi, lo)
  BY <1>3, <1>6, <1>7, <1>8, <1>9, <1>10, <1>11, Zenon DEF LoneByte
<1> QED
  BY <1>12

\* No letter is two zeros, neither in the name of the font nor in the text.
LonePairs(f, n) ==
  /\ \A o \in 8..6 + f : o % 2 = 0 => Byte(o) # 0 \/ Byte(o + 1) # 0
  /\ \A o \in 25 + f..23 + f + n : o % 2 = 1 => Byte(o) # 0 \/ Byte(o + 1) # 0

LEMMA LettersPaired ==
  ASSUME NEW n \in Nat, NEW p \in Patterns
  PROVE  Unpaired(Letters(n, p)) /\ Len(Letters(n, p)) = n
BY LettersType

LEMMA LonePairsAt ==
  ASSUME NEW t, NEW f, NEW n, IsText(t, f, n), NEW hi, NEW lo, LoneByte(t, f, n, hi, lo)
  PROVE  LonePairs(f, n)
<1>1. /\ f \in Nat /\ n \in Nat /\ f % 2 = 0 /\ n % 2 = 0
      /\ t.name \in Patterns /\ t.letters \in Patterns
  BY TextFields, Zenon
<1> DEFINE name == Letters(f, t.name)
           text == Letters(n, t.letters)
<1>2. Unpaired(name) /\ Len(name) = f /\ Unpaired(text) /\ Len(text) = n
  BY <1>1, LettersPaired, Zenon
<1>3. /\ \A i \in 1..f : Byte(7 + i) = name[i]
      /\ \A i \in 1..n : Byte(24 + f + i) = text[i]
  BY Zenon DEF LoneByte
<1> HIDE DEF name, text
<1>4. ASSUME NEW o \in 8..6 + f, o % 2 = 0 PROVE Byte(o) # 0 \/ Byte(o + 1) # 0
  <2>1. PICK i \in 1..f : /\ i % 2 = 1 /\ i < f /\ i + 1 \in 1..f
                          /\ o = 7 + i /\ o + 1 = 7 + (i + 1)
    <3>1. /\ o - 7 \in 1..f /\ (o - 7) % 2 = 1 /\ o - 7 < f /\ (o - 7) + 1 \in 1..f
          /\ o = 7 + (o - 7) /\ o + 1 = 7 + ((o - 7) + 1)
      BY <1>1, <1>4
    <3> QED
      BY <3>1
  <2>2. name[i] # 0 \/ name[i + 1] # 0
    BY <1>2, <2>1 DEF Unpaired
  <2>3. Byte(o) = name[i] /\ Byte(o + 1) = name[i + 1]
    BY <1>3, <2>1, Zenon
  <2> QED
    BY <2>2, <2>3, Zenon
<1>5. ASSUME NEW o \in 25 + f..23 + f + n, o % 2 = 1 PROVE Byte(o) # 0 \/ Byte(o + 1) # 0
  <2>1. PICK i \in 1..n : /\ i % 2 = 1 /\ i < n /\ i + 1 \in 1..n
                          /\ o = 24 + f + i /\ o + 1 = 24 + f + (i + 1)
    <3>1. PICK i \in Int : i = o - 24 - f
      BY <1>1
    <3>2. /\ i \in 1..n /\ i % 2 = 1 /\ i < n /\ i + 1 \in 1..n
          /\ o = 24 + f + i /\ o + 1 = 24 + f + (i + 1)
      BY <1>1, <1>5, <3>1
    <3> QED
      BY <3>2
  <2>2. text[i] # 0 \/ text[i + 1] # 0
    BY <1>2, <2>1 DEF Unpaired
  <2>3. Byte(o) = text[i] /\ Byte(o + 1) = text[i + 1]
    BY <1>3, <2>1, Zenon
  <2> QED
    BY <2>2, <2>3, Zenon
<1> QED
  BY <1>4, <1>5 DEF LonePairs

\* Four bytes of which one is too large for a tag.
LEMMA NoTag ==
  ASSUME Buffered, NEW o,
         Byte(o) # 0 \/ Byte(o + 1) # 0 \/ Byte(o + 2) # 0 \/ Byte(o + 3) \notin {0, 1}
  PROVE  LEInt(o) \notin {0, 1}
<1>1. PICK a \in ByteSet, b \in ByteSet, c \in ByteSet, d \in ByteSet :
        /\ LEInt(o) = BytesToLEInt(a, b, c, d)
        /\ a # 0 \/ b # 0 \/ c # 0 \/ d \notin {0, 1}
  BY BufferedBytes, Zenon DEF LEInt
<1> QED
  BY <1>1, TagBytes

\* From the sixth byte on, a text in a font of this program read from an odd byte has no
\* tag that means anything.
LEMMA LoneTags ==
  ASSUME Buffered, NEW t, NEW f, NEW n, Lone(t, f, n), t.style = FontBytes, ~Sound(n),
         NEW o \in Nat, o % 2 = 1, o >= 5, o + 4 <= Len(buf)
  PROVE  LEInt(o) \notin {0, 1}
<1>0. LoneBytes(t, f, n) /\ IsText(t, f, n)
  <2>1. LoneBytes(t, f, n)
    BY LoneView, Zenon
  <2>2. IsText(t, f, n)
    BY DEF Lone
  <2> QED
    BY <2>1, <2>2
<1>1. LoneNumbers(f, n) /\ LEInt(21 + f) = ReadBack(n)
  BY <1>0, Zenon DEF LoneBytes
<1>2. /\ f \in Nat /\ f % 2 = 0 /\ f > 0 /\ f < 32768 /\ n \in Nat /\ n % 2 = 0 /\ n < 65536
      /\ Len(buf) = 25 + f + n /\ f >= 2
  BY <1>1 DEF LoneNumbers
<1>3. PICK hi, lo : LoneByte(t, f, n, hi, lo)
  BY <1>0, LoneByteAt
<1>4. /\ hi \in 0..127 /\ lo \in 0..127 /\ f = 256 * hi + lo
      /\ Byte(6) = hi /\ Byte(7) = lo
  BY <1>3, Zenon DEF LoneByte
<1>5. /\ \A p \in 8..6 + f : p % 2 = 0 => Byte(p) # 0 \/ Byte(p + 1) # 0
      /\ \A p \in 25 + f..23 + f + n : p % 2 = 1 => Byte(p) # 0 \/ Byte(p + 1) # 0
  BY <1>0, <1>3, LonePairsAt, Zenon DEF LonePairs
<1>6. \A i \in 1..13 : Byte(7 + f + i) = FontBytes[i]
  BY <1>3, ZenonT(40) DEF LoneByte
<1>7. CASE o = 5
  <2>1. Byte(o + 1) # 0 \/ Byte(o + 2) # 0
    BY <1>2, <1>4, <1>7
  <2> QED
    BY <2>1, NoTag
<1>8. CASE o >= 7 /\ o <= 5 + f
  <2>1. o + 1 \in 8..6 + f /\ (o + 1) % 2 = 0 /\ (o + 1) + 1 = o + 2
    BY <1>2, <1>8
  <2>2. Byte(o + 1) # 0 \/ Byte(o + 2) # 0
    BY <1>5, <2>1
  <2> QED
    BY <2>2, NoTag
<1>9. CASE o = 7 + f
  <2>1. o + 2 = 7 + f + 2 /\ 2 \in 1..13
    BY <1>2, <1>9
  <2>2. Byte(o + 2) # 0
    BY <1>6, <2>1, FontBytesType
  <2> QED
    BY <2>2, NoTag
<1>10. CASE o >= 9 + f /\ o <= 19 + f
  <2>1. PICK i \in 1..13 : o = 7 + f + i
    BY <1>2, <1>10
  <2>2. i \in {2, 4, 6, 8, 10, 12}
    BY <1>2, <1>10, <2>1
  <2>3. FontBytes[i] # 0
    BY <2>2, FontBytesType, SMTT(30)
  <2>4. Byte(o) # 0
    BY <1>6, <2>1, <2>3
  <2> QED
    BY <2>4, NoTag
<1>11. CASE o = 21 + f
  <2>1. ReadBack(n) < 0 /\ ReadBack(n) \in Int
    BY <1>2, MovesBack
  <2> QED
    BY <1>1, <1>11, <2>1
<1>12. CASE o = 23 + f
  <2>1. Byte(o) = (n \div 256) % 256 /\ Byte(o + 1) = n % 256
    <3>1. Byte(23 + f) = (n \div 256) % 256 /\ Byte(24 + f) = n % 256
      BY <1>3, Zenon DEF LoneByte
    <3>2. o + 1 = 24 + f
      BY <1>2, <1>12
    <3> QED
      BY <1>12, <3>1, <3>2, Zenon
  <2>2. (n \div 256) % 256 = n \div 256 /\ n = 256 * (n \div 256) + (n % 256)
    BY <1>2, TwoBytes
  <2>3. n # 0
    <3>1. Sound(0)
      BY DEF Sound
    <3> QED
      BY <3>1
  <2>4. Byte(o) # 0 \/ Byte(o + 1) # 0
    BY <2>1, <2>2, <2>3
  <2> QED
    BY <2>4, NoTag
<1>13. CASE o >= 25 + f
  <2>1. o \in 25 + f..23 + f + n
    BY <1>2, <1>13
  <2>2. Byte(o) # 0 \/ Byte(o + 1) # 0
    BY <1>5, <2>1
  <2> QED
    BY <2>2, NoTag
<1>14. \/ o = 5 \/ (o >= 7 /\ o <= 5 + f) \/ o = 7 + f \/ (o >= 9 + f /\ o <= 19 + f)
       \/ o = 21 + f \/ o = 23 + f \/ o >= 25 + f
  BY <1>2
<1> QED
  BY <1>7, <1>8, <1>9, <1>10, <1>11, <1>12, <1>13, <1>14

\* A read that throws drops the message, if none before it aborts.
LEMMA AndDropped ==
  ASSUME NEW a \in {"ok", "dropped"}, NEW b \in {"ok", "dropped"}, NEW c
  PROVE  /\ a && b \in {"ok", "dropped"}
         /\ a = "dropped" \/ b = "dropped" => a && b = "dropped"
         /\ "dropped" && c = "dropped"
  BY DEF &&

LEMMA TooFewLeft ==
  ASSUME Len(buf) \in Nat, NEW o \in Int, NEW m \in Int
  PROVE  /\ m > 0 /\ Left(o) < m => ReadStringn(o, m) = "dropped"
         /\ Left(o) < 4 => ReadLEInt(o) = "dropped"
<1>1. Left(o) \in Int
  BY DEF Left
<1>2. m > 0 /\ Left(o) < m => ReadStringn(o, m) = "dropped"
  BY <1>1 DEF ReadStringn
<1>3. Left(o) < 4 => ReadLEInt(o) = "dropped"
  BY <1>1 DEF ReadLEInt
<1> QED
  BY <1>2, <1>3

\* A text is dropped if its font, or its letters, do not fit.
LEMMA TextDropped ==
  ASSUME TypeInv, offset \in Nat, ParseText(offset + 4),
         NEW font \in Nat, font = LEInt(offset + 4),
         \/ font > 0 /\ Left(offset + 8) < font
         \/ Left(offset + 21 + font) < 4
         \/ LEInt(offset + 21 + font) > Len(buf)
  PROVE  Round("dropped", <<>>, offset')
<1>1. Buffered
  BY TypesBuffered
<1>2. Len(buf) \in Nat /\ \A p : LEInt(p) \in Int
  BY <1>1, BufferedBytes
<1> DEFINE o == offset + 4
           info == o + 4 + font
           len  == LEInt(info + 13)
           text == info + 17
           v1 == ReadLEInt(o)
           v2 == ReadStringn(o + 4, font)
           v3 == ReadStringn(info, 13)
           v4 == ReadLEInt(info + 13)
           v5 == ReadStringn(text, len)
           v6 == Encode(text, StringLen(text, len))
           v7 == Encode(o + 4, StringLen(o + 4, font))
           verdict == v1 && v2 && v3 && v4 && v5 && v6 && v7
           pieces == <<[kind |-> "text", at |-> text, len |-> StringLen(text, len)]>>
<1>3. Round(verdict, pieces, text + len)
  BY DEF ParseText
<1>4. /\ o \in Nat /\ o + 4 = offset + 8 /\ info = offset + 8 + font /\ info + 13 = offset + 21 + font
      /\ o + 4 \in Nat /\ info \in Nat /\ info + 13 \in Nat /\ text \in Nat /\ text = info + 13 + 4
  OBVIOUS
<1>5. len \in Int
  BY <1>2
<1>6. \/ font > 0 /\ Left(o + 4) < font
      \/ Left(info + 13) < 4
      \/ len > Len(buf)
  BY <1>4
<1> HIDE DEF o, info, len, text
<1>7. /\ v1 \in {"ok", "dropped"} /\ v2 \in {"ok", "dropped"} /\ v3 \in {"ok", "dropped"}
      /\ v4 \in {"ok", "dropped"} /\ v5 \in {"ok", "dropped"}
  <2>1. v1 \in {"ok", "dropped"} /\ v4 \in {"ok", "dropped"}
    BY DEF ReadLEInt
  <2>2. /\ o + 4 \in Int /\ info \in Int /\ text \in Int /\ font \in Int /\ 13 \in Int
        /\ o + 4 >= 0 /\ info >= 0 /\ text >= 0
    BY <1>4
  <2>3. v2 \in {"ok", "dropped"}
    BY <1>2, <2>2, ReadTypes
  <2>4. v3 \in {"ok", "dropped"}
    BY <1>2, <2>2, ReadTypes
  <2>5. v5 \in {"ok", "dropped"}
    BY <1>2, <1>5, <2>2, ReadTypes
  <2> QED
    BY <2>1, <2>3, <2>4, <2>5
<1>8. v2 = "dropped" \/ v4 = "dropped" \/ v5 = "dropped"
  <2>1. CASE font > 0 /\ Left(o + 4) < font
    BY <1>2, <1>4, <2>1, TooFewLeft
  <2>2. CASE Left(info + 13) < 4
    BY <1>2, <1>4, <2>2, TooFewLeft, SMTT(30)
  <2>3. CASE len > Len(buf)
    <3>1. text \in Int /\ text >= 0 /\ Len(buf) \in Nat
      BY <1>2, <1>4
    <3>2. len > 0 /\ Left(text) < len
      BY <1>5, <2>3, <3>1 DEF Left
    <3> QED
      BY <1>5, <3>1, <3>2, TooFewLeft
  <2> QED
    BY <1>6, <2>1, <2>2, <2>3
<1> HIDE DEF v1, v2, v3, v4, v5, v6, v7
<1>9. verdict = "dropped"
  <2>1. v1 && v2 \in {"ok", "dropped"} /\ (v2 = "dropped" => v1 && v2 = "dropped")
    BY <1>7, AndDropped
  <2>2. PICK w2 \in {"ok", "dropped"} : w2 = v1 && v2 /\ (v2 = "dropped" => w2 = "dropped")
    BY <2>1
  <2>3. PICK w3 \in {"ok", "dropped"} : w3 = w2 && v3 /\ (v2 = "dropped" => w3 = "dropped")
    BY <1>7, <2>2, AndDropped
  <2>4. PICK w4 \in {"ok", "dropped"} : w4 = w3 && v4 /\ (v2 = "dropped" \/ v4 = "dropped" => w4 = "dropped")
    BY <1>7, <2>3, AndDropped
  <2>5. w4 && v5 = "dropped"
    BY <1>7, <1>8, <2>4, AndDropped
  <2>6. "dropped" && v6 = "dropped" /\ "dropped" && v7 = "dropped"
    BY DEF &&
  <2> QED
    BY <2>2, <2>3, <2>4, <2>5, <2>6
<1> HIDE DEF verdict, pieces
<1> QED
  BY <1>3, <1>9 DEF Round

-----------------------------------------------------------------------------
(***************************************************************************)
(* A single text is read whole, and the offset moves to where it lands.    *)
(***************************************************************************)
\* The offset has moved back into the message, to an odd byte, and goes on from there in
\* fours.
Chain(o) ==
  /\ Landing \in Nat /\ Landing % 2 = 1 /\ Landing <= o
  /\ o \in Nat /\ o % 2 = 1 /\ o < Len(buf) /\ (Len(buf) - o) % 4 = 0

\* What a single text means.
LEMMA LoneMeant ==
  ASSUME Buffered, NEW t, NEW f, NEW n, Lone(t, f, n)
  PROVE  Meant = <<[kind |-> "text", at |-> 25 + f, len |-> n]>>
<1>1. sent \in Seq(Segments) /\ Len(sent) = 1 /\ 1 \in 1..Len(sent) /\ 1 - 1 = 0
  BY BufferedBytes DEF Lone
<1>2. LoneBytes(t, f, n) /\ SegmentAt(1, t, 0, Len(buf))
  BY LoneView, Zenon
<1>3. sent[1] = t /\ t.kind = "text" /\ t.len = n
  BY DEF Lone, IsText
<1>4. Ends(sent)[1] = Len(buf) /\ Len(buf) = 25 + f + n /\ f \in Nat /\ n \in Nat
  <2>1. LoneNumbers(f, n)
    BY <1>2, Zenon DEF LoneBytes
  <2> QED
    BY <1>2, <2>1 DEF SegmentAt, LoneNumbers
<1>5. Piece(sent, 1) = [kind |-> "text", at |-> 25 + f, len |-> n]
  <2>1. Ends(sent)[1] - sent[1].len = 25 + f
    BY <1>3, <1>4
  <2> QED
    BY <1>3, <2>1 DEF Piece
<1>6. Stands(sent[1])
  BY <1>3 DEF Stands
<1>7. MeantBy(sent)[0] = <<>> /\ MeantBy(sent)[1] = Append(MeantBy(sent)[0], Piece(sent, 1))
  BY <1>1, <1>6, MeantDef
<1>8. PICK q : q = [kind |-> "text", at |-> 25 + f, len |-> n]
  OBVIOUS
<1>9. Append(<<>>, q) = <<q>>
  OBVIOUS
<1> QED
  BY <1>1, <1>5, <1>7, <1>8, <1>9, Zenon DEF Meant

\* The first round reads the text.
LEMMA LoneFirst ==
  ASSUME TypeInv, LoneText, outcome = "parsing", offset = 0, shown = <<>>, Next
  PROVE  /\ sent' = sent /\ buf' = buf /\ offset' = Landing /\ shown' = Meant /\ Meant # <<>>
         /\ outcome' = IF IsEnd(Landing) THEN "shown" ELSE "parsing"
         /\ ~IsEnd(Landing) => ~Sound(sent[1].len) /\ Chain(Landing)
<1> DEFINE t == sent[1]
           f == sent[1].font
           n == sent[1].len
<1>1. Buffered /\ Lone(t, f, n)
  BY TypesBuffered, LoneForm
<1>2. LoneBytes(t, f, n) /\ SegmentAt(1, t, 0, Len(buf))
  BY <1>1, LoneView
<1>3. Meant = <<[kind |-> "text", at |-> 25 + f, len |-> n]>>
  BY <1>1, LoneMeant
<1>4. IsText(t, f, n) /\ Len(sent) = 1
  BY <1>1 DEF Lone
<1>5. LoneNumbers(f, n) /\ LEInt(0) = 0
  BY <1>2, Zenon DEF LoneBytes
<1> HIDE DEF t, f, n
<1>6. /\ f \in Nat /\ f % 2 = 0 /\ f > 0 /\ f < 32768 /\ Sound(f) /\ n \in Nat /\ n % 2 = 0 /\ n < 65536
      /\ Len(buf) = 25 + f + n
  BY <1>5 DEF LoneNumbers
<1>7. ParseText(offset + 4)
  <2>1. offset \in Nat /\ Left(offset) >= 4 /\ LEInt(offset) = 0
    BY <1>5, <1>6 DEF Left
  <2> QED
    BY <2>1, NextByTag
<1>8. TakesAll(1, n)
  <2>1. CASE Sound(n)
    BY <1>6, <2>1, SoundLength DEF TakesAll
  <2>2. CASE ~Sound(n)
    BY <1>4, <1>6, <2>2, MovesBack DEF TakesAll
  <2> QED
    BY <2>1, <2>2
<1> DEFINE end == 25 + f + ReadBack(n)
<1>9. Round("ok", <<[kind |-> "text", at |-> 25 + f, len |-> n]>>, end)
  <2>1. Round("ok", <<[kind |-> "text", at |-> 0 + 25 + f, len |-> n]>>, 0 + 25 + f + ReadBack(n))
    <3>1. Sound(f)
      BY <1>6
    <3>2. /\ Buffered /\ IsText(t, f, n) /\ SegmentAt(1, t, 0, Len(buf))
          /\ Sound(f) /\ TakesAll(1, n) /\ offset = 0 /\ ParseText(offset + 4)
      BY <1>1, <1>2, <1>4, <1>7, <1>8, <3>1, Zenon
    <3> HIDE DEF end
    <3> QED
      BY <3>2, TextRound, Zenon
  <2>2. 0 + 25 + f = 25 + f
    BY <1>6
  <2> QED
    BY <2>1, <2>2, Zenon
<1>10. /\ sent' = sent /\ buf' = buf /\ offset' = end /\ shown' = Meant
       /\ outcome' = IF IsEnd(end) THEN "shown" ELSE "parsing"
  <2>1. PICK q : q = [kind |-> "text", at |-> 25 + f, len |-> n]
    OBVIOUS
  <2> DEFINE pieces == <<q>>
  <2>2. <<>> \o pieces = pieces
    OBVIOUS
  <2> HIDE DEF end, pieces
  <2>3. Round("ok", pieces, end) /\ Meant = pieces
    BY <1>3, <1>9, <2>1, Zenon DEF pieces
  <2> QED
    BY <2>2, <2>3 DEF Round
<1>11. Landing = end
  BY DEF Landing, f, n
<1>12. Meant # <<>>
  BY <1>3
<1>13. ASSUME ~IsEnd(end) PROVE ~Sound(n) /\ Chain(end)
  <2>1. ~Sound(n)
    <3>1. Sound(n) => ReadBack(n) = n
      BY <1>6, SoundLength
    <3> QED
      BY <1>6, <1>13, <3>1 DEF IsEnd
  <2>2. /\ ReadBack(n) \in Int /\ ReadBack(n) < 0 /\ n - ReadBack(n) \in Nat
        /\ (n - ReadBack(n)) % 256 = 0
    BY <1>6, <2>1, MovesBack
  <2>3. PICK back \in Nat : back = n - ReadBack(n) /\ back % 256 = 0
    BY <2>2
  <2>4. end \in Nat /\ end < Len(buf) /\ Len(buf) - end = back /\ end % 2 = 1
    <3>1. end \in Int /\ ~(end < 0) /\ ~(end >= Len(buf))
      BY <1>6, <1>13, <2>2 DEF IsEnd
    <3>2. Len(buf) - end = back /\ end = 25 + f + n - back
      BY <1>6, <2>2, <2>3
    <3>3. back % 2 = 0
      BY <2>3
    <3> QED
      BY <1>6, <3>1, <3>2, <3>3
  <2>5. (Len(buf) - end) % 4 = 0
    BY <2>3, <2>4
  <2> HIDE DEF end
  <2>6. Chain(end)
    BY <1>11, <2>4, <2>5 DEF Chain
  <2> QED
    BY <2>1, <2>6
<1> HIDE DEF end
<1> QED
  BY <1>10, <1>11, <1>12, <1>13 DEF n

-----------------------------------------------------------------------------
(***************************************************************************)
(* A single text whose offset moves anywhere but to its second or fourth   *)
(* byte arrives, whatever its letters.                                     *)
(***************************************************************************)
\* The text has not been read; or it is shown; or it is read again, with nothing found.
LoneInv ==
  SafeText =>
    \/ outcome = "parsing" /\ offset = 0 /\ shown = <<>>
    \/ outcome = "shown" /\ shown = Meant
    \/ /\ outcome = "parsing" /\ shown = Meant /\ shown # <<>>
       /\ ~Sound(sent[1].len) /\ sent[1].style = FontBytes
       /\ Landing \notin {1, 3} /\ Chain(offset)

\* What is known of a message does not change with it.
LEMMA SameMessage ==
  ASSUME sent' = sent, buf' = buf
  PROVE  /\ SafeText' = SafeText /\ OwnText' = OwnText /\ LoneText' = LoneText
         /\ Landing' = Landing /\ Meant' = Meant
         /\ (IsEnd(Landing))' = IsEnd(Landing)
<1>1. LoneText' = LoneText /\ Landing' = Landing /\ Meant' = Meant
  BY DEF LoneText, Landing, Meant
<1>2. OwnText' = OwnText
  BY <1>1 DEF OwnText
<1>3. (IsEnd(Landing))' = IsEnd(Landing)
  BY <1>1 DEF IsEnd
<1>4. SafeText' = SafeText
  BY <1>1, <1>3 DEF SafeText
<1> QED
  BY <1>1, <1>2, <1>3, <1>4

LEMMA NextMessage ==
  ASSUME Next PROVE sent' = sent /\ buf' = buf
  BY DEF Next, ParseText, ParseSmiley, SkipUnknown, CutShort, Round

\* When the text is read again, nothing more is found in it.
LEMMA LoneAgain ==
  ASSUME TypeInv, LoneText, outcome = "parsing", shown = Meant, shown # <<>>,
         ~Sound(sent[1].len), sent[1].style = FontBytes, Landing \notin {1, 3},
         Chain(offset), Next
  PROVE  LoneInv' /\ (outcome' = "parsing" => offset' > offset)
<1> DEFINE t == sent[1]
           f == sent[1].font
           n == sent[1].len
<1>1. Buffered /\ Lone(t, f, n)
  BY TypesBuffered, LoneForm
<1>2. Len(buf) \in Nat
  BY <1>1, BufferedBytes
<1>3. ~Sound(n) /\ t.style = FontBytes
  OBVIOUS
<1> HIDE DEF t, f, n
<1>4. /\ Landing \in Nat /\ Landing % 2 = 1 /\ Landing <= offset
      /\ offset \in Nat /\ offset % 2 = 1 /\ offset < Len(buf) /\ (Len(buf) - offset) % 4 = 0
  BY DEF Chain
<1>5. offset + 4 <= Len(buf) /\ Left(offset) >= 4
  <2>1. Len(buf) - offset \in Nat /\ Len(buf) - offset > 0 /\ (Len(buf) - offset) % 4 = 0
    BY <1>2, <1>4
  <2>2. \A m \in Nat : m > 0 /\ m % 4 = 0 => m >= 4
    OBVIOUS
  <2>3. Len(buf) - offset >= 4
    BY <2>1, <2>2, Zenon
  <2> QED
    BY <1>2, <1>4, <2>3 DEF Left
<1>6. LEInt(offset) \notin {0, 1}
  <2>1. offset >= 5
    BY <1>4
  <2> QED
    BY <1>1, <1>3, <1>4, <1>5, <2>1, LoneTags
<1>7. Round("ok", <<>>, offset + 4)
  BY <1>4, <1>5, <1>6, NextByTag
<1>8. shown \o <<>> = shown
  <2>1. shown \in Seq(Pieces)
    BY DEF TypeInv, TypeOK
  <2> QED
    BY <2>1
<1>9. /\ sent' = sent /\ buf' = buf /\ offset' = offset + 4 /\ shown' = shown
      /\ outcome' = IF IsEnd(offset + 4) THEN "shown" ELSE "parsing"
  BY <1>7, <1>8 DEF Round
<1>10. shown' = Meant' /\ shown' # <<>> /\ Landing' = Landing
  BY <1>9, SameMessage
<1>11. CASE IsEnd(offset + 4)
  BY <1>9, <1>10, <1>11 DEF LoneInv
<1>12. CASE ~IsEnd(offset + 4)
  <2>1. /\ outcome' = "parsing" /\ offset + 4 < Len(buf) /\ offset + 4 > offset
        /\ offset + 4 \in Nat /\ (offset + 4) % 2 = 1 /\ Landing <= offset + 4
        /\ (Len(buf) - (offset + 4)) % 4 = 0
    BY <1>2, <1>4, <1>9, <1>12 DEF IsEnd
  <2>2. Chain(offset + 4)
    BY <1>4, <2>1 DEF Chain
  <2>3. Chain(offset)'
    BY <1>9, <1>10, <2>2 DEF Chain
  <2>4. ~Sound(sent'[1].len) /\ sent'[1].style = FontBytes
    BY <1>9
  <2> QED
    BY <1>9, <1>10, <2>1, <2>3, <2>4 DEF LoneInv
<1> QED
  BY <1>11, <1>12

\* What every step does to such a text.
LEMMA LoneStep ==
  ASSUME TypeInv, SafeText, LoneInv, Next
  PROVE  LoneInv' /\ (outcome' = "parsing" /\ shown # <<>> => offset' > offset)
<1>1. outcome = "parsing" /\ LoneText
  BY NextParses DEF SafeText
<1>2. CASE offset = 0 /\ shown = <<>>
  <2>1. /\ sent' = sent /\ buf' = buf /\ offset' = Landing /\ shown' = Meant /\ Meant # <<>>
        /\ outcome' = IF IsEnd(Landing) THEN "shown" ELSE "parsing"
        /\ ~IsEnd(Landing) => ~Sound(sent[1].len) /\ Chain(Landing)
    BY <1>1, <1>2, LoneFirst
  <2>2. shown' = Meant' /\ shown' # <<>> /\ Landing' = Landing
    BY <2>1, SameMessage
  <2>3. CASE IsEnd(Landing)
    BY <1>2, <2>1, <2>2, <2>3 DEF LoneInv
  <2>4. CASE ~IsEnd(Landing)
    <3>1. sent[1].style = FontBytes /\ Landing \notin {1, 3}
      BY <2>4 DEF SafeText
    <3>2. ~Sound(sent'[1].len) /\ sent'[1].style = FontBytes /\ Landing' \notin {1, 3}
      BY <2>1, <2>2, <2>4, <3>1
    <3>3. Chain(offset)'
      BY <2>1, <2>2, <2>4 DEF Chain
    <3> QED
      BY <1>2, <2>1, <2>2, <2>4, <3>2, <3>3 DEF LoneInv
  <2> QED
    BY <2>3, <2>4
<1>3. CASE /\ shown = Meant /\ shown # <<>> /\ ~Sound(sent[1].len) /\ sent[1].style = FontBytes
           /\ Landing \notin {1, 3} /\ Chain(offset)
  BY <1>1, <1>3, LoneAgain
<1> QED
  BY <1>1, <1>2, <1>3 DEF LoneInv

LEMMA InitLone == Init => LoneInv
  BY DEF Init, LoneInv

LEMMA NextLone == TypeInv /\ LoneInv /\ [Next]_vars => LoneInv'
<1> SUFFICES ASSUME TypeInv, LoneInv, [Next]_vars PROVE LoneInv'
  OBVIOUS
<1>1. CASE Next
  <2>1. CASE SafeText
    BY <1>1, <2>1, LoneStep
  <2>2. CASE ~SafeText
    <3>1. ~SafeText'
      BY <1>1, <2>2, NextMessage, SameMessage
    <3> QED
      BY <3>1 DEF LoneInv
  <2> QED
    BY <2>1, <2>2
<1>2. CASE UNCHANGED vars
  <2>1. sent' = sent /\ buf' = buf /\ offset' = offset /\ shown' = shown /\ outcome' = outcome
    BY <1>2 DEF vars
  <2>2. SafeText' = SafeText /\ Landing' = Landing /\ Meant' = Meant
    BY <2>1, SameMessage
  <2>3. Chain(offset)' = Chain(offset)
    BY <2>1, <2>2 DEF Chain
  <2> QED
    BY <2>1, <2>2, <2>3 DEF LoneInv
<1> QED
  BY <1>1, <1>2

LEMMA Lones == Spec => []LoneInv
  BY Types, InitLone, NextLone, PTL DEF Spec

\* A single text of any length that fits its two bytes, of any letters and in any font with
\* a name of sound length, is neither dropped nor aborts the program, and what is shown is
\* the text, unless its length moves the offset back to the second or fourth byte, or
\* another program's description of a font is read as tags.
THEOREM LoneTextsArrive == Spec => []LoneArrives
<1>1. LoneInv => LoneArrives
  BY DEF LoneInv, LoneArrives
<1> QED
  BY <1>1, Lones, PTL

-----------------------------------------------------------------------------
(***************************************************************************)
(* A single text of this program: what is found from its second or fourth  *)
(* byte on.                                                                *)
(***************************************************************************)
\* The size of a message of one text.
Small(size) == size \in Nat /\ size < 65573

\* Two bytes below 128, each in front of a zero: no such message is that long.
Apart(o, x, y) ==
  Byte(o) = x /\ Byte(o + 1) = 0 /\ Byte(o + 2) = y /\ Byte(o + 3) = 0

LEMMA BytesApart ==
  ASSUME NEW o, NEW x \in 1..127, NEW y \in 0..127, NEW size, Small(size), Apart(o, x, y)
  PROVE  LEInt(o) \in Nat /\ LEInt(o) > size
<1>1. LEInt(o) = BytesToLEInt(x, 0, y, 0)
  BY DEF LEInt, Apart
<1>2. x \in ByteSet /\ 0 \in ByteSet /\ y \in ByteSet
  BY DEF ByteSet
<1>3. BytesToLEInt(x, 0, y, 0) = x * 16777216 + 0 * 65536 + y * 256 + 0
  BY <1>2, JoinedBytes, SMT
<1> QED
  BY <1>1, <1>3, SMT DEF Small

\* What is known of the bytes of a text t of n bytes of this program: its font's length
\* read from the odd bytes, and its letters.
OwnLetters(t, n) ==
  /\ t.letters \in Patterns
  /\ \A i \in 1..n : Byte(36 + i) = Letters(n, t.letters)[i]

OwnBytes(t, n) ==
  /\ n \in Nat /\ n % 2 = 0 /\ n < 65536 /\ Len(buf) = 37 + n
  /\ LEInt(1) = 0 /\ LEInt(3) = 0 /\ LEInt(5) = 3072 /\ LEInt(7) \in Nat /\ LEInt(7) > Len(buf)
  /\ \A o \in 37..35 + n : o % 2 = 1 => Byte(o) # 0 \/ Byte(o + 1) # 0
  /\ OwnLetters(t, n)

LEMMA OwnView ==
  ASSUME Buffered, OwnText
  PROVE  OwnBytes(sent[1], sent[1].len)
<1> DEFINE t == sent[1]
           n == sent[1].len
<1>0. LoneText /\ t.font = 12 /\ t.name = Dialog
  BY DEF OwnText
<1>1. Lone(t, 12, n)
  BY <1>0, LoneForm
<1> HIDE DEF t, n
<1>2. LoneBytes(t, 12, n)
  BY <1>1, LoneView
<1>3. IsText(t, 12, n)
  BY <1>1 DEF Lone
<1>4. n \in Nat /\ n % 2 = 0 /\ n < 65536 /\ Len(buf) = 37 + n
  <2>1. LoneNumbers(12, n)
    BY <1>2 DEF LoneBytes
  <2> QED
    BY <2>1 DEF LoneNumbers
<1>5. PICK hi, lo : LoneByte(t, 12, n, hi, lo)
  BY <1>2, LoneByteAt
<1>6. hi = 0 /\ lo = 12 /\ Byte(6) = 0 /\ Byte(7) = 12 /\ \A o \in 0..5 : Byte(o) = 0
  <2>1. /\ hi \in 0..127 /\ lo \in 0..127 /\ 12 = 256 * hi + lo
        /\ Byte(6) = hi /\ Byte(7) = lo /\ \A o \in 0..5 : Byte(o) = 0
    BY <1>5 DEF LoneByte
  <2>2. hi = 0 /\ lo = 12
    BY <2>1
  <2> QED
    BY <2>1, <2>2
<1>7. t.name \in Patterns /\ t.letters \in Patterns
  <2>1. PICK f : f = 12 /\ IsText(t, f, n)
    BY <1>3
  <2> QED
    BY <2>1, TextFields, Zenon
<1>8. /\ \A i \in 1..12 : Byte(7 + i) = Letters(12, t.name)[i]
      /\ \A i \in 1..n : Byte(36 + i) = Letters(n, t.letters)[i]
  <2>1. 24 + 12 = 36
    OBVIOUS
  <2> QED
    BY <1>5, <2>1 DEF LoneByte
<1>9. Byte(8) = 0 /\ Byte(9) \in 1..127 /\ Byte(10) = 0
  <2> DEFINE L == Letters(12, t.name)
  <2>1. \A k \in DOMAIN t.name : t.name[k] < 128
    <3>1. \A k \in DOMAIN Dialog : Dialog[k] < 128
      BY DEF Dialog
    <3> QED
      BY <1>0, <3>1 DEF t
  <2>2. \A i \in 1..12 : IF i % 2 = 1 THEN L[i] = 0 ELSE L[i] \in 1..127
    BY <1>7, <2>1, AsciiLetters
  <2>3. /\ 1 \in 1..12 /\ 2 \in 1..12 /\ 3 \in 1..12 /\ 1 % 2 = 1 /\ 2 % 2 # 1 /\ 3 % 2 = 1
        /\ 7 + 1 = 8 /\ 7 + 2 = 9 /\ 7 + 3 = 10
    OBVIOUS
  <2> HIDE DEF L
  <2>4. L[1] = 0 /\ L[2] \in 1..127 /\ L[3] = 0
    BY <2>2, <2>3, Zenon
  <2>5. Byte(8) = L[1] /\ Byte(9) = L[2] /\ Byte(10) = L[3]
    BY <1>8, <2>3 DEF L
  <2> QED
    BY <2>4, <2>5
<1>10. Byte(1) = 0 /\ Byte(2) = 0 /\ Byte(3) = 0 /\ Byte(4) = 0 /\ Byte(5) = 0
  BY <1>6
<1>11. LEInt(1) = 0 /\ LEInt(3) = 0 /\ LEInt(5) = 3072
  <2>1. /\ LEInt(1) = BytesToLEInt(0, 0, 0, 0) /\ LEInt(3) = BytesToLEInt(0, 0, 0, 0)
        /\ LEInt(5) = BytesToLEInt(0, 0, 12, 0)
    BY <1>6, <1>9, <1>10 DEF LEInt
  <2>2. BytesToLEInt(0, 0, 0, 0) = 0 /\ BytesToLEInt(0, 0, 12, 0) = 3072
    BY BothPositive
  <2> QED
    BY <2>1, <2>2
<1>12. LEInt(7) \in Nat /\ LEInt(7) > Len(buf)
  <2>1. PICK y \in 1..127 : y = Byte(9)
    BY <1>9
  <2>2. 12 \in 1..127 /\ y \in 0..127 /\ 7 + 1 = 8 /\ 7 + 2 = 9 /\ 7 + 3 = 10
    OBVIOUS
  <2>3. PICK size : size = Len(buf)
    OBVIOUS
  <2>4. Small(size)
    BY <1>4, <2>3, SMT DEF Small
  <2>5. LEInt(7) \in Nat /\ LEInt(7) > size
    <3>1. Byte(7) = 12 /\ Byte(7 + 1) = 0 /\ Byte(7 + 2) = y /\ Byte(7 + 3) = 0
      BY <1>6, <1>9, <2>1, <2>2
    <3>2. Apart(7, 12, y)
      BY <3>1 DEF Apart
    <3> QED
      BY <2>2, <2>4, <3>2, BytesApart
  <2> QED
    BY <2>3, <2>5
<1>13. \A o \in 37..35 + n : o % 2 = 1 => Byte(o) # 0 \/ Byte(o + 1) # 0
  <2>1. LonePairs(12, n)
    BY <1>3, <1>5, LonePairsAt
  <2> QED
    BY <1>4, <2>1 DEF LonePairs
<1>14. OwnLetters(t, n)
  BY <1>7, <1>8, Zenon DEF OwnLetters
<1>15. OwnBytes(t, n)
  BY <1>4, <1>11, <1>12, <1>13, <1>14 DEF OwnBytes
<1> QED
  BY <1>15 DEF t, n

\* Letters that are all ASCII, read as a length from an even byte on, are one that no
\* message is long enough for.
Ascii(t) == \A k \in DOMAIN t.letters : t.letters[k] < 128

LEMMA AsciiLength ==
  ASSUME NEW t, NEW n \in Nat, OwnLetters(t, n), Ascii(t), NEW size, Small(size),
         NEW i \in 1..n, i % 2 = 0, i + 3 <= n
  PROVE  LEInt(36 + i) > size
<1>1. t.letters \in Patterns /\ \A j \in 1..n : Byte(36 + j) = Letters(n, t.letters)[j]
  BY Zenon DEF OwnLetters
<1> DEFINE L == Letters(n, t.letters)
<1>2. \A j \in 1..n : IF j % 2 = 1 THEN L[j] = 0 ELSE L[j] \in 1..127
  <2>1. PICK letters : letters = t.letters
    OBVIOUS
  <2>2. letters \in Patterns /\ \A k \in DOMAIN letters : letters[k] < 128
    BY <1>1, <2>1, Zenon DEF Ascii
  <2>3. \A j \in 1..n : IF j % 2 = 1 THEN Letters(n, letters)[j] = 0
                                     ELSE Letters(n, letters)[j] \in 1..127
    BY <2>2, AsciiLetters
  <2> QED
    BY <2>1, <2>3
<1>3. \A j \in 1..n : Byte(36 + j) = L[j]
  BY <1>1
<1> HIDE DEF L
<1>4. /\ i + 1 \in 1..n /\ i + 2 \in 1..n /\ i + 3 \in 1..n
      /\ i % 2 # 1 /\ (i + 1) % 2 = 1 /\ (i + 2) % 2 # 1 /\ (i + 3) % 2 = 1
      /\ 36 + (i + 1) = (36 + i) + 1 /\ 36 + (i + 2) = (36 + i) + 2 /\ 36 + (i + 3) = (36 + i) + 3
  OBVIOUS
<1>5. PICK x \in 1..127, y \in 1..127 :
        /\ Byte(36 + i) = x /\ Byte((36 + i) + 1) = 0
        /\ Byte((36 + i) + 2) = y /\ Byte((36 + i) + 3) = 0
  <2>1. L[i] \in 1..127 /\ L[i + 1] = 0 /\ L[i + 2] \in 1..127 /\ L[i + 3] = 0
    BY <1>2, <1>4
  <2>2. /\ Byte(36 + i) = L[i] /\ Byte((36 + i) + 1) = L[i + 1]
        /\ Byte((36 + i) + 2) = L[i + 2] /\ Byte((36 + i) + 3) = L[i + 3]
    <3>1. /\ Byte(36 + (i + 1)) = L[i + 1] /\ Byte(36 + (i + 2)) = L[i + 2]
          /\ Byte(36 + (i + 3)) = L[i + 3] /\ Byte(36 + i) = L[i]
      BY <1>3, <1>4, Zenon
    <3> QED
      BY <1>4, <3>1, Zenon
  <2> QED
    BY <2>1, <2>2
<1>6. PICK o : o = 36 + i
  OBVIOUS
<1>7. LEInt(o) > size
  <2>1. x \in 1..127 /\ y \in 0..127
    OBVIOUS
  <2>2. Apart(o, x, y)
    BY <1>5, <1>6 DEF Apart
  <2> QED
    BY <2>1, <2>2, BytesApart
<1> QED
  BY <1>6, <1>7

\* What a round that reads a text has read if it does not throw.
TextReads(text, len) ==
  \E verdict \in Verdicts : \E piece :
    /\ Round(verdict, <<piece>>, text + len)
    /\ verdict = "ok" => /\ ReadStringn(text, len) = "ok"
                         /\ Encode(text, StringLen(text, len)) = "ok"

LEMMA TextRead ==
  ASSUME TypeInv, offset \in Nat, ParseText(offset + 4),
         NEW font \in Nat, font = LEInt(offset + 4),
         NEW text, text = offset + 25 + font, NEW len, len = LEInt(offset + 21 + font)
  PROVE  TextReads(text, len)
<1>1. Buffered
  BY TypesBuffered
<1>2. Len(buf) \in Nat /\ \A p : LEInt(p) \in Int
  BY <1>1, BufferedBytes
<1> DEFINE o == offset + 4
           info == o + 4 + font
           at == info + 17
           v1 == ReadLEInt(o)
           v2 == ReadStringn(o + 4, font)
           v3 == ReadStringn(info, 13)
           v4 == ReadLEInt(info + 13)
           v5 == ReadStringn(at, len)
           v6 == Encode(at, StringLen(at, len))
           v7 == Encode(o + 4, StringLen(o + 4, font))
           verdict == v1 && v2 && v3 && v4 && v5 && v6 && v7
           piece == [kind |-> "text", at |-> at, len |-> StringLen(at, len)]
<1>3. info + 13 = offset + 21 + font /\ at = text
  OBVIOUS
<1>4. Round(verdict, <<piece>>, at + len)
  <2>1. LEInt(info + 13) = len
    BY <1>3, Zenon
  <2>2. Round(v1 && v2 && v3 && ReadLEInt(info + 13) && ReadStringn(at, LEInt(info + 13))
              && Encode(at, StringLen(at, LEInt(info + 13))) && v7,
              <<[kind |-> "text", at |-> at, len |-> StringLen(at, LEInt(info + 13))]>>,
              at + LEInt(info + 13))
    BY DEF ParseText
  <2> QED
    BY <2>1, <2>2, Zenon
<1>5. /\ v1 \in Verdicts /\ v2 \in Verdicts /\ v3 \in Verdicts /\ v4 \in Verdicts
      /\ v5 \in Verdicts /\ v6 \in Verdicts /\ v7 \in Verdicts
  <2>1. /\ o \in Int /\ o + 4 \in Int /\ info \in Int /\ info + 13 \in Int /\ at \in Int
        /\ font \in Int /\ 13 \in Int /\ len \in Int
    BY <1>2
  <2>2. StringLen(at, len) \in Int /\ StringLen(o + 4, font) \in Int
    BY <1>2, <2>1 DEF StringLen, Left
  <2>3. \A v \in {"ok", "dropped"} : v \in Verdicts
    BY DEF Verdicts
  <2> HIDE DEF o, info, at
  <2>4. v1 \in Verdicts /\ v4 \in Verdicts
    BY <1>2, <2>1, <2>3, ReadTypes
  <2>5. v2 \in Verdicts /\ v3 \in Verdicts /\ v5 \in Verdicts
    BY <1>2, <2>1, ReadTypes
  <2>6. v6 \in Verdicts /\ v7 \in Verdicts
    BY <1>2, <2>1, <2>2, ReadTypes
  <2> QED
    BY <2>4, <2>5, <2>6
<1> HIDE DEF v1, v2, v3, v4, v5, v6, v7
<1>6. verdict \in Verdicts /\ (verdict = "ok" => v5 = "ok" /\ v6 = "ok")
  <2>1. PICK w2 \in Verdicts : w2 = v1 && v2
    BY <1>5, AndType
  <2>2. PICK w3 \in Verdicts : w3 = w2 && v3
    BY <1>5, <2>1, AndType
  <2>3. PICK w4 \in Verdicts : w4 = w3 && v4
    BY <1>5, <2>2, AndType
  <2>4. PICK w5 \in Verdicts : w5 = w4 && v5 /\ (w5 = "ok" => v5 = "ok")
    BY <1>5, <2>3, AndType
  <2>5. PICK w6 \in Verdicts : w6 = w5 && v6 /\ (w6 = "ok" => w5 = "ok" /\ v6 = "ok")
    BY <1>5, <2>4, AndType
  <2>6. PICK w7 \in Verdicts : w7 = w6 && v7 /\ (w7 = "ok" => w6 = "ok")
    BY <1>5, <2>5, AndType
  <2>7. verdict = w7
    BY <2>1, <2>2, <2>3, <2>4, <2>5, <2>6, Zenon
  <2> HIDE DEF verdict
  <2> QED
    BY <2>4, <2>5, <2>6, <2>7
<1>7. v5 = ReadStringn(text, len) /\ v6 = Encode(text, StringLen(text, len))
  BY <1>3, Zenon DEF v5, v6
<1>8. Round(verdict, <<piece>>, text + len)
  BY <1>3, <1>4, Zenon
<1> HIDE DEF verdict, piece
<1> QED
  BY <1>6, <1>7, <1>8 DEF TextReads

\* The offset has moved back to the second or the fourth byte of a text of this program.
Struck == OwnText /\ ~IsEnd(Landing) /\ Landing \in {1, 3}

\* The text has not been read, or it has; or, where the second byte is read as a tag, a
\* second text has been found in it, half a letter off; or it is dropped; or half a letter
\* was given to encode.
OwnInv ==
  Struck =>
    \/ outcome = "parsing" /\ offset = 0 /\ shown = <<>>
    \/ outcome = "parsing" /\ offset = Landing /\ shown # <<>>
    \/ /\ outcome = "parsing" /\ Landing = 1 /\ shown # <<>>
       /\ offset \in Nat /\ offset % 2 = 0 /\ offset >= 36 /\ offset < Len(buf)
    \/ outcome = "dropped"
    \/ /\ outcome = "aborted" /\ Landing = 1 /\ sent[1].len >= 3061
       /\ \E k \in DOMAIN sent[1].letters : sent[1].letters[k] >= 128

\* From the fourth byte on a text is found whose font takes more than there is.
LEMMA FourthByte ==
  ASSUME TypeInv, OwnText, offset = 3, Next
  PROVE  outcome' = "dropped"
<1>1. Buffered /\ Len(buf) \in Nat
  BY TypesBuffered, BufferedBytes
<1>2. /\ LEInt(3) = 0 /\ LEInt(7) \in Nat /\ LEInt(7) > Len(buf)
      /\ sent[1].len \in Nat /\ sent[1].len < 65536 /\ Len(buf) = 37 + sent[1].len
  BY <1>1, OwnView DEF OwnBytes
<1>3. ParseText(offset + 4)
  <2>1. offset \in Nat /\ Left(offset) >= 4 /\ LEInt(offset) = 0
    BY <1>2 DEF Left
  <2> QED
    BY <2>1, NextByTag
<1>4. PICK font \in Nat : font = LEInt(offset + 4) /\ font > 0 /\ Left(offset + 8) < font
  <2>1. offset + 4 = 7
    OBVIOUS
  <2>2. LEInt(7) > 0 /\ Left(offset + 8) < LEInt(7)
    BY <1>2 DEF Left
  <2> QED
    BY <1>2, <2>1, <2>2
<1>5. Round("dropped", <<>>, offset')
  <2>1. offset \in Nat
    OBVIOUS
  <2> QED
    BY <1>3, <1>4, <2>1, TextDropped
<1> QED
  BY <1>5 DEF Round

LEMMA LettersAreNat ==
  ASSUME NEW letter \in Alphabet
  PROVE  letter \in Nat
BY DEF Alphabet

\* From the second byte on a text is found in a font of 3072 bytes: it is dropped if there
\* are fewer or its letters are ASCII, and otherwise what is read as its length is negative
\* and leaves half a letter to convert, or it is even and leads into the middle of a letter.
LEMMA SecondByte ==
  ASSUME TypeInv, OwnText, offset = 1, shown # <<>>, Next
  PROVE  \/ outcome' = "dropped"
         \/ /\ outcome' = "aborted" /\ sent[1].len >= 3061
            /\ \E k \in DOMAIN sent[1].letters : sent[1].letters[k] >= 128
         \/ /\ outcome' = "parsing" /\ shown' # <<>>
            /\ offset' \in Nat /\ offset' % 2 = 0 /\ offset' >= 36 /\ offset' < Len(buf)
<1> DEFINE t == sent[1]
           n == sent[1].len
<1>1. Buffered /\ Len(buf) \in Nat
  BY TypesBuffered, BufferedBytes
<1>2. OwnBytes(t, n)
  BY <1>1, OwnView
<1>3. \A p : LEInt(p) \in Int
  BY <1>1, BufferedBytes
<1> HIDE DEF t, n
<1>4. LEInt(1) = 0 /\ LEInt(5) = 3072 /\ n \in Nat /\ n % 2 = 0 /\ n < 65536 /\ Len(buf) = 37 + n
  BY <1>2 DEF OwnBytes
<1>5. ParseText(offset + 4)
  <2>1. offset \in Nat /\ Left(offset) >= 4 /\ LEInt(offset) = 0
    BY <1>4 DEF Left
  <2> QED
    BY <2>1, NextByTag
<1>6. PICK font \in Nat : font = 3072 /\ font = LEInt(offset + 4)
  <2>1. offset + 4 = 5
    OBVIOUS
  <2> QED
    BY <1>4, <2>1
<1>7. offset \in Nat /\ offset + 21 + font = 3094 /\ offset + 25 + font = 3098
  BY <1>6
<1>8. ASSUME Left(3094) < 4 \/ LEInt(3094) > Len(buf) PROVE outcome' = "dropped"
  <2>1. Round("dropped", <<>>, offset')
    BY <1>5, <1>6, <1>7, <1>8, TextDropped
  <2> QED
    BY <2>1 DEF Round
<1>9. ASSUME ~(Left(3094) < 4), ~(LEInt(3094) > Len(buf))
      PROVE  /\ n >= 3061
             /\ \E k \in DOMAIN t.letters : t.letters[k] >= 128
             /\ Left(3098) \in Nat /\ Left(3098) > 0 /\ Left(3098) % 2 = 1
  <2>1. n >= 3061
    BY <1>4, <1>9 DEF Left
  <2>2. Left(3098) \in Nat /\ Left(3098) > 0 /\ Left(3098) % 2 = 1
    BY <1>4, <2>1 DEF Left
  <2>3. ~Ascii(t)
    <3>1. PICK i \in 1..n : i = 3058 /\ i % 2 = 0 /\ i + 3 <= n /\ 36 + i = 3094
      BY <1>4, <2>1
    <3>2. OwnLetters(t, n)
      BY <1>2 DEF OwnBytes
    <3>3. PICK size : size = Len(buf)
      OBVIOUS
    <3>4. Small(size)
      BY <1>4, <3>3, SMT DEF Small
    <3>5. ~(LEInt(36 + i) > size)
      BY <1>9, <3>1, <3>3
    <3>6. n \in Nat /\ i % 2 = 0 /\ i + 3 <= n
      BY <1>4, <3>1
    <3>7. Ascii(t) => LEInt(36 + i) > size
      BY <3>2, <3>4, <3>6, AsciiLength
    <3> QED
      BY <3>5, <3>7, Zenon
  <2>4. PICK k \in DOMAIN t.letters : ~(t.letters[k] < 128)
    BY <2>3 DEF Ascii
  <2>5. t.letters[k] \in Nat
    <3>1. PICK letters : letters = t.letters
      OBVIOUS
    <3>2. OwnLetters(t, n)
      BY <1>2 DEF OwnBytes
    <3>3. letters \in Seq(Alphabet)
      BY <3>1, <3>2, Zenon DEF OwnLetters, Patterns
    <3>4. letters[k] \in Alphabet
      <4>1. k \in 1..Len(letters)
        BY <3>1, <3>3
      <4> QED
        BY <3>3, <4>1, ElementOfSeq
    <3> QED
      BY <3>1, <3>4, LettersAreNat, Zenon
  <2> QED
    BY <2>1, <2>2, <2>4, <2>5
<1>10. ASSUME ~(Left(3094) < 4), ~(LEInt(3094) > Len(buf))
       PROVE  \/ outcome' \in {"dropped", "aborted"}
              \/ /\ outcome' = "parsing" /\ shown' # <<>>
                 /\ offset' \in Nat /\ offset' % 2 = 0 /\ offset' >= 36 /\ offset' < Len(buf)
  <2>1. PICK len \in Int : len = LEInt(3094)
    BY <1>3
  <2>2. PICK text \in Nat : text = 3098
    OBVIOUS
  <2>3. PICK verdict \in Verdicts : \E p :
          /\ Round(verdict, <<p>>, text + len)
          /\ verdict = "ok" => /\ ReadStringn(text, len) = "ok"
                               /\ Encode(text, StringLen(text, len)) = "ok"
    <3>1. text = offset + 25 + font /\ len = LEInt(offset + 21 + font)
      BY <1>7, <2>1, <2>2
    <3>2. TextReads(text, len)
      BY <1>5, <1>6, <1>7, <3>1, TextRead
    <3> QED
      BY <3>2 DEF TextReads
  <2>4. PICK piece :
          /\ Round(verdict, <<piece>>, text + len)
          /\ verdict = "ok" => /\ ReadStringn(text, len) = "ok"
                               /\ Encode(text, StringLen(text, len)) = "ok"
    BY <2>3
  <2>5. CASE verdict # "ok"
    <3>1. outcome' = verdict
      BY <2>4, <2>5 DEF Round
    <3> QED
      BY <2>3, <2>5, <3>1 DEF Verdicts
  <2>6. CASE verdict = "ok"
    <3>1. ReadStringn(text, len) = "ok" /\ StringLen(text, len) % 2 = 0
      BY <2>4, <2>6 DEF Encode
    <3>2. Left(text) \in Nat /\ Left(text) > 0 /\ Left(text) % 2 = 1
      BY <1>9, <1>10, <2>2
    <3>3. len >= 0 /\ len % 2 = 0
      BY <3>1, <3>2 DEF StringLen
    <3>4. len = 0 \/ ~(Left(text) < len)
      <4>1. len # 0 /\ Left(text) < len => ReadStringn(text, len) = "dropped"
        BY <1>1, <3>3, TooFewLeft
      <4> QED
        BY <3>1, <4>1
    <3>5. len < Left(text)
      BY <3>2, <3>3, <3>4
    <3>6. /\ text + len \in Nat /\ (text + len) % 2 = 0 /\ text + len >= 36
          /\ text + len < Len(buf)
      BY <1>4, <2>2, <3>3, <3>5 DEF Left
    <3>7. /\ offset' = text + len /\ shown' = shown \o <<piece>>
          /\ outcome' = IF IsEnd(text + len) THEN "shown" ELSE "parsing"
      BY <2>4, <2>6 DEF Round
    <3>8. ~IsEnd(text + len)
      BY <1>1, <3>6 DEF IsEnd
    <3>9. shown' # <<>>
      <4>1. shown \in Seq(Pieces) /\ Len(<<piece>>) = 1
        BY DEF TypeInv, TypeOK
      <4>2. PICK s : s = shown
        OBVIOUS
      <4>3. s # <<>> => s \o <<piece>> # <<>>
        BY <4>1, <4>2
      <4> QED
        BY <3>7, <4>2, <4>3
    <3> QED
      BY <3>6, <3>7, <3>8, <3>9
  <2> QED
    BY <2>5, <2>6
<1> QED
  BY <1>8, <1>9, <1>10 DEF t, n

\* In the middle of a letter nothing is found, and the message ends within a tag.
LEMMA HalfLetters ==
  ASSUME TypeInv, OwnText, outcome = "parsing", offset \in Nat, offset % 2 = 0,
         offset >= 36, offset < Len(buf), Next
  PROVE  \/ outcome' = "dropped"
         \/ /\ outcome' = "parsing" /\ shown' = shown /\ offset' = offset + 4
            /\ offset + 4 < Len(buf)
<1> DEFINE n == sent[1].len
<1>1. Buffered /\ Len(buf) \in Nat
  BY TypesBuffered, BufferedBytes
<1>2. OwnBytes(sent[1], n)
  BY <1>1, OwnView
<1> HIDE DEF n
<1>3. /\ n \in Nat /\ n % 2 = 0 /\ Len(buf) = 37 + n
      /\ \A o \in 37..35 + n : o % 2 = 1 => Byte(o) # 0 \/ Byte(o + 1) # 0
  BY <1>2 DEF OwnBytes
<1>4. CASE Left(offset) < 4
  <2>1. ReadLEInt(offset) # "ok"
    BY <1>3, <1>4 DEF ReadLEInt, Left
  <2>2. CutShort
    BY <2>1 DEF Next, ParseText, ParseSmiley, SkipUnknown, AtTag
  <2> QED
    BY <2>2 DEF CutShort
<1>5. CASE ~(Left(offset) < 4)
  <2>1. Left(offset) >= 4 /\ offset + 5 <= Len(buf)
    BY <1>3, <1>5 DEF Left
  <2>2. Byte(offset + 1) # 0 \/ Byte(offset + 2) # 0
    <3>1. offset + 1 \in 37..35 + n /\ (offset + 1) % 2 = 1 /\ (offset + 1) + 1 = offset + 2
      BY <1>3, <2>1
    <3> QED
      BY <1>3, <3>1
  <2>3. LEInt(offset) \notin {0, 1}
    BY <1>1, <2>2, NoTag
  <2>4. Round("ok", <<>>, offset + 4)
    BY <2>1, <2>3, NextByTag
  <2>5. shown \o <<>> = shown
    <3>1. shown \in Seq(Pieces)
      BY DEF TypeInv, TypeOK
    <3> QED
      BY <3>1
  <2>6. ~IsEnd(offset + 4)
    BY <1>1, <2>1 DEF IsEnd
  <2> QED
    BY <1>1, <2>1, <2>4, <2>5, <2>6 DEF Round
<1> QED
  BY <1>4, <1>5

\* What every step does to such a text.
LEMMA OwnStep ==
  ASSUME TypeInv, Struck, OwnInv, Next
  PROVE  OwnInv' /\ (outcome' = "parsing" /\ shown # <<>> => offset' > offset)
<1>1. outcome = "parsing" /\ OwnText /\ LoneText /\ ~IsEnd(Landing) /\ Landing \in {1, 3}
  BY NextParses DEF Struck, OwnText
<1>2. sent' = sent /\ buf' = buf
  BY NextMessage
<1>3. Landing' = Landing /\ Meant' = Meant
  BY <1>2, SameMessage
<1>4. ASSUME outcome' = "dropped" PROVE OwnInv'
  BY <1>4 DEF OwnInv
<1>5. CASE offset = 0 /\ shown = <<>>
  <2>1. offset' = Landing /\ shown' # <<>> /\ outcome' = "parsing"
    BY <1>1, <1>5, LoneFirst
  <2> QED
    BY <1>3, <1>5, <2>1 DEF OwnInv
<1>6. CASE offset = Landing /\ shown # <<>>
  <2>1. CASE Landing = 3
    <3>1. outcome' = "dropped"
      BY <1>1, <1>6, <2>1, FourthByte
    <3> QED
      BY <1>4, <3>1
  <2>2. CASE Landing = 1
    <3>1. \/ outcome' = "dropped"
          \/ /\ outcome' = "aborted" /\ sent[1].len >= 3061
             /\ \E k \in DOMAIN sent[1].letters : sent[1].letters[k] >= 128
          \/ /\ outcome' = "parsing" /\ shown' # <<>>
             /\ offset' \in Nat /\ offset' % 2 = 0 /\ offset' >= 36 /\ offset' < Len(buf)
      BY <1>1, <1>6, <2>2, SecondByte
    <3>2. outcome' = "parsing" => offset' > offset
      BY <1>6, <2>2, <3>1
    <3>3. OwnInv'
      BY <1>2, <1>3, <2>2, <3>1 DEF OwnInv
    <3> QED
      BY <3>2, <3>3
  <2> QED
    BY <1>1, <2>1, <2>2
<1>7. CASE /\ Landing = 1 /\ shown # <<>>
           /\ offset \in Nat /\ offset % 2 = 0 /\ offset >= 36 /\ offset < Len(buf)
  <2>1. \/ outcome' = "dropped"
        \/ /\ outcome' = "parsing" /\ shown' = shown /\ offset' = offset + 4
           /\ offset + 4 < Len(buf)
    BY <1>1, <1>7, HalfLetters
  <2>2. CASE outcome' = "dropped"
    BY <1>4, <2>2
  <2>3. CASE /\ outcome' = "parsing" /\ shown' = shown /\ offset' = offset + 4
             /\ offset + 4 < Len(buf)
    <3>1. /\ offset' \in Nat /\ offset' % 2 = 0 /\ offset' >= 36 /\ offset' < Len(buf)
          /\ offset' > offset
      BY <1>7, <2>3
    <3> QED
      BY <1>2, <1>3, <1>7, <2>3, <3>1 DEF OwnInv
  <2> QED
    BY <2>1, <2>2, <2>3
<1> QED
  BY <1>1, <1>5, <1>6, <1>7 DEF OwnInv

LEMMA InitOwn == Init => OwnInv
  BY DEF Init, OwnInv

LEMMA NextOwn == TypeInv /\ OwnInv /\ [Next]_vars => OwnInv'
<1> SUFFICES ASSUME TypeInv, OwnInv, [Next]_vars PROVE OwnInv'
  OBVIOUS
<1>1. CASE Next
  <2>1. CASE Struck
    BY <1>1, <2>1, OwnStep
  <2>2. CASE ~Struck
    <3>1. ~Struck'
      BY <1>1, <2>2, NextMessage, SameMessage DEF Struck
    <3> QED
      BY <3>1 DEF OwnInv
  <2> QED
    BY <2>1, <2>2
<1>2. CASE UNCHANGED vars
  <2>1. sent' = sent /\ buf' = buf /\ offset' = offset /\ shown' = shown /\ outcome' = outcome
    BY <1>2 DEF vars
  <2>2. Struck' = Struck /\ Landing' = Landing
    BY <2>1, SameMessage DEF Struck
  <2> QED
    BY <2>1, <2>2 DEF OwnInv
<1> QED
  BY <1>1, <1>2

LEMMA Owns == Spec => []OwnInv
  BY Types, InitOwn, NextOwn, PTL DEF Spec

\* The lengths at which the offset moves back to the second or fourth byte of a text of
\* this program.
LEMMA LossLengths ==
  ASSUME NEW n \in Nat, n < 65536, 37 + ReadBack(n) \in {1, 3}
  PROVE  n % 256 \in {220, 222} /\ (37 + ReadBack(n) = 1 => n % 256 = 220)
<1> DEFINE hi == n \div 256
           lo == n % 256
           r == ReadBack(n)
<1>1. hi \in 0..255 /\ lo \in 0..255
  BY TwoBytes
<1>2. ReadAs(hi, lo, r)
  <2>1. n \div 256 \in ByteSet
    BY <1>1 DEF ByteSet
  <2> QED
    BY <2>1, ReadBackAs
<1>3. r \in Int /\ 37 + r \in {1, 3}
  BY ReadBackType
<1> HIDE DEF hi, lo, r
<1>4. r = -36 \/ r = -34
  BY <1>3
<1>5. lo >= 128
  BY <1>1, <1>2, <1>4 DEF ReadAs
<1>6. lo = 256 + r
  BY <1>1, <1>2, <1>5 DEF ReadAs
<1>7. lo \in {220, 222} /\ (37 + r = 1 => lo = 220)
  BY <1>4, <1>6
<1> QED
  BY <1>7 DEF lo, r

\* Of the texts this program writes alone in a message what is shown is what was written;
\* only those are ever dropped whose length has a low byte of 220 or 222; and only those
\* abort their reader whose length has a low byte of 220, is 3292 or more, and which have a
\* letter that is not ASCII.
THEOREM OwnTextsArrive == Spec => []OwnTextArrives
<1>1. TypeInv /\ LoneInv /\ OwnInv => OwnTextArrives
  <2> SUFFICES ASSUME TypeInv, LoneInv, OwnInv, OwnText
               PROVE  /\ outcome = "shown" => shown = Meant
                      /\ outcome = "dropped" => sent[1].len % 256 \in {220, 222}
                      /\ outcome = "aborted" =>
                           /\ sent[1].len % 256 = 220 /\ sent[1].len >= 3292
                           /\ \E i \in DOMAIN sent[1].letters : sent[1].letters[i] >= 128
    BY DEF OwnTextArrives
  <2>1. LoneText /\ sent[1].font = 12 /\ sent[1].style = FontBytes
    BY DEF OwnText
  <2>2. CASE SafeText
    BY <2>2 DEF LoneInv
  <2>3. CASE ~SafeText
    <3>1. Struck /\ Landing \in {1, 3}
      BY <2>1, <2>3 DEF SafeText, Struck
    <3>2. PICK n \in Nat : n = sent[1].len /\ n < 65536
      <4>1. Lone(sent[1], sent[1].font, sent[1].len)
        BY <2>1, TypesBuffered, LoneForm
      <4>2. IsText(sent[1], sent[1].font, sent[1].len) /\ sent[1].len < 65536
        BY <4>1 DEF Lone
      <4> QED
        BY <4>2, TextFields
    <3>3. Landing = 37 + ReadBack(n)
      <4>1. Landing = 25 + 12 + ReadBack(n) /\ ReadBack(n) \in Int
        BY <2>1, <3>2, ReadBackType DEF Landing
      <4> QED
        BY <4>1
    <3>4. n % 256 \in {220, 222} /\ (Landing = 1 => n % 256 = 220)
      BY <3>1, <3>2, <3>3, LossLengths
    <3>5. n % 256 = 220 /\ n >= 3061 => n >= 3292
      <4>1. PICK h \in Nat : h = n \div 256
        OBVIOUS
      <4>2. n = 256 * h + (n % 256)
        BY <4>1, TwoBytes
      <4> QED
        BY <4>2
    <3> QED
      BY <3>1, <3>2, <3>4, <3>5 DEF OwnInv
  <2> QED
    BY <2>2, <2>3
<1> QED
  BY <1>1, Types, Lones, Owns, PTL

\* No round of the loop leaves the offset where it was or moves it back, once a single text
\* has been read or if all lengths are sound: each round brings the end nearer.
THEOREM LoopAdvances == Spec => RoundsAdvance
<1>1. TypeInv /\ SoundInv /\ LoneInv /\ OwnInv /\ [Next]_vars =>
        [outcome' = "parsing" /\ (SoundMessage \/ ((SafeText \/ OwnText) /\ shown # <<>>))
           => offset' > offset]_vars
  <2> SUFFICES ASSUME TypeInv, SoundInv, LoneInv, OwnInv, Next, outcome' = "parsing",
                      SoundMessage \/ ((SafeText \/ OwnText) /\ shown # <<>>)
               PROVE  offset' > offset
    OBVIOUS
  <2>1. OwnText => SafeText \/ Struck
    BY DEF OwnText, SafeText, Struck
  <2> QED
    BY <2>1, SoundStep, LoneStep, OwnStep
<1> QED
  BY <1>1, Types, Sounds, Lones, Owns, PTL DEF Spec, RoundsAdvance
=============================================================================
