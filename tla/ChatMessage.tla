----------------------------- MODULE ChatMessage -----------------------------
(***************************************************************************)
(* How a chat message is put into bytes (sendMessage, and the same segments *)
(* as other clients write them) and taken apart again: _parseChatMessage,   *)
(* with MessageBuffer, bytesToLEInt and the conversion of encode.           *)
(*                                                                          *)
(* A message is a sequence of segments: texts in UTF-16 behind a font,      *)
(* smileys, and bytes that are neither.  Every byte is there, for the       *)
(* offset may move back and read letters as lengths.  Every step is one     *)
(* round of the parser's loop.                                              *)
(***************************************************************************)
EXTENDS Integers, Sequences, SequencesExt

CONSTANTS
  Messages,    \* the messages that may arrive: sequences of segments
  MaxPieces    \* bound: pieces of one displayed message

\* A text of len bytes, made by repeating `letters', in a font whose name is font bytes
\* long, made by repeating `name', and which is described by the 13 bytes of style.
Text(font, name, style, len, letters) ==
  [kind |-> "text", font |-> font, name |-> name, style |-> style, len |-> len, letters |-> letters]

Smiley(code, len) == [kind |-> "smiley", code |-> code, len |-> len]
Stray(len)        == [kind |-> "stray", len |-> len]

\* UTF-16 takes an even number of bytes.
Evens == {n \in Nat : n % 2 = 0}

\* Letters of one short, which leaves out surrogates: the parser cannot tell them apart
\* where a text was written, and elsewhere any two bytes may look like one.
Alphabet == {n \in Nat : 0 < n /\ n < 65536 /\ (n < 55296 \/ n > 57343)}
Patterns == Seq(Alphabet) \ {<<>>}

Segments == [kind : {"text"}, font : Evens, name : Patterns, style : [1..13 -> 0..255],
             len : Evens, letters : Patterns] \cup
            [kind : {"smiley"}, code : Nat, len : Nat] \cup
            [kind : {"stray"}, len : Nat \ {0}]

ASSUME MessagesAssumption == Messages \subseteq Seq(Segments) \ {<<>>} /\ MaxPieces \in Nat

VARIABLES
  sent,      \* the message, as its sender meant it
  buf,       \* MessageBuffer::str: its bytes
  offset,    \* MessageBuffer::offset
  shown,     \* final_message: the pieces so far
  outcome    \* "parsing", "shown", "dropped" (exception) or "aborted"

vars == <<sent, buf, offset, shown, outcome>>

-----------------------------------------------------------------------------
(***************************************************************************)
(* The bytes of a segment.                                                 *)
(***************************************************************************)
\* Fault: the upper byte of a short is not written.
LowByteOnly(n) == <<0, n % 256>>

IntToSWord(n) == <<(n \div 256) % 256, n % 256>>

\* Fault: the upper short is not written.
ShortWord(n) == IntToSWord(n)

\* A length or a tag: a short 0 and a short.
Word(n) == <<0, 0>> \o IntToSWord(n)

\* fonttype and fontBytes: a font of this program, in the 13 bytes that describe it.
Dialog    == <<68, 105, 97, 108, 111, 103>>
FontBytes == <<0, 120, 255, 255, 5, 1, 0, 50, 0, 73, 51, 51, 51>>

\* n bytes of UTF-16BE: the letters of a pattern, again and again.
Letters(n, pattern) ==
  [i \in 1..n |-> LET letter == pattern[(((i - 1) \div 2) % Len(pattern)) + 1]
                  IN  IF i % 2 = 1 THEN letter \div 256 ELSE letter % 256]

Bytes(seg) ==
  CASE seg.kind = "text"   -> Word(0) \o Word(seg.font) \o Letters(seg.font, seg.name)
                              \o seg.style \o Word(seg.len) \o Letters(seg.len, seg.letters)
    [] seg.kind = "smiley" -> Word(1) \o Word(seg.code) \o Word(seg.len)
                              \o [i \in 1..seg.len |-> 58]
    [] seg.kind = "stray"  -> Letters(seg.len, <<65>>)

\* A text comes with 25 bytes and its font, a smiley with 12 bytes.
SegmentSize(seg) ==
  CASE seg.kind = "text"   -> 25 + seg.font + seg.len
    [] seg.kind = "smiley" -> 12 + seg.len
    [] seg.kind = "stray"  -> seg.len

\* Where each segment of a message ends.
Ends(msg) ==
  LET ends[k \in 0..Len(msg)] == IF k = 0 THEN 0 ELSE ends[k - 1] + SegmentSize(msg[k])
  IN  ends

Size(msg) == Ends(msg)[Len(msg)]

-----------------------------------------------------------------------------
(***************************************************************************)
(* MessageBuffer.  A read is "ok", or throws: MessageBufferOverflowException *)
(* is caught by readCallback and the message is "dropped"; out_of_range     *)
(* (substr at an offset that has become negative) is not.                   *)
(***************************************************************************)

\* What the second reads when the first did not throw.
a && b == IF a = "ok" THEN b ELSE a

\* A char is signed.
Char(b) == IF b < 128 THEN b ELSE b - 256

\* Fault: the bytes are joined the other way round.
LittleEndian(a, b, c, d) == Char(a) + b * 256 + c * 65536 + Char(d) * 16777216

\* bytesToLEInt: the bytes are joined with |, so that a byte from 128 on sets
\* every bit above it.
BytesToLEInt(a, b, c, d) ==
  CASE d >= 128                       -> Char(d)
    [] d < 128 /\ c >= 128            -> Char(c) * 256 + d
    [] d < 128 /\ c < 128 /\ b >= 128 -> Char(b) * 65536 + c * 256 + d
    [] OTHER                          -> Char(a) * 16777216 + b * 65536 + c * 256 + d

Left(o) == Len(buf) - o

\* isEnd: the offset is compared as a size_t.
IsEnd(o) == o < 0 \/ o >= Len(buf)

\* readLEInt: four times readByte.
Byte(o)      == IF o \in 0..Len(buf) - 1 THEN buf[o + 1] ELSE 0
LEInt(o)     == BytesToLEInt(Byte(o), Byte(o + 1), Byte(o + 2), Byte(o + 3))
ReadLEInt(o) == IF o >= 0 /\ Left(o) >= 4 THEN "ok" ELSE "dropped"

\* Fault: a negative length is refused.
ReadPositive(o, n) == IF n < 0 \/ Left(o) < n THEN "dropped" ELSE "ok"

\* readStringn(n), which moves the offset by n: all that is left when n is negative.
ReadStringn(o, n) ==
  CASE n = 0                 -> "ok"
    [] n # 0 /\ Left(o) < n  -> "dropped"
    [] n # 0 /\ Left(o) >= n -> IF o < 0 THEN "aborted" ELSE "ok"

StringLen(o, n) == IF n < 0 THEN Left(o) ELSE n

\* The first of two surrogates comes before the second, in the n bytes at o.
Paired(o, n) ==
  LET unit(i) == Byte(o + 2 * i)
      units   == 0..(n \div 2) - 1
  IN  \A i \in units :
        /\ unit(i) \in 216..219 => i + 1 \in units /\ unit(i + 1) \in 220..223
        /\ unit(i) \in 220..223 => i - 1 \in units /\ unit(i - 1) \in 216..219

\* encode from UTF-16BE asserts that iconv takes all of the n bytes.
Encode(o, n) == IF n % 2 = 0 /\ Paired(o, n) THEN "ok" ELSE "aborted"

-----------------------------------------------------------------------------
Init ==
  /\ sent \in Messages
  /\ buf = FlattenSeq([k \in DOMAIN sent |-> Bytes(sent[k])])
  /\ offset = 0 /\ shown = <<>>
  /\ outcome = "parsing"

\* One round of the loop that reads up to `end' and appends `pieces'.
Round(verdict, pieces, end) ==
  /\ offset' = end
  /\ IF verdict = "ok"
     THEN shown' = shown \o pieces /\ outcome' = IF IsEnd(end) THEN "shown" ELSE "parsing"
     ELSE outcome' = verdict /\ UNCHANGED shown
  /\ UNCHANGED <<sent, buf>>

\* The tag of the next segment has been read; o is the offset behind it.
AtTag(o, tag) ==
  /\ outcome = "parsing" /\ Len(shown) < MaxPieces
  /\ o = offset + 4
  /\ ReadLEInt(offset) = "ok" /\ LEInt(offset) = tag

ParseText(o) ==
  LET font == LEInt(o)
      info == o + 4 + font
      len  == LEInt(info + 13)
      text == info + 17
  IN  /\ AtTag(o, 0)
      /\ Round(ReadLEInt(o) && ReadStringn(o + 4, font) && ReadStringn(info, 13)
               && ReadLEInt(info + 13) && ReadStringn(text, len)
               && Encode(text, StringLen(text, len)) && Encode(o + 4, StringLen(o + 4, font)),
               <<[kind |-> "text", at |-> text, len |-> StringLen(text, len)]>>,
               text + len)

\* A code that is no smiley adds nothing; a negative one reads what is before the
\* table, which may be anything.
ParseSmiley(o) ==
  LET code == LEInt(o)
      len  == LEInt(o + 4)
      read == ReadLEInt(o) && ReadLEInt(o + 4) && ReadStringn(o + 8, len)
  IN  /\ AtTag(o, 1)
      /\ \/ code >= 0 /\ Round(read, IF code < 21 THEN <<[kind |-> "smiley", code |-> code]>>
                                                  ELSE <<>>, o + 8 + len)
         \/ code < 0 /\ Round(read && "aborted", <<>>, o + 8 + len)
         \/ code < 0 /\ Round(read, <<[kind |-> "wild"]>>, o + 8 + len)

\* Fault: the loop goes on without having read anything.
SkipNothing(o) ==
  \E tag \in {LEInt(offset)} \ {0, 1} : AtTag(o, tag) /\ Round("ok", <<>>, offset)

\* Fault: the message is read from its start again, as by buffer.reset().
StartOver(o) ==
  \E tag \in {LEInt(offset)} \ {0, 1} : AtTag(o, tag) /\ Round("ok", <<>>, 0)

\* An unknown tag is skipped, and nothing else.
SkipUnknown(o) ==
  \E tag \in {LEInt(offset)} \ {0, 1} : AtTag(o, tag) /\ Round("ok", <<>>, o)

\* Fewer than four bytes are left for a tag.
CutShort ==
  /\ outcome = "parsing"
  /\ ReadLEInt(offset) # "ok"
  /\ outcome' = "dropped"
  /\ UNCHANGED <<sent, buf, offset, shown>>

Next ==
  \/ ParseText(offset + 4) \/ ParseSmiley(offset + 4) \/ SkipUnknown(offset + 4)
  \/ CutShort

Spec == Init /\ [][Next]_vars

\* The loop is not interrupted.
FairSpec == Spec /\ WF_vars(Next)
-----------------------------------------------------------------------------
Pieces == [kind : {"text"}, at : Int, len : Nat] \cup [kind : {"smiley"}, code : 0..20]
          \cup [kind : {"wild"}]

\* The variables keep their types, and the bytes written for a message are as
\* many as the sizes sendMessage announces for it.
TypeOK ==
  /\ sent \in Messages
  /\ Len(buf) = Size(sent) /\ \A i \in DOMAIN buf : buf[i] \in 0..255
  /\ offset \in Int
  /\ shown \in Seq(Pieces)
  /\ outcome \in {"parsing", "shown", "dropped", "aborted"}

\* What the k-th segment of a message should look like, where it stands for anything:
\* neither stray bytes nor a code that is no smiley do.
Piece(msg, k) ==
  IF msg[k].kind = "text"
  THEN [kind |-> "text", at |-> Ends(msg)[k] - msg[k].len, len |-> msg[k].len]
  ELSE [kind |-> "smiley", code |-> msg[k].code]

Stands(seg) == seg.kind = "text" \/ (seg.kind = "smiley" /\ seg.code < 21)

\* What the first k segments of a message should look like.
MeantBy(msg) ==
  LET pieces[k \in 0..Len(msg)] ==
        IF k = 0 THEN <<>>
        ELSE IF Stands(msg[k]) THEN Append(pieces[k - 1], Piece(msg, k)) ELSE pieces[k - 1]
  IN  pieces

Meant == MeantBy(sent)[Len(sent)]

\* A length or code of which no byte is read as a negative number.
Sound(n) == n % 256 < 128 /\ n < 32768

SoundSegment(seg) ==
  CASE seg.kind = "text"   -> Sound(seg.len) /\ Sound(seg.font)
    [] seg.kind = "smiley" -> Sound(seg.len) /\ Sound(seg.code)
    [] seg.kind = "stray"  -> seg.len % 4 = 0

SoundMessage == \A k \in DOMAIN sent : SoundSegment(sent[k])

\* What is read where the length n was written.
ReadBack(n) ==
  LET w == Word(n) IN BytesToLEInt(w[1], w[2], w[3], w[4])

\* A message of one text whose length fits the short it is written in, in a font with a
\* name of which the length is sound; and where the offset is once it has been read.
LoneText ==
  /\ Len(sent) = 1 /\ sent[1].kind = "text" /\ sent[1].len < 65536
  /\ Sound(sent[1].font) /\ sent[1].font > 0
Landing == 25 + sent[1].font + ReadBack(sent[1].len)

\* Behind or before the message isEnd ends the loop.  In it, the description of a font
\* may be anything, and read as tags and lengths.
SafeText ==
  LoneText /\ (IsEnd(Landing) \/ (sent[1].style = FontBytes /\ Landing \notin {1, 3}))

\* A single text as this program writes it.
OwnText ==
  LoneText /\ sent[1].font = 12 /\ sent[1].name = Dialog /\ sent[1].style = FontBytes

\* A message whose lengths are all sound is never dropped and never aborts the
\* program, and _parseChatMessage shows exactly the segments that were written.
SoundArrives ==
  SoundMessage => /\ outcome \notin {"dropped", "aborted"}
                  /\ outcome = "shown" => shown = Meant

\* A single text, whatever its letters, arrives although its length may be read as a
\* negative number: readStringn then takes all that is left, and moves the offset back by
\* 256 or 65536.  Before the message isEnd ends the loop; where this program's description
\* of a font is read again, no other tag is found, unless from the second or fourth byte on.
LoneArrives ==
  SafeText => /\ outcome \notin {"dropped", "aborted"}
              /\ outcome = "shown" => shown = Meant

\* A single text of this program is shown as it was written, if it is shown.  It is lost
\* only when the offset moves back to the second or fourth byte of the message: with 110
\* or 111 letters, or 128 more, and so on.  And it aborts the program of its reader only
\* with 1646 letters, or 128 more, and so on, of which one is not ASCII: letters are then
\* read as a negative length, and encode is given half a letter.
OwnTextArrives ==
  OwnText =>
    /\ outcome = "shown" => shown = Meant
    /\ outcome = "dropped" => sent[1].len % 256 \in {220, 222}
    /\ outcome = "aborted" =>
         /\ sent[1].len % 256 = 220 /\ sent[1].len >= 3292
         /\ \E i \in DOMAIN sent[1].letters : sent[1].letters[i] >= 128

\* Every round after which the loop goes on has moved forward: in a sound message always,
\* in a single text once its text has been read, whose length may move the offset back.
RoundsAdvance ==
  [][outcome' = "parsing" /\ (SoundMessage \/ ((SafeText \/ OwnText) /\ shown # <<>>))
       => offset' > offset]_vars

\* The loop of _parseChatMessage ends for every sound message and for every single
\* text of this program, although the offset of the latter may move backwards.
ParsingEnds ==
  SoundMessage \/ SafeText \/ OwnText => <>(outcome # "parsing")
=============================================================================
