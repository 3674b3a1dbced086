---------------------------- MODULE MCChatMessage ----------------------------
(* Messages around the lengths at which a byte of the length turns negative. *)
EXTENDS ChatMessage

\* A text of this program, and texts in other fonts and other descriptions.
Own(n, letters) == Text(12, Dialog, FontBytes, n, letters)
Plain(f, n)     == Text(f, <<65>>, FontBytes, n, <<65>>)
Foreign(f, n)   == Text(f, <<66, 300>>, [i \in 1..13 |-> 0], n, <<233, 20013>>)

MCMessages ==
  \* this program's own texts, of letters that are ASCII and that are not
  {<<Own(2 * n, <<65>>)>> : n \in 0..140 \cup {191, 192, 238, 239, 256, 300, 16384, 32749, 32750}} \cup
  {<<Own(2 * n, w)>> : n \in {64, 109, 110, 111, 112, 127, 238, 239, 1518, 1646, 1647, 1774, 2030},
                       w \in {<<127>>, <<233>>, <<65, 233>>, <<20013, 233>>, <<256, 128, 216>>}} \cup
  \* letters that are read as a length that fits, so that half of the text is read again
  {<<Own(19932, <<512, 65>>)>>, <<Own(19932, <<257, 65, 512>>)>>, <<Own(19932, <<512, 127>>)>>} \cup
  \* texts in other fonts
  {<<Plain(f, 2 * n)>> : f \in {10, 22, 30}, n \in {63, 64, 109, 110, 111, 127, 128, 130}} \cup
  {<<Foreign(f, 2 * n)>> : f \in {10, 22, 104}, n \in {63, 64, 90, 100, 109, 110, 111, 127, 128, 130}} \cup
  \* texts that move the offset back into the name of their font, or to any of the first bytes
  {<<Plain(f, 2 * n)>> : f \in {2, 4, 104, 106, 256, 380}, n \in {64, 108, 110, 112, 114, 115, 116, 117, 118, 120}} \cup
  {<<Plain(380, n)>> : n \in {65132, 65134}} \cup
  \* texts and smileys of other clients: also codes that are no smiley, stray bytes
  {<<Foreign(12, 2 * n), Smiley(c, k)>> : n \in {1, 62, 63, 64, 110}, c \in {0, 20, 21, 200}, k \in 2..3} \cup
  {<<Smiley(16, k), Plain(12, 2 * n)>> : k \in 2..3, n \in {0, 5, 63, 64, 102, 110}} \cup
  {<<Own(10, <<233>>), Smiley(16, 3), Foreign(10, 2 * n), Smiley(4, 2)>> : n \in {0, 63, 128, 190}} \cup
  {<<Plain(12, 2 * n), Foreign(10, 2 * k)>> : n, k \in {1, 63, 64, 110}} \cup
  {<<Foreign(12, 10), Stray(n)>> : n \in {2, 4, 6, 8}}
=============================================================================
