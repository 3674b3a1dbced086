CONSTANTS
  Messages <- MCMessages
  MaxPieces = 8
SPECIFICATION FairSpec
INVARIANTS TypeOK SoundArrives LoneArrives OwnTextArrives
PROPERTY ParsingEnds RoundsAdvance
CHECK_DEADLOCK FALSE
