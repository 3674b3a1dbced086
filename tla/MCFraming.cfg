CONSTANTS
  Sizes = {0, 3}
  ReadMax = 12
  MaxFrames = 3
SPECIFICATION FairSpec
INVARIANTS TypeOK FramesInOrder OnlyBehindException NothingAfterTheEnd
PROPERTY EveryFrameHandled
CHECK_DEADLOCK FALSE
