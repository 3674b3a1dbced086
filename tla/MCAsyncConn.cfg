CONSTANTS
  MaxBytes = 8
  MaxWrite = 4
SPECIFICATION FairSpec
INVARIANTS
  TypeOK
  StreamIntegrity
  PendingIsArmed
  ClosedIsQuiet
  ToldOnce
PROPERTIES
  ImplementsStream
  EveryByteLeaves
CHECK_DEADLOCK FALSE
