CONSTANTS
  None = None
  Buddies = {b1}
  MaxLogins = 2
  Faults = {"writeFails", "establishFails"}
SPECIFICATION FairSpec
INVARIANTS
  ConnectedIsKeptAlive
PROPERTIES
  TornDownIsClosed
  LoginResolves
  StaleTimersExpire
CHECK_DEADLOCK FALSE
