CONSTANTS
  None = None
  Buddies = {b1}
  MaxLogins = 1
  Faults = {}
SPECIFICATION FairSpec
PROPERTIES
  GkCloseFallsBack
CHECK_DEADLOCK FALSE
