CONSTANTS
  None = None
  Buddies = {b1}
  MaxLogins = 1
  Faults = {}
SPECIFICATION Spec
INVARIANTS
  MessagesNeedValidSession
CHECK_DEADLOCK FALSE
