CONSTANTS
  None = None
  Buddies = {b1}
  MaxLogins = 1
  Faults = {"badReply"}
SPECIFICATION Spec
INVARIANTS
  BadRepliesSurvived
CHECK_DEADLOCK FALSE
