CONSTANTS
  None = None
  Buddies = {b1}
  MaxLogins = 1
  Faults = {"establishFails"}
SPECIFICATION Spec
INVARIANTS
  LoginErrorsSurvived
CHECK_DEADLOCK FALSE
