CONSTANTS
  None = None
  Buddies = {b1, b2}
  MaxLogins = 3
  Faults = {"writeFails", "establishFails", "badReply"}
SPECIFICATION Spec
INVARIANTS
  TypeOK
  ValidOwnsConnection
  OnlyOwnedCallsBack
  IdsResolveToTheirSession
  PromptsDoNotDangle
  TornDownIsAnnounced
  StopsOfHealthySessions
  LoginAllOrNothing
CHECK_DEADLOCK FALSE
