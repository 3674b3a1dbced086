CONSTANTS
  Strlen <- MCStrlen
  CapDir = 10
  CapHttpConnect = 23
  CapHttp = 15
  Lens = {0, 3}
  MaxRequests = 6
SPECIFICATION Spec
INVARIANTS
  SizesAreTrue
CHECK_DEADLOCK FALSE
