SPECIFICATION Spec
CONSTANTS
  NoSession = NoSession
  Sessions = {s1}
  AcceptCount = 1
  Timeout = 1
  Wrap = 100
  MaxTime = 3
PROPERTIES
  FreshSessionSpared
CHECK_DEADLOCK FALSE
