SPECIFICATION FairSpec
CONSTANTS
  NoSession = NoSession
  Sessions = {s1, s2}
  AcceptCount = 1
  Timeout = 1
  Wrap = 100
  MaxTime = 3
INVARIANTS
  LifeSound
  CountsAgree
  OnlyLateAcceptsSurvive
PROPERTIES
  SilentBeforeCut
  ZombiesAreCut
  ClosingCompletes
CHECK_DEADLOCK FALSE
