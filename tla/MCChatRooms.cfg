SPECIFICATION FairSpec
CONSTANTS
  Sessions = {s1, s2}
  Rooms = {a, b, c}
  RoomIds = {1, 2}
  FirstRoom = a
  FirstId = 1
  NoRoom = NoRoom
  Pipelined = FALSE
  s1 = s1
  s2 = s2
  MaxRequests <- BusyAndBrief
CHECK_DEADLOCK FALSE
INVARIANTS OneRoomAtATime RoomsSound MembersWereTold RoomMatchesMembers GhostOnlyWhileEntering
PROPERTIES RequestsAnswered
