----------------------------- MODULE MCChatRooms -----------------------------
(* Model-checking instance of ChatRooms: one client that moves between rooms  *)
(* and one that races it for the creation of a room.                          *)
EXTENDS ChatRooms

CONSTANTS s1, s2

BusyAndBrief == [s \in Sessions |-> IF s = s1 THEN 3 ELSE 1]
=============================================================================
