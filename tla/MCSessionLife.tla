--------------------------- MODULE MCSessionLife ---------------------------
(* SessionLife with few sessions and little time for TLC.                     *)
EXTENDS SessionLife
=============================================================================
