----------------------------- MODULE MCRecvPath -----------------------------
(* RecvPath on a small buffer for TLC.                                        *)
EXTENDS RecvPath
=============================================================================
