----------------------------- MODULE MCJobSystem -----------------------------
(* Model-checking instance of JobSystem: two workers and the timer thread.    *)
EXTENDS JobSystem
=============================================================================
