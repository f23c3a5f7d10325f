---------------------------- MODULE MCSessionSend ----------------------------
(* Model-checking instance of SessionSend: two threads send up to three       *)
(* buffers each, of one and three bytes, into a queue that can overflow.      *)
EXTENDS SessionSend

Sizes == [n \in 1..MaxSend |-> IF n = 1 THEN 1 ELSE 3]
=============================================================================
