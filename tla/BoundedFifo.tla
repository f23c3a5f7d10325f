---------------------------- MODULE BoundedFifo ----------------------------
(* What a ring buffer promises: a queue of at most Limit bytes.  Every call   *)
(* leaves its outcome in out; a call with a size that does not fit fails and  *)
(* changes nothing.                                                           *)
EXTENDS Integers, Sequences

CONSTANTS Bytes, Limit
VARIABLES content, out

vars == <<content, out>>

Outcome(op, size, ok, data) == [op |-> op, size |-> size, ok |-> ok, data |-> data]

Init == content = <<>> /\ out = Outcome("new", 0, TRUE, <<>>)

Free == Limit - Len(content)
First(n) == SubSeq(content, 1, n)
From(n) == SubSeq(content, n, Len(content))
AtMost(n, max) == IF max > 0 /\ max < n THEN max ELSE n

Put(data) ==
  LET ok == data # <<>> /\ Len(data) <= Free
  IN /\ content' = IF ok THEN content \o data ELSE content
     /\ out' = Outcome("write", Len(data), ok, <<>>)

(* Bytes that arrive by themselves, into the room that was offered for them.  *)
Offer(max, data) ==
  /\ data # <<>> /\ Len(data) <= AtMost(Free, max)
  /\ content' = content \o data
  /\ out' = Outcome("offer", AtMost(Free, max), TRUE, <<>>)

(* What arrived is said to be nothing, or more than there is room for.        *)
Refuse(n) ==
  /\ n = 0 \/ n > Free
  /\ content' = content
  /\ out' = Outcome("extend", n, FALSE, <<>>)

Get(op, n, remove) ==
  LET ok == n > 0 /\ n <= Len(content)
  IN /\ content' = IF ok /\ remove THEN From(n + 1) ELSE content
     /\ out' = Outcome(op, n, ok, IF ok /\ op # "move" THEN First(n) ELSE <<>>)

View(max) ==
  /\ content' = content
  /\ out' = Outcome("view", max, TRUE, First(AtMost(Len(content), max)))

Clear == content' = <<>> /\ out' = Outcome("clear", 0, TRUE, <<>>)

Next == \/ \E n \in 0..(Limit + 1) : \/ \E data \in [1..n -> Bytes] : Put(data) \/ \E max \in 0..Limit : Offer(max, data)
                                     \/ Get("peek", n, FALSE) \/ Get("read", n, TRUE) \/ Get("move", n, TRUE)
                                     \/ View(n) \/ Refuse(n)
        \/ Clear

Spec == Init /\ [][Next]_vars
=============================================================================
