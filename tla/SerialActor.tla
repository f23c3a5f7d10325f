----------------------------- MODULE SerialActor -----------------------------
(* What a JobQueue promises to the rooms built on it (Room.h: "executed       *)
(* serialised, no lock needed"): every queue is a mailbox whose jobs run one  *)
(* at a time, completely, in the order they were posted, each of them once.   *)
EXTENDS Naturals, Sequences

CONSTANTS Queues,   \* the actors (JobQueue objects)
          Jobs      \* identities of jobs

VARIABLES mailbox,  \* mailbox[q]: jobs posted to q and not begun
          active,   \* active[q]: the jobs of q that are running
          served    \* served[q]: the jobs of q that have finished, in order

vars == <<mailbox, active, served>>

Elements(s) == {s[i] : i \in 1..Len(s)}

(* Jobs some queue already knows: a job object is posted once.                *)
Known(j) == \E q \in Queues : \/ j \in Elements(mailbox[q])
                              \/ j \in active[q]
                              \/ j \in Elements(served[q])

Init == /\ mailbox = [q \in Queues |-> <<>>]
        /\ active = [q \in Queues |-> {}]
        /\ served = [q \in Queues |-> <<>>]

Post(q, j) == /\ ~ Known(j)
              /\ mailbox' = [mailbox EXCEPT ![q] = Append(@, j)]
              /\ UNCHANGED <<active, served>>

Begin(q) == /\ active[q] = {}
            /\ mailbox[q] # <<>>
            /\ active' = [active EXCEPT ![q] = {Head(mailbox[q])}]
            /\ mailbox' = [mailbox EXCEPT ![q] = Tail(@)]
            /\ UNCHANGED served

End(q, j) == /\ active[q] = {j}
             /\ active' = [active EXCEPT ![q] = {}]
             /\ served' = [served EXCEPT ![q] = Append(@, j)]
             /\ UNCHANGED mailbox

Next == \E q \in Queues : \/ Begin(q)
                          \/ \E j \in Jobs : Post(q, j) \/ End(q, j)

Spec == Init /\ [][Next]_vars
=============================================================================
