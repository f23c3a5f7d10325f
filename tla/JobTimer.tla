------------------------------ MODULE JobTimer ------------------------------
(* ServerEngine/Job/JobTimer.cpp: jobs reserved for a later time, and         *)
(* Distribute, which pushes the jobs that are due to their queues.  The heap  *)
(* is guarded by a SpinLock, Distribute by _distributing.  Jobs that are due  *)
(* at the same tick leave the heap in any order.  The queue of a job may be   *)
(* gone when it is due.                                                       *)
EXTENDS Integers, Sequences, FiniteSets, SpinLock

CONSTANTS Reservers, Distributors,   \* threads that call Reserve and Distribute
          Owners,                    \* job queues
          Delays,                    \* values of afterMs
          MaxReserve, MaxTick        \* bounds: jobs of a thread, time

ASSUME TimerAssumption == /\ LockThreads = Reservers \cup Distributors
                          /\ Reservers \cap Distributors = {}
                          /\ Delays \subseteq Nat
                          /\ MaxReserve \in Nat /\ MaxTick \in Nat

VARIABLES
  tick,            \* GetTickCount64
  items,           \* _items
  distributing,    \* _distributing
  alive,           \* job queues that still exist
  reserving,       \* Reserve in progress: its item
  distribution,    \* call of Distribute: where it is, its now, its expiredItems
  reserved,        \* jobs reserved so far, by thread
  taken, pushed    \* history: jobs taken from the heap; jobs pushed to each queue, in order

timerVars == <<tick, items, distributing, alive, reserving, distribution, reserved, taken, pushed>>

NoItem == [job |-> <<>>]
IdleTurn == [at |-> "idle", now |-> 0, expired |-> <<>>]
Jobs == Reservers \X (1..MaxReserve)

TimerTypeOK ==
  /\ tick \in 0..MaxTick /\ distributing \in BOOLEAN /\ alive \subseteq Owners
  /\ \A i \in items : /\ i.job \in Jobs /\ i.owner \in Owners
                      /\ i.executeTick \in Nat /\ i.after \subseteq Jobs
  /\ DOMAIN reserving = Reservers /\ DOMAIN distribution = Distributors
  /\ \A d \in Distributors : /\ distribution[d].at \in {"idle", "called", "lock", "take", "push"}
                             /\ distribution[d].now <= tick
  /\ taken \subseteq Jobs

TimerInit ==
  /\ LockInit
  /\ tick = 0 /\ items = {} /\ distributing = FALSE /\ alive = Owners
  /\ reserving = [r \in Reservers |-> NoItem]
  /\ distribution = [d \in Distributors |-> IdleTurn]
  /\ reserved = [r \in Reservers |-> 0]
  /\ taken = {} /\ pushed = [q \in Owners |-> <<>>]

(* JobQueue::DoTimer and Reserve: the time is read, then the lock is taken.   *)
Reserve(r, q, afterMs) ==
  /\ reserving[r] = NoItem /\ reserved[r] < MaxReserve /\ q \in alive
  /\ reserving' = [reserving EXCEPT ![r] = [job |-> <<r, reserved[r] + 1>>, owner |-> q,
                                            executeTick |-> tick + afterMs,
                                            after |-> {}, at |-> 0]]
  /\ reserved' = [reserved EXCEPT ![r] = @ + 1]
  /\ Lock(r)
  /\ UNCHANGED <<tick, items, distributing, alive, distribution, taken, pushed>>

(* The item is in the heap and the lock free again.                           *)
ReservePush(r) ==
  /\ lockAt[r] = "in"
  /\ items' = items \cup {[reserving[r] EXCEPT !.after = taken]}
  /\ reserving' = [reserving EXCEPT ![r] = NoItem]
  /\ Unlock(r)
  /\ UNCHANGED <<tick, distributing, alive, distribution, reserved, taken, pushed>>

(* The timer thread reads the time and calls Distribute.                      *)
CallDistribute(d) ==
  /\ distribution[d].at = "idle"
  /\ distribution' = [distribution EXCEPT ![d].at = "called", ![d].now = tick]
  /\ UNCHANGED <<tick, items, distributing, alive, reserving, reserved, taken, pushed, lockVars>>

(* Mutant: several threads may distribute at the same time.                   *)
DistributeShared(d) ==
  /\ distribution[d].at = "called"
  /\ distributing' = TRUE
  /\ distribution' = [distribution EXCEPT ![d].at = "lock"]
  /\ UNCHANGED <<tick, items, alive, reserving, reserved, taken, pushed, lockVars>>

(* Distribute returns at once when another thread distributes.                *)
Distribute(d) ==
  /\ distribution[d].at = "called"
  /\ distributing' = TRUE
  /\ distribution' = IF distributing THEN [distribution EXCEPT ![d] = IdleTurn]
                                     ELSE [distribution EXCEPT ![d].at = "lock"]
  /\ UNCHANGED <<tick, items, alive, reserving, reserved, taken, pushed, lockVars>>

DistributeLock(d) ==
  /\ distribution[d].at = "lock"
  /\ distribution' = [distribution EXCEPT ![d].at = "take"]
  /\ Lock(d)
  /\ UNCHANGED <<tick, items, distributing, alive, reserving, reserved, taken, pushed>>

(* The top of the heap, when it is due.                                       *)
Due(i, now) == i.executeTick <= now /\ \A j \in items : i.executeTick <= j.executeTick

TakeItem(d, i) ==
  /\ distribution[d].at = "take" /\ lockAt[d] = "in" /\ Due(i, distribution[d].now)
  /\ items' = items \ {i}
  /\ distribution' = [distribution EXCEPT ![d].expired = Append(@, i)]
  /\ taken' = taken \cup {i.job}
  /\ UNCHANGED <<tick, distributing, alive, reserving, reserved, pushed, lockVars>>

(* Nothing more is due.                                                       *)
TakeEnd(d) ==
  /\ distribution[d].at = "take" /\ lockAt[d] = "in"
  /\ \A i \in items : ~ Due(i, distribution[d].now)
  /\ distribution' = [distribution EXCEPT ![d].at = "push"]
  /\ Unlock(d)
  /\ UNCHANGED <<tick, items, distributing, alive, reserving, reserved, taken, pushed>>

(* A job is pushed unless its queue is gone.                                  *)
PushItem(d) ==
  LET i == Head(distribution[d].expired)
  IN /\ distribution[d].at = "push" /\ distribution[d].expired # <<>>
     /\ pushed' = IF i.owner \in alive
                    THEN [pushed EXCEPT ![i.owner] = Append(@, [i EXCEPT !.at = tick])] ELSE pushed
     /\ distribution' = [distribution EXCEPT ![d].expired = Tail(@)]
     /\ UNCHANGED <<tick, items, distributing, alive, reserving, reserved, taken, lockVars>>

(* Mutant: _distributing stays set.                                           *)
DistributeEndForgets(d) ==
  /\ distribution[d].at = "push" /\ distribution[d].expired = <<>>
  /\ distribution' = [distribution EXCEPT ![d] = IdleTurn]
  /\ UNCHANGED <<tick, items, distributing, alive, reserving, reserved, taken, pushed, lockVars>>

DistributeEnd(d) ==
  /\ distribution[d].at = "push" /\ distribution[d].expired = <<>>
  /\ distributing' = FALSE
  /\ distribution' = [distribution EXCEPT ![d] = IdleTurn]
  /\ UNCHANGED <<tick, items, alive, reserving, reserved, taken, pushed, lockVars>>

(* The waiting loop of Lock, for a thread in either function.                 *)
LockLoop(t) ==
  /\ SeesFree(t) \/ Retry(t)
  /\ UNCHANGED timerVars

(* The last reference to a job queue goes.                                    *)
OwnerGone(q) ==
  /\ q \in alive /\ alive' = alive \ {q}
  /\ UNCHANGED <<tick, items, distributing, reserving, distribution, reserved, taken, pushed, lockVars>>

TimerTick ==
  /\ tick < MaxTick /\ tick' = tick + 1
  /\ UNCHANGED <<items, distributing, alive, reserving, distribution, reserved, taken, pushed, lockVars>>

DistributorStep(d) ==
  \/ CallDistribute(d) \/ Distribute(d) \/ DistributeLock(d) \/ TakeEnd(d) \/ PushItem(d) \/ DistributeEnd(d)
  \/ \E i \in items : TakeItem(d, i)
  \/ LockLoop(d)
ReserverStep(r) == ReservePush(r) \/ LockLoop(r)

TimerNext ==
  \/ \E d \in Distributors : DistributorStep(d)
  \/ \E r \in Reservers : \/ ReserverStep(r)
                          \/ \E q \in Owners, afterMs \in Delays : Reserve(r, q, afterMs)
  \/ \E q \in Owners : OwnerGone(q)
  \/ TimerTick

-----------------------------------------------------------------------------
(* A queue gets its timed jobs in the order of their times: a job that comes  *)
(* before an earlier one was taken before the earlier one was reserved.  No   *)
(* job comes before its time or twice.                                        *)
TimedOrder ==
  /\ TimerTypeOK
  /\ \A q \in Owners : \A k \in DOMAIN pushed[q] :
       /\ pushed[q][k].executeTick <= pushed[q][k].at
       /\ \A l \in 1..(k - 1) : /\ pushed[q][l].job # pushed[q][k].job
                                /\ \/ pushed[q][l].executeTick <= pushed[q][k].executeTick
                                   \/ pushed[q][l].job \in pushed[q][k].after

(* A job in the heap reaches its queue when time goes on, unless the queue is *)
(* gone: neither _distributing nor the lock is ever left taken.               *)
TimedJobsArrive ==
  \A j \in Jobs, q \in Owners :
    (\E i \in items : i.job = j /\ i.owner = q /\ i.executeTick <= MaxTick)
      ~> (q \notin alive \/ \E k \in DOMAIN pushed[q] : pushed[q][k].job = j)
=============================================================================
