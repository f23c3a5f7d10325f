----------------------------- MODULE EngineProofs -----------------------------
(* Proofs about the units of the engine that do not interact: the spin lock   *)
(* and the job timer that uses it, the token bucket, the thread pool, the     *)
(* ring buffer, the memory pools.  For any numbers of threads, jobs, queues,  *)
(* tasks and blocks, any sizes and any capacity.                              *)
EXTENDS MemoryPools, JobTimer, ThreadPool, TokenBucket, RingBuffer,
        RingFacts, FiniteSetTheorems, SequenceTheorems, TLAPS

TimerSpec == TimerInit /\ [][TimerNext]_<<timerVars, lockVars>>
BucketSpec == BucketInit /\ [][BucketNext]_bucketVars
PoolSpec == PoolInit /\ [][PoolNext]_poolVars
MemSpec == MemInit /\ [][MemNext]_memVars
-----------------------------------------------------------------------------
(* The timer.                                                                 *)
Item == [job : Jobs, owner : Owners, executeTick : Nat, after : SUBSET Jobs, at : Nat]

Turn == [at : {"idle", "called", "lock", "take", "push"}, now : Nat, expired : Seq(Item)]

TimerTypes ==
  /\ tick \in 0..MaxTick /\ distributing \in BOOLEAN /\ alive \subseteq Owners
  /\ items \subseteq Item /\ taken \subseteq Jobs
  /\ reserving \in [Reservers -> Item \cup {NoItem}]
  /\ distribution \in [Distributors -> Turn]
  /\ reserved \in [Reservers -> 0..MaxReserve]
  /\ pushed \in [Owners -> Seq(Item)]

(* Where a thread is in Reserve or Distribute, and where it is in Lock.       *)
Busy(d) == distribution[d].at \in {"lock", "take", "push"}

TimerPlaces ==
  /\ OneOwner
  /\ \A r \in Reservers : /\ reserving[r] = NoItem <=> lockAt[r] = "out"
                          /\ reserving[r] # NoItem => reserving[r].job = <<r, reserved[r]>>
  /\ \A d \in Distributors :
       /\ lockAt[d] # "out" <=> distribution[d].at = "take"
       /\ distribution[d].at \notin {"take", "push"} => distribution[d].expired = <<>>
       /\ distribution[d].now <= tick
  /\ \A d, e \in Distributors : Busy(d) /\ Busy(e) => d = e
  /\ distributing <=> \E d \in Distributors : Busy(d)

(* The jobs whose Reserve has returned: they are in the heap once, or taken.  *)
ReservedJobs == {j \in Jobs : /\ j[2] <= reserved[j[1]]
                              /\ reserving[j[1]] # NoItem => j[2] # reserved[j[1]]}

HeapPart ==
  /\ taken \subseteq ReservedJobs
  /\ \A i \in items : i.job \in ReservedJobs /\ i.job \notin taken
  /\ \A i, j \in items : i.job = j.job => i = j

(* Item y may come after item x.                                              *)
Before(x, y) == /\ x.job # y.job
                /\ x.executeTick <= y.executeTick \/ x.job \in y.after

(* What was pushed comes before what a Distribute has taken, and that before  *)
(* what is in the heap.                                                       *)
OrderPart ==
  /\ \A q \in Owners : \A k \in 1..Len(pushed[q]) :
       /\ pushed[q][k].job \in taken /\ pushed[q][k].executeTick <= pushed[q][k].at
       /\ \A l \in 1..(k - 1) : Before(pushed[q][l], pushed[q][k])
       /\ \A i \in items : Before(pushed[q][k], i)
       /\ \A d \in Distributors : \A l \in 1..Len(distribution[d].expired) :
            Before(pushed[q][k], distribution[d].expired[l])
  /\ \A d \in Distributors : \A k \in 1..Len(distribution[d].expired) :
       /\ distribution[d].expired[k].job \in taken
       /\ distribution[d].expired[k].executeTick <= distribution[d].now
       /\ \A l \in 1..(k - 1) : Before(distribution[d].expired[l], distribution[d].expired[k])
       /\ \A i \in items : Before(distribution[d].expired[k], i)

TimerInv == TimerTypes /\ TimerPlaces /\ HeapPart /\ OrderPart

(* The lock: only a thread that is past Lock unlocks, and only one gets past. *)
LEMMA LockKeeps ==
  ASSUME OneOwner, NEW t \in LockThreads, Lock(t) \/ SeesFree(t) \/ Retry(t) \/ Unlock(t)
  PROVE  OneOwner'
<1>1. LockTypeOK'
  BY DEF OneOwner, LockTypeOK, Lock, SeesFree, Retry, Unlock, Exchange
<1>2. \A s \in LockThreads : s # t => lockAt'[s] = lockAt[s]
  BY DEF OneOwner, LockTypeOK, Lock, SeesFree, Retry, Unlock, Exchange
<1>3. CASE Lock(t) \/ Retry(t)
  <2>1. locked' = TRUE /\ lockAt[t] # "in" /\ lockAt'[t] = IF locked THEN "wait" ELSE "in"
    BY <1>3 DEF OneOwner, LockTypeOK, Lock, Retry, Exchange
  <2>2. CASE locked
    BY <1>1, <1>2, <2>1, <2>2 DEF OneOwner
  <2>3. CASE ~ locked
    BY <1>1, <1>2, <2>1, <2>3 DEF OneOwner
  <2> QED  BY <2>2, <2>3
<1>4. CASE SeesFree(t)
  <2>1. locked' = locked /\ lockAt[t] = "wait" /\ lockAt'[t] = "retry"
    BY <1>4 DEF OneOwner, LockTypeOK, SeesFree
  <2> QED  BY <1>1, <1>2, <2>1 DEF OneOwner
<1>5. CASE Unlock(t)
  <2>1. locked' = FALSE /\ lockAt[t] = "in" /\ lockAt'[t] = "out"
    BY <1>5 DEF OneOwner, LockTypeOK, Unlock
  <2> QED  BY <1>1, <1>2, <2>1 DEF OneOwner
<1> QED  BY <1>3, <1>4, <1>5

(* What the steps of Distribute do to the turn of their thread.               *)
LEMMA TurnSteps ==
  ASSUME TimerInv, NEW d \in Distributors
  PROVE  /\ distribution[d] \in Turn
         /\ CallDistribute(d) =>
              distribution' = [distribution EXCEPT ![d] = [@ EXCEPT !.at = "called", !.now = tick]]
         /\ DistributeLock(d) => distribution' = [distribution EXCEPT ![d] = [@ EXCEPT !.at = "take"]]
         /\ TakeEnd(d) => distribution' = [distribution EXCEPT ![d] = [@ EXCEPT !.at = "push"]]
<1>1. distribution \in [Distributors -> Turn]
  BY DEF TimerInv, TimerTypes
<1> QED  BY <1>1 DEF CallDistribute, DistributeLock, TakeEnd, Turn

LEMMA TimerTypesKept == TimerInv /\ TimerNext => TimerTypes'
<1> SUFFICES ASSUME TimerInv, TimerNext PROVE TimerTypes'
  OBVIOUS
<1>0. /\ tick \in 0..MaxTick /\ distributing \in BOOLEAN /\ alive \subseteq Owners
      /\ items \subseteq Item /\ taken \subseteq Jobs
      /\ reserving \in [Reservers -> Item \cup {NoItem}]
      /\ distribution \in [Distributors -> Turn]
      /\ reserved \in [Reservers -> 0..MaxReserve]
      /\ pushed \in [Owners -> Seq(Item)]
      /\ MaxTick \in Nat /\ MaxReserve \in Nat /\ Delays \subseteq Nat
  BY TimerAssumption DEF TimerInv, TimerTypes
<1>1. ASSUME NEW r \in Reservers, NEW q \in Owners, NEW ms \in Delays, Reserve(r, q, ms)
      PROVE  TimerTypes'
  <2>1. PICK n : n = reserved[r] + 1
    OBVIOUS
  <2>2. n \in 1..MaxReserve
    BY <1>0, <1>1, <2>1 DEF Reserve
  <2>3. tick + ms \in Nat
    BY <1>0
  <2>4. [job |-> <<r, n>>, owner |-> q, executeTick |-> tick + ms, after |-> {}, at |-> 0] \in Item
    BY <2>2, <2>3 DEF Item, Jobs
  <2>5. reserving' \in [Reservers -> Item \cup {NoItem}]
    BY <1>0, <1>1, <2>1, <2>4 DEF Reserve
  <2>6. reserved' \in [Reservers -> 0..MaxReserve]
    BY <1>0, <1>1, <2>1, <2>2 DEF Reserve
  <2> QED  BY <1>0, <1>1, <2>5, <2>6 DEF TimerTypes, Reserve
<1>2. ASSUME NEW r \in Reservers, ReservePush(r) PROVE TimerTypes'
  <2>1. reserving[r] \in Item
    BY <1>0, <1>2 DEF ReservePush, TimerInv, TimerPlaces
  <2>2. [reserving[r] EXCEPT !.after = taken] \in Item
    BY <1>0, <2>1 DEF Item
  <2> QED  BY <1>0, <1>2, <2>2 DEF TimerTypes, ReservePush
<1>3. IdleTurn \in Turn
  BY DEF IdleTurn, Turn
<1>4. ASSUME NEW d \in Distributors, CallDistribute(d) \/ DistributeLock(d) \/ TakeEnd(d)
      PROVE  TimerTypes'
  <2>1. distribution' \in [Distributors -> Turn]
    <3>1. tick \in Nat /\ distribution[d] \in Turn
      BY <1>0
    <3>2. \A s \in {"called", "take", "push"} : [distribution[d] EXCEPT !.at = s] \in Turn
      BY <3>1 DEF Turn
    <3>3. [distribution[d] EXCEPT !.at = "called", !.now = tick] \in Turn
      BY <3>1 DEF Turn
    <3>4. \E u \in Turn : distribution' = [distribution EXCEPT ![d] = u]
      BY <1>4, <3>2, <3>3, TurnSteps
    <3> QED  BY <1>0, <3>4
  <2> QED  BY <1>0, <1>4, <2>1 DEF TimerTypes, CallDistribute, DistributeLock, TakeEnd
<1>5. ASSUME NEW d \in Distributors, Distribute(d) PROVE TimerTypes'
  <2>1. distribution' \in [Distributors -> Turn]
    <3>1. CASE distributing
      BY <1>0, <1>3, <1>5, <3>1 DEF Distribute
    <3>2. CASE ~ distributing
      BY <1>0, <1>5, <3>2 DEF Distribute, Turn
    <3> QED  BY <3>1, <3>2
  <2> QED  BY <1>0, <1>5, <2>1 DEF TimerTypes, Distribute
<1>6. ASSUME NEW d \in Distributors, NEW i \in items, TakeItem(d, i) PROVE TimerTypes'
  <2>1. distribution' \in [Distributors -> Turn]
    <3>1. i \in Item /\ distribution[d].expired \in Seq(Item)
      BY <1>0 DEF Turn
    <3>2. Append(distribution[d].expired, i) \in Seq(Item)
      BY <3>1, AppendProperties
    <3>3. distribution' = [distribution EXCEPT ![d] =
                             [@ EXCEPT !.expired = Append(distribution[d].expired, i)]]
      BY <1>6 DEF TakeItem
    <3> QED  BY <1>0, <3>2, <3>3 DEF Turn
  <2>2. i.job \in Jobs
    BY <1>0 DEF Item
  <2> QED  BY <1>0, <1>6, <2>1, <2>2 DEF TimerTypes, TakeItem
<1>7. ASSUME NEW d \in Distributors, PushItem(d) PROVE TimerTypes'
  <2>1. PICK i : i = Head(distribution[d].expired)
    OBVIOUS
  <2>2. distribution[d].expired \in Seq(Item) /\ distribution[d].expired # <<>>
    BY <1>0, <1>7 DEF PushItem, Turn
  <2>3. i \in Item /\ Tail(distribution[d].expired) \in Seq(Item)
    BY <2>1, <2>2, HeadTailProperties
  <2>4. [i EXCEPT !.at = tick] \in Item
    <3>1. tick \in Nat
      BY <1>0
    <3> QED  BY <2>3, <3>1 DEF Item
  <2>5. distribution' \in [Distributors -> Turn]
    BY <1>0, <1>7, <2>3 DEF PushItem, Turn
  <2>6. pushed' \in [Owners -> Seq(Item)]
    BY <1>0, <1>7, <2>1, <2>4 DEF PushItem
  <2> QED  BY <1>0, <1>7, <2>5, <2>6 DEF TimerTypes, PushItem
<1>8. ASSUME NEW d \in Distributors, DistributeEnd(d) PROVE TimerTypes'
  BY <1>0, <1>3, <1>8 DEF TimerTypes, DistributeEnd
<1>9. ASSUME NEW t, LockLoop(t) PROVE TimerTypes'
  BY <1>0, <1>9 DEF TimerTypes, LockLoop, timerVars
<1>10. ASSUME NEW q \in Owners, OwnerGone(q) PROVE TimerTypes'
  BY <1>0, <1>10 DEF TimerTypes, OwnerGone
<1>11. CASE TimerTick
  BY <1>0, <1>11 DEF TimerTypes, TimerTick
<1> QED
  BY <1>1, <1>2, <1>4, <1>5, <1>6, <1>7, <1>8, <1>9, <1>10, <1>11
     DEF TimerNext, DistributorStep, ReserverStep

(* The fields of the turns after each step of Distribute.                     *)
Sets(d, at, now, expired) ==
  /\ distribution'[d].at = at /\ distribution'[d].now = now /\ distribution'[d].expired = expired
  /\ \A e \in Distributors : e # d => distribution'[e] = distribution[e]

LEMMA TurnFields ==
  ASSUME TimerInv, NEW d \in Distributors
  PROVE  /\ CallDistribute(d) => Sets(d, "called", tick, distribution[d].expired)
         /\ Distribute(d) => IF distributing THEN Sets(d, "idle", 0, <<>>)
                             ELSE Sets(d, "lock", distribution[d].now, distribution[d].expired)
         /\ DistributeLock(d) => Sets(d, "take", distribution[d].now, distribution[d].expired)
         /\ \A i \in items : TakeItem(d, i) =>
              Sets(d, "take", distribution[d].now, Append(distribution[d].expired, i))
         /\ TakeEnd(d) => Sets(d, "push", distribution[d].now, distribution[d].expired)
         /\ PushItem(d) => Sets(d, "push", distribution[d].now, Tail(distribution[d].expired))
         /\ DistributeEnd(d) => Sets(d, "idle", 0, <<>>)
<1>1. distribution \in [Distributors -> Turn]
  BY DEF TimerInv, TimerTypes
<1>2. CallDistribute(d) => Sets(d, "called", tick, distribution[d].expired)
  BY <1>1 DEF CallDistribute, Turn, Sets
<1>3. ASSUME Distribute(d)
      PROVE  IF distributing THEN Sets(d, "idle", 0, <<>>)
                             ELSE Sets(d, "lock", distribution[d].now, distribution[d].expired)
  <2>1. CASE distributing
    BY <1>1, <1>3, <2>1 DEF Distribute, IdleTurn, Sets
  <2>2. CASE ~ distributing
    BY <1>1, <1>3, <2>2 DEF Distribute, Turn, Sets
  <2> QED  BY <2>1, <2>2
<1>4. DistributeLock(d) => Sets(d, "take", distribution[d].now, distribution[d].expired)
  BY <1>1 DEF DistributeLock, Turn, Sets
<1>5. ASSUME NEW i \in items, TakeItem(d, i)
      PROVE  Sets(d, "take", distribution[d].now, Append(distribution[d].expired, i))
  BY <1>1, <1>5 DEF TakeItem, Turn, Sets
<1>6. TakeEnd(d) => Sets(d, "push", distribution[d].now, distribution[d].expired)
  BY <1>1 DEF TakeEnd, Turn, Sets
<1>7. PushItem(d) => Sets(d, "push", distribution[d].now, Tail(distribution[d].expired))
  BY <1>1 DEF PushItem, Turn, Sets
<1>8. DistributeEnd(d) => Sets(d, "idle", 0, <<>>)
  BY <1>1 DEF DistributeEnd, IdleTurn, Sets
<1> QED  BY <1>2, <1>3, <1>4, <1>5, <1>6, <1>7, <1>8

(* The places of the reservers, of the distributors, and _distributing.       *)
ReserverPlaces ==
  \A r \in Reservers : /\ reserving[r] = NoItem <=> lockAt[r] = "out"
                       /\ reserving[r] # NoItem => reserving[r].job = <<r, reserved[r]>>
TurnPlace(d) ==
  /\ lockAt[d] # "out" <=> distribution[d].at = "take"
  /\ distribution[d].at \notin {"take", "push"} => distribution[d].expired = <<>>
  /\ distribution[d].now <= tick
OneBusy == /\ \A d, e \in Distributors : Busy(d) /\ Busy(e) => d = e
           /\ distributing <=> \E d \in Distributors : Busy(d)

LEMMA TimerPlacesKept == TimerInv /\ TimerNext => TimerPlaces'
<1> SUFFICES ASSUME TimerInv, TimerNext PROVE TimerPlaces'
  OBVIOUS
<1>0. /\ OneOwner /\ ReserverPlaces /\ OneBusy /\ \A d \in Distributors : TurnPlace(d)
      /\ distribution \in [Distributors -> Turn] /\ tick \in Nat /\ distributing \in BOOLEAN
      /\ reserving \in [Reservers -> Item \cup {NoItem}]
      /\ reserved \in [Reservers -> 0..MaxReserve] /\ MaxReserve \in Nat
      /\ lockAt \in [LockThreads -> {"out", "wait", "retry", "in"}]
      /\ LockThreads = Reservers \cup Distributors /\ Reservers \cap Distributors = {}
  BY TimerAssumption DEF TimerInv, TimerTypes, TimerPlaces, ReserverPlaces, OneBusy, TurnPlace,
                         OneOwner, LockTypeOK
<1>1. /\ OneOwner' /\ ReserverPlaces' /\ OneBusy' /\ (\A d \in Distributors : TurnPlace(d)')
         => TimerPlaces'
  BY DEF TimerPlaces, ReserverPlaces, OneBusy, TurnPlace
<1>2. ASSUME NEW t \in LockThreads, Lock(t) \/ SeesFree(t) \/ Retry(t) \/ Unlock(t)
      PROVE  /\ OneOwner'
             /\ \A s \in LockThreads : s # t => lockAt'[s] = lockAt[s]
             /\ Lock(t) => lockAt[t] = "out" /\ lockAt'[t] # "out"
             /\ SeesFree(t) \/ Retry(t) => lockAt[t] # "out" /\ lockAt'[t] # "out"
             /\ Unlock(t) => lockAt[t] = "in" /\ lockAt'[t] = "out"
  <2>1. OneOwner'
    BY <1>0, <1>2, LockKeeps
  <2> QED  BY <1>0, <1>2, <2>1 DEF Lock, SeesFree, Retry, Unlock, Exchange
<1>3. ASSUME NEW r \in Reservers, NEW q \in Owners, NEW ms \in Delays, Reserve(r, q, ms)
      PROVE  TimerPlaces'
  <2>1. /\ OneOwner' /\ lockAt'[r] # "out"
        /\ \A s \in LockThreads : s # r => lockAt'[s] = lockAt[s]
    BY <1>0, <1>2, <1>3 DEF Reserve
  <2>2. PICK i : i = [job |-> <<r, reserved[r] + 1>>, owner |-> q, executeTick |-> tick + ms,
                      after |-> {}, at |-> 0]
    OBVIOUS
  <2>3. i.job = <<r, reserved[r] + 1>> /\ i # NoItem
    BY <2>2 DEF NoItem
  <2>4. reserving' = [reserving EXCEPT ![r] = i] /\ reserved' = [reserved EXCEPT ![r] = @ + 1]
    BY <1>3, <2>2 DEF Reserve
  <2>5. ReserverPlaces'
    BY <1>0, <2>1, <2>3, <2>4 DEF ReserverPlaces
  <2>6. distribution' = distribution /\ tick' = tick /\ distributing' = distributing
    BY <1>3 DEF Reserve
  <2>7. OneBusy' /\ \A d \in Distributors : TurnPlace(d)'
    BY <1>0, <2>1, <2>6 DEF OneBusy, TurnPlace, Busy
  <2> QED  BY <1>1, <2>1, <2>5, <2>7
<1>4. ASSUME NEW r \in Reservers, ReservePush(r) PROVE TimerPlaces'
  <2>1. /\ OneOwner' /\ lockAt'[r] = "out"
        /\ \A s \in LockThreads : s # r => lockAt'[s] = lockAt[s]
    BY <1>0, <1>2, <1>4 DEF ReservePush
  <2>2. reserving' = [reserving EXCEPT ![r] = NoItem] /\ reserved' = reserved
    BY <1>4 DEF ReservePush
  <2>3. ReserverPlaces'
    BY <1>0, <2>1, <2>2 DEF ReserverPlaces
  <2>4. distribution' = distribution /\ tick' = tick /\ distributing' = distributing
    BY <1>4 DEF ReservePush
  <2>5. OneBusy' /\ \A d \in Distributors : TurnPlace(d)'
    BY <1>0, <2>1, <2>4 DEF OneBusy, TurnPlace, Busy
  <2> QED  BY <1>1, <2>1, <2>3, <2>5
<1>5. ASSUME reserving' = reserving, reserved' = reserved,
             \A r \in Reservers : lockAt'[r] = "out" <=> lockAt[r] = "out"
      PROVE  ReserverPlaces'
  BY <1>0, <1>5 DEF ReserverPlaces
<1>6. ASSUME locked' = locked, lockAt' = lockAt PROVE OneOwner'
  BY <1>0, <1>6 DEF OneOwner, LockTypeOK
<1>7. ASSUME NEW d \in Distributors, CallDistribute(d) PROVE TimerPlaces'
  <2>1. /\ Sets(d, "called", tick, distribution[d].expired) /\ distribution[d].at = "idle"
        /\ UNCHANGED <<locked, lockAt, reserving, reserved, tick, distributing>>
    BY <1>7, TurnFields DEF CallDistribute, lockVars
  <2>2. \A e \in Distributors : TurnPlace(e)'
    BY <1>0, <2>1 DEF TurnPlace, Sets
  <2>3. \A e \in Distributors : Busy(e)' <=> Busy(e)
    BY <2>1 DEF Busy, Sets
  <2>4. OneBusy'
    BY <1>0, <2>1, <2>3 DEF OneBusy
  <2> QED  BY <1>1, <1>5, <1>6, <2>1, <2>2, <2>4
<1>8. ASSUME NEW d \in Distributors, Distribute(d) PROVE TimerPlaces'
  <2>1. /\ distribution[d].at = "called" /\ distributing' = TRUE
        /\ UNCHANGED <<locked, lockAt, reserving, reserved, tick>>
    BY <1>8 DEF Distribute, lockVars
  <2>2. CASE distributing
    <3>1. Sets(d, "idle", 0, <<>>)
      BY <1>8, <2>2, TurnFields
    <3>2. \A e \in Distributors : TurnPlace(e)'
      BY <1>0, <2>1, <3>1 DEF TurnPlace, Sets
    <3>3. \A e \in Distributors : Busy(e)' <=> Busy(e)
      BY <2>1, <3>1 DEF Busy, Sets
    <3>4. OneBusy'
      BY <1>0, <2>1, <2>2, <3>3 DEF OneBusy
    <3> QED  BY <1>1, <1>5, <1>6, <2>1, <3>2, <3>4
  <2>3. CASE ~ distributing
    <3>1. Sets(d, "lock", distribution[d].now, distribution[d].expired)
      BY <1>8, <2>3, TurnFields
    <3>2. \A e \in Distributors : TurnPlace(e)'
      BY <1>0, <2>1, <3>1 DEF TurnPlace, Sets
    <3>3. \A e \in Distributors : Busy(e)' <=> e = d
      BY <1>0, <2>3, <3>1 DEF Busy, Sets, OneBusy
    <3>4. OneBusy'
      BY <2>1, <3>3 DEF OneBusy
    <3> QED  BY <1>1, <1>5, <1>6, <2>1, <3>2, <3>4
  <2> QED  BY <2>2, <2>3
<1>9. ASSUME NEW d \in Distributors, DistributeLock(d) PROVE TimerPlaces'
  <2>1. /\ Sets(d, "take", distribution[d].now, distribution[d].expired)
        /\ distribution[d].at = "lock"
        /\ UNCHANGED <<reserving, reserved, tick, distributing>>
    BY <1>9, TurnFields DEF DistributeLock
  <2>2. /\ OneOwner' /\ lockAt'[d] # "out"
        /\ \A s \in LockThreads : s # d => lockAt'[s] = lockAt[s]
    BY <1>0, <1>2, <1>9 DEF DistributeLock
  <2>3. \A e \in Distributors : TurnPlace(e)'
    BY <1>0, <2>1, <2>2 DEF TurnPlace, Sets
  <2>4. \A e \in Distributors : Busy(e)' <=> Busy(e)
    BY <2>1 DEF Busy, Sets
  <2>5. OneBusy'
    BY <1>0, <2>1, <2>4 DEF OneBusy
  <2> QED  BY <1>0, <1>1, <1>5, <2>1, <2>2, <2>3, <2>5
<1>10. ASSUME NEW d \in Distributors, NEW i \in items, TakeItem(d, i) PROVE TimerPlaces'
  <2>1. /\ Sets(d, "take", distribution[d].now, Append(distribution[d].expired, i))
        /\ distribution[d].at = "take"
        /\ UNCHANGED <<locked, lockAt, reserving, reserved, tick, distributing>>
    BY <1>10, TurnFields DEF TakeItem, lockVars
  <2>2. \A e \in Distributors : TurnPlace(e)'
    BY <1>0, <2>1 DEF TurnPlace, Sets
  <2>3. \A e \in Distributors : Busy(e)' <=> Busy(e)
    BY <2>1 DEF Busy, Sets
  <2>4. OneBusy'
    BY <1>0, <2>1, <2>3 DEF OneBusy
  <2> QED  BY <1>1, <1>5, <1>6, <2>1, <2>2, <2>4
<1>11. ASSUME NEW d \in Distributors, TakeEnd(d) PROVE TimerPlaces'
  <2>1. /\ Sets(d, "push", distribution[d].now, distribution[d].expired)
        /\ distribution[d].at = "take"
        /\ UNCHANGED <<reserving, reserved, tick, distributing>>
    BY <1>11, TurnFields DEF TakeEnd
  <2>2. /\ OneOwner' /\ lockAt'[d] = "out"
        /\ \A s \in LockThreads : s # d => lockAt'[s] = lockAt[s]
    BY <1>0, <1>2, <1>11 DEF TakeEnd
  <2>3. \A e \in Distributors : TurnPlace(e)'
    BY <1>0, <2>1, <2>2 DEF TurnPlace, Sets
  <2>4. \A e \in Distributors : Busy(e)' <=> Busy(e)
    BY <2>1 DEF Busy, Sets
  <2>5. OneBusy'
    BY <1>0, <2>1, <2>4 DEF OneBusy
  <2> QED  BY <1>0, <1>1, <1>5, <2>1, <2>2, <2>3, <2>5
<1>12. ASSUME NEW d \in Distributors, PushItem(d) PROVE TimerPlaces'
  <2>1. /\ Sets(d, "push", distribution[d].now, Tail(distribution[d].expired))
        /\ distribution[d].at = "push"
        /\ UNCHANGED <<locked, lockAt, reserving, reserved, tick, distributing>>
    BY <1>12, TurnFields DEF PushItem, lockVars
  <2>2. \A e \in Distributors : TurnPlace(e)'
    BY <1>0, <2>1 DEF TurnPlace, Sets
  <2>3. \A e \in Distributors : Busy(e)' <=> Busy(e)
    BY <2>1 DEF Busy, Sets
  <2>4. OneBusy'
    BY <1>0, <2>1, <2>3 DEF OneBusy
  <2> QED  BY <1>1, <1>5, <1>6, <2>1, <2>2, <2>4
<1>13. ASSUME NEW d \in Distributors, DistributeEnd(d) PROVE TimerPlaces'
  <2>1. /\ Sets(d, "idle", 0, <<>>) /\ distribution[d].at = "push" /\ distributing' = FALSE
        /\ UNCHANGED <<locked, lockAt, reserving, reserved, tick>>
    BY <1>13, TurnFields DEF DistributeEnd, lockVars
  <2>2. \A e \in Distributors : TurnPlace(e)'
    BY <1>0, <2>1 DEF TurnPlace, Sets
  <2>3. \A e \in Distributors : ~ Busy(e)'
    BY <1>0, <2>1 DEF Busy, Sets, OneBusy
  <2>4. OneBusy'
    BY <2>1, <2>3 DEF OneBusy
  <2> QED  BY <1>1, <1>5, <1>6, <2>1, <2>2, <2>4
<1>14. ASSUME NEW t \in LockThreads, LockLoop(t) PROVE TimerPlaces'
  <2>1. UNCHANGED <<reserving, reserved, tick, distributing, distribution>>
    BY <1>14 DEF LockLoop, timerVars
  <2>2. OneOwner' /\ \A s \in LockThreads : lockAt'[s] = "out" <=> lockAt[s] = "out"
    BY <1>0, <1>2, <1>14 DEF LockLoop
  <2>3. OneBusy' /\ \A e \in Distributors : TurnPlace(e)'
    BY <1>0, <2>1, <2>2 DEF TurnPlace, OneBusy, Busy
  <2> QED  BY <1>0, <1>1, <1>5, <2>1, <2>2, <2>3
<1>15. ASSUME UNCHANGED <<reserving, reserved, distributing, distribution, lockVars>>,
              tick' = tick \/ tick' = tick + 1
       PROVE  TimerPlaces'
  <2>1. \A e \in Distributors : distribution[e].now \in Nat
    BY <1>0 DEF Turn
  <2>2. \A e \in Distributors : TurnPlace(e)'
    BY <1>0, <1>15, <2>1 DEF TurnPlace, lockVars
  <2>3. OneBusy'
    BY <1>0, <1>15 DEF OneBusy, Busy
  <2> QED  BY <1>1, <1>5, <1>6, <1>15, <2>2, <2>3 DEF lockVars
<1>16. ASSUME NEW q \in Owners, OwnerGone(q) PROVE TimerPlaces'
  BY <1>15, <1>16 DEF OwnerGone
<1>17. CASE TimerTick
  BY <1>15, <1>17 DEF TimerTick
<1> QED
  BY <1>0, <1>3, <1>4, <1>7, <1>8, <1>9, <1>10, <1>11, <1>12, <1>13, <1>14, <1>16, <1>17
     DEF TimerNext, DistributorStep, ReserverStep

LEMMA HeapKept == TimerInv /\ TimerNext => HeapPart'
<1> SUFFICES ASSUME TimerInv, TimerNext PROVE HeapPart'
  OBVIOUS
<1>0. /\ items \subseteq Item /\ taken \subseteq Jobs
      /\ reserving \in [Reservers -> Item \cup {NoItem}]
      /\ reserved \in [Reservers -> 0..MaxReserve] /\ MaxReserve \in Nat
      /\ taken \subseteq ReservedJobs
      /\ \A i \in items : i.job \in ReservedJobs /\ i.job \notin taken
      /\ \A i, j \in items : i.job = j.job => i = j
  BY TimerAssumption DEF TimerInv, TimerTypes, HeapPart
<1>1. ASSUME NEW r \in Reservers, NEW q \in Owners, NEW ms \in Delays, Reserve(r, q, ms)
      PROVE  HeapPart'
  <2>1. PICK i : i = [job |-> <<r, reserved[r] + 1>>, owner |-> q, executeTick |-> tick + ms,
                      after |-> {}, at |-> 0]
    OBVIOUS
  <2>2. /\ reserving[r] = NoItem /\ reserving' = [reserving EXCEPT ![r] = i]
        /\ reserved' = [reserved EXCEPT ![r] = @ + 1]
        /\ items' = items /\ taken' = taken
    BY <1>1, <2>1 DEF Reserve
  <2>3. ASSUME NEW j \in Jobs, j \in ReservedJobs PROVE j \in ReservedJobs'
    <3>1. j[1] \in Reservers /\ j[2] \in Nat /\ j[2] <= reserved[j[1]]
      BY <2>3 DEF Jobs, ReservedJobs
    <3>2. CASE j[1] = r
      <4>1. reserved'[r] = reserved[r] + 1 /\ reserved[r] \in Nat
        BY <1>0, <2>2
      <4>2. j[2] <= reserved'[j[1]] /\ j[2] # reserved'[j[1]]
        BY <3>1, <3>2, <4>1
      <4> QED  BY <4>2 DEF ReservedJobs
    <3>3. CASE j[1] # r
      <4>1. reserved'[j[1]] = reserved[j[1]] /\ reserving'[j[1]] = reserving[j[1]]
        BY <1>0, <2>2, <3>1, <3>3
      <4> QED  BY <2>3, <4>1 DEF ReservedJobs
    <3> QED  BY <3>2, <3>3
  <2>4. ReservedJobs \subseteq ReservedJobs'
    BY <2>3 DEF ReservedJobs
  <2> QED  BY <1>0, <2>2, <2>4 DEF HeapPart
<1>2. ASSUME NEW r \in Reservers, ReservePush(r) PROVE HeapPart'
  <2>1. PICK i : i = [reserving[r] EXCEPT !.after = taken]
    OBVIOUS
  <2>2. reserving[r] # NoItem /\ reserving[r] \in Item /\ reserving[r].job = <<r, reserved[r]>>
    BY <1>0, <1>2 DEF ReservePush, TimerInv, TimerPlaces
  <2>3. i.job = <<r, reserved[r]>> /\ i.job \in Jobs
    BY <2>1, <2>2 DEF Item
  <2>4. /\ items' = items \cup {i} /\ taken' = taken /\ reserved' = reserved
        /\ reserving' = [reserving EXCEPT ![r] = NoItem]
    BY <1>2, <2>1 DEF ReservePush
  <2>5. ASSUME NEW j \in Jobs, j \in ReservedJobs PROVE j \in ReservedJobs'
    <3>1. reserving'[j[1]] # NoItem => reserving'[j[1]] = reserving[j[1]]
      BY <1>0, <2>4 DEF Jobs
    <3> QED  BY <2>4, <2>5, <3>1 DEF ReservedJobs
  <2>6. ReservedJobs \subseteq ReservedJobs'
    BY <2>5 DEF ReservedJobs
  <2>7. i.job \in ReservedJobs'
    <3>1. reserving'[r] = NoItem /\ reserved'[r] = reserved[r] /\ reserved[r] \in Nat
      BY <1>0, <2>4
    <3> QED  BY <2>3, <3>1 DEF ReservedJobs
  <2>8. i.job \notin ReservedJobs
    BY <2>2, <2>3 DEF ReservedJobs
  <2> QED  BY <1>0, <2>4, <2>6, <2>7, <2>8 DEF HeapPart
<1>3. ASSUME NEW d \in Distributors, NEW i \in items, TakeItem(d, i) PROVE HeapPart'
  <2>1. /\ items' = items \ {i} /\ taken' = taken \cup {i.job}
        /\ reserving' = reserving /\ reserved' = reserved
    BY <1>3 DEF TakeItem
  <2>2. ReservedJobs' = ReservedJobs
    BY <2>1 DEF ReservedJobs
  <2> QED  BY <1>0, <2>1, <2>2 DEF HeapPart
<1>4. ASSUME items' = items, taken' = taken, reserving' = reserving, reserved' = reserved
      PROVE  HeapPart'
  <2>1. ReservedJobs' = ReservedJobs
    BY <1>4 DEF ReservedJobs
  <2> QED  BY <1>0, <1>4, <2>1 DEF HeapPart
<1>5. ASSUME NEW d \in Distributors,
             \/ CallDistribute(d) \/ Distribute(d) \/ DistributeLock(d) \/ TakeEnd(d)
             \/ PushItem(d) \/ DistributeEnd(d)
      PROVE  HeapPart'
  <2>1. items' = items /\ taken' = taken /\ reserving' = reserving /\ reserved' = reserved
    BY <1>5 DEF CallDistribute, Distribute, DistributeLock, TakeEnd, PushItem, DistributeEnd
  <2> QED  BY <1>4, <2>1
<1>6. ASSUME \/ \E t \in Reservers \cup Distributors : LockLoop(t)
             \/ \E q \in Owners : OwnerGone(q)
             \/ TimerTick
      PROVE  HeapPart'
  <2>1. items' = items /\ taken' = taken /\ reserving' = reserving /\ reserved' = reserved
    BY <1>6 DEF LockLoop, OwnerGone, TimerTick, timerVars
  <2> QED  BY <1>4, <2>1
<1> QED
  BY <1>1, <1>2, <1>3, <1>5, <1>6 DEF TimerNext, DistributorStep, ReserverStep

(* The two halves of the order, for a queue and for a thread in Distribute.   *)
PushedInOrder(q) ==
  \A k \in 1..Len(pushed[q]) :
    /\ pushed[q][k].job \in taken /\ pushed[q][k].executeTick <= pushed[q][k].at
    /\ \A l \in 1..(k - 1) : Before(pushed[q][l], pushed[q][k])
    /\ \A i \in items : Before(pushed[q][k], i)
    /\ \A d \in Distributors : \A l \in 1..Len(distribution[d].expired) :
         Before(pushed[q][k], distribution[d].expired[l])

ExpiredInOrder(d) ==
  \A k \in 1..Len(distribution[d].expired) :
    /\ distribution[d].expired[k].job \in taken
    /\ distribution[d].expired[k].executeTick <= distribution[d].now
    /\ \A l \in 1..(k - 1) : Before(distribution[d].expired[l], distribution[d].expired[k])
    /\ \A i \in items : Before(distribution[d].expired[k], i)

LEMMA OrderKept == TimerInv /\ TimerNext => OrderPart'
<1> SUFFICES ASSUME TimerInv, TimerNext PROVE OrderPart'
  OBVIOUS
<1>0. /\ items \subseteq Item /\ taken \subseteq Jobs /\ tick \in Nat
      /\ reserving \in [Reservers -> Item \cup {NoItem}]
      /\ distribution \in [Distributors -> Turn]
      /\ pushed \in [Owners -> Seq(Item)]
      /\ \A q \in Owners : PushedInOrder(q)
      /\ \A d \in Distributors : ExpiredInOrder(d)
  BY TimerAssumption DEF TimerInv, TimerTypes, OrderPart, PushedInOrder, ExpiredInOrder
<1>1. (\A q \in Owners : PushedInOrder(q)') /\ (\A d \in Distributors : ExpiredInOrder(d)')
        => OrderPart'
  BY DEF OrderPart, PushedInOrder, ExpiredInOrder
<1>2. ASSUME pushed' = pushed, items' = items, taken' = taken,
             \A d \in Distributors :
               \/ distribution'[d].expired = <<>>
               \/ /\ distribution'[d].expired = distribution[d].expired
                  /\ distribution'[d].now = distribution[d].now
      PROVE  OrderPart'
  <2>1. ASSUME NEW d \in Distributors PROVE ExpiredInOrder(d)'
    <3>1. CASE distribution'[d].expired = <<>>
      BY <3>1 DEF ExpiredInOrder
    <3>2. CASE distribution'[d].expired # <<>>
      BY <1>0, <1>2, <3>2, SMTT(30) DEF ExpiredInOrder, Before
    <3> QED  BY <3>1, <3>2
  <2>2. ASSUME NEW q \in Owners PROVE PushedInOrder(q)'
    <3>1. ASSUME NEW k \in 1..Len(pushed[q]), NEW d \in Distributors,
                 NEW l \in 1..Len(distribution'[d].expired)
          PROVE  Before(pushed[q][k], distribution'[d].expired[l])
      <4>1. distribution'[d].expired = distribution[d].expired
        BY <1>2, <3>1
      <4> QED  BY <1>0, <3>1, <4>1 DEF PushedInOrder
    <3> QED  BY <1>0, <1>2, <3>1 DEF PushedInOrder, Before
  <2> QED  BY <1>1, <2>1, <2>2
<1>3. \A d \in Distributors : distribution[d].at \notin {"take", "push"} => distribution[d].expired = <<>>
  BY DEF TimerInv, TimerPlaces
<1>4. ASSUME NEW d \in Distributors,
             \/ CallDistribute(d) \/ Distribute(d) \/ DistributeLock(d) \/ TakeEnd(d) \/ DistributeEnd(d)
      PROVE  OrderPart'
  <2>1. pushed' = pushed /\ items' = items /\ taken' = taken
    BY <1>4 DEF CallDistribute, Distribute, DistributeLock, TakeEnd, DistributeEnd
  <2>2. \E at \in {"idle", "called", "lock", "take", "push"}, now \in Nat, s \in Seq(Item) :
          Sets(d, at, now, s) /\ (s = <<>> \/ (s = distribution[d].expired /\ now = distribution[d].now))
    <3>0. distribution[d].now \in Nat /\ distribution[d].expired \in Seq(Item) /\ <<>> \in Seq(Item)
      BY <1>0 DEF Turn
    <3>1. CASE CallDistribute(d)
      <4>1. distribution[d].expired = <<>> /\ Sets(d, "called", tick, distribution[d].expired)
        BY <1>3, <3>1, TurnFields DEF CallDistribute
      <4> QED  BY <1>0, <3>0, <4>1
    <3>2. CASE Distribute(d)
      BY <3>0, <3>2, TurnFields
    <3>3. CASE DistributeLock(d) \/ TakeEnd(d) \/ DistributeEnd(d)
      BY <3>0, <3>3, TurnFields
    <3> QED  BY <1>4, <3>1, <3>2, <3>3
  <2> QED  BY <1>2, <2>1, <2>2 DEF Sets
<1>5. ASSUME UNCHANGED <<distribution, pushed, items, taken>> PROVE OrderPart'
  BY <1>2, <1>5
<1>6. ASSUME \/ \E r \in Reservers, q \in Owners, ms \in Delays : Reserve(r, q, ms)
             \/ \E t \in Reservers \cup Distributors : LockLoop(t)
             \/ \E q \in Owners : OwnerGone(q)
             \/ TimerTick
      PROVE  OrderPart'
  BY <1>5, <1>6 DEF Reserve, LockLoop, timerVars, OwnerGone, TimerTick
<1>7. ASSUME NEW r \in Reservers, ReservePush(r) PROVE OrderPart'
  <2>1. PICK i : i = [reserving[r] EXCEPT !.after = taken]
    OBVIOUS
  <2>2. reserving[r] \in Item /\ reserving[r].job = <<r, reserved[r]>> /\ reserving[r] # NoItem
    BY <1>0, <1>7 DEF ReservePush, TimerInv, TimerPlaces
  <2>3. i.after = taken /\ i.job = <<r, reserved[r]>>
    BY <2>1, <2>2 DEF Item
  <2>4. i.job \notin taken
    BY <2>2, <2>3 DEF TimerInv, HeapPart, ReservedJobs
  <2>5. items' = items \cup {i} /\ UNCHANGED <<distribution, pushed, taken>>
    BY <1>7, <2>1 DEF ReservePush
  <2>6. ASSUME NEW x, x.job \in taken PROVE Before(x, i)
    BY <2>3, <2>4, <2>6 DEF Before
  <2>7. ASSUME NEW q \in Owners PROVE PushedInOrder(q)'
    BY <1>0, <2>5, <2>6 DEF PushedInOrder, Before
  <2>8. ASSUME NEW d \in Distributors PROVE ExpiredInOrder(d)'
    BY <1>0, <2>5, <2>6 DEF ExpiredInOrder, Before
  <2> QED  BY <1>1, <2>7, <2>8
<1>8. ASSUME NEW d \in Distributors, NEW i \in items, TakeItem(d, i) PROVE OrderPart'
  <2> DEFINE old == distribution[d].expired
  <2>1. /\ Sets(d, "take", distribution[d].now, Append(old, i))
        /\ items' = items \ {i} /\ taken' = taken \cup {i.job} /\ pushed' = pushed
        /\ i.executeTick <= distribution[d].now /\ distribution[d].at = "take"
        /\ \A j \in items : i.executeTick <= j.executeTick
    BY <1>8, TurnFields DEF TakeItem, Due
  <2>2. \A e \in Distributors : e # d => distribution'[e].expired = <<>>
    <3>1. ASSUME NEW e \in Distributors, e # d PROVE distribution[e].expired = <<>>
      BY <1>3, <2>1, <3>1 DEF TimerInv, TimerPlaces, Busy
    <3> QED  BY <2>1, <3>1 DEF Sets
  <2>3. /\ old \in Seq(Item) /\ i \in Item
        /\ distribution'[d].expired = Append(old, i) /\ distribution'[d].now = distribution[d].now
    BY <1>0, <2>1 DEF Turn, Sets
  <2>4. /\ Len(old) \in Nat /\ Len(Append(old, i)) = Len(old) + 1
        /\ \A k \in 1..Len(old) : Append(old, i)[k] = old[k]
        /\ Append(old, i)[Len(old) + 1] = i
    BY <2>3, AppendProperties
  <2>5. ExpiredInOrder(d)
    BY <1>0
  <2>6. ASSUME NEW j \in items, j # i PROVE Before(i, j)
    BY <2>1, <2>6 DEF Before, TimerInv, HeapPart
  <2>7. ASSUME NEW k \in 1..(Len(old) + 1)
        PROVE  /\ Append(old, i)[k].job \in taken'
               /\ Append(old, i)[k].executeTick <= distribution[d].now
               /\ \A l \in 1..(k - 1) : Before(Append(old, i)[l], Append(old, i)[k])
               /\ \A j \in items' : Before(Append(old, i)[k], j)
    <3>1. CASE k \in 1..Len(old)
      <4>1. Append(old, i)[k] = old[k] /\ \A l \in 1..(k - 1) : Append(old, i)[l] = old[l]
        BY <2>4, <3>1
      <4>2. /\ old[k].job \in taken /\ old[k].executeTick <= distribution[d].now
            /\ \A l \in 1..(k - 1) : Before(old[l], old[k])
            /\ \A j \in items : Before(old[k], j)
        BY <2>5, <3>1 DEF ExpiredInOrder
      <4> QED  BY <2>1, <4>1, <4>2
    <3>2. CASE k = Len(old) + 1
      <4>1. Append(old, i)[k] = i /\ \A l \in 1..(k - 1) : Append(old, i)[l] = old[l]
        BY <2>4, <3>2
      <4>2. \A l \in 1..(k - 1) : Before(old[l], i)
        BY <2>4, <2>5, <3>2 DEF ExpiredInOrder
      <4> QED  BY <2>1, <2>6, <4>1, <4>2
    <3> QED  BY <2>4, <3>1, <3>2
  <2>8. ExpiredInOrder(d)'
    BY <2>3, <2>4, <2>7 DEF ExpiredInOrder, Before
  <2>9. ASSUME NEW e \in Distributors, e # d PROVE ExpiredInOrder(e)'
    BY <2>2, <2>9 DEF ExpiredInOrder
  <2>10. ASSUME NEW q \in Owners PROVE PushedInOrder(q)'
    <3>1. PushedInOrder(q)
      BY <1>0
    <3>2. ASSUME NEW k \in 1..Len(pushed[q]), NEW e \in Distributors,
                 NEW l \in 1..Len(distribution'[e].expired)
          PROVE  Before(pushed[q][k], distribution'[e].expired[l])
      <4>1. e = d
        BY <2>2, <3>2
      <4>2. CASE l \in 1..Len(old)
        <5>1. distribution'[e].expired[l] = old[l]
          BY <2>3, <2>4, <4>1, <4>2
        <5> QED  BY <3>1, <3>2, <4>2, <5>1 DEF PushedInOrder
      <4>3. CASE l = Len(old) + 1
        <5>1. distribution'[e].expired[l] = i
          BY <2>3, <2>4, <4>1, <4>3
        <5> QED  BY <3>1, <3>2, <5>1 DEF PushedInOrder
      <4> QED  BY <2>3, <2>4, <3>2, <4>1, <4>2, <4>3, SMTT(30)
    <3> QED  BY <2>1, <3>1, <3>2 DEF PushedInOrder, Before
  <2> QED  BY <1>1, <2>8, <2>9, <2>10
<1>9. ASSUME NEW d \in Distributors, PushItem(d) PROVE OrderPart'
  <2> DEFINE old == distribution[d].expired
             i == Head(old)
  <2>1. /\ Sets(d, "push", distribution[d].now, Tail(old))
        /\ items' = items /\ taken' = taken /\ old # <<>> /\ distribution[d].at = "push"
    BY <1>9, TurnFields DEF PushItem
  <2>2. \A e \in Distributors : e # d => distribution'[e].expired = <<>>
    <3>1. ASSUME NEW e \in Distributors, e # d PROVE distribution[e].expired = <<>>
      BY <1>3, <2>1, <3>1 DEF TimerInv, TimerPlaces, Busy
    <3> QED  BY <2>1, <3>1 DEF Sets
  <2>3. /\ old \in Seq(Item) /\ Len(old) \in Nat \ {0} /\ i = old[1] /\ i \in Item
        /\ distribution[d].now <= tick /\ distribution[d].now \in Nat
        /\ distribution'[d].expired = Tail(old) /\ distribution'[d].now = distribution[d].now
    BY <1>0, <2>1 DEF Turn, Sets, TimerInv, TimerPlaces
  <2>4. /\ Len(Tail(old)) = Len(old) - 1
        /\ \A k \in 1..(Len(old) - 1) : Tail(old)[k] = old[k + 1]
    BY <2>3
  <2>5. ExpiredInOrder(d)
    BY <1>0
  <2>6. ASSUME NEW k \in 1..(Len(old) - 1)
        PROVE  /\ Tail(old)[k].job \in taken /\ Tail(old)[k].executeTick <= distribution[d].now
               /\ \A l \in 1..(k - 1) : Before(Tail(old)[l], Tail(old)[k])
               /\ \A j \in items : Before(Tail(old)[k], j)
               /\ Before(i, Tail(old)[k])
    <3>1. k + 1 \in 1..Len(old) /\ 1 \in 1..((k + 1) - 1)
      BY <2>3
    <3>2. /\ old[k + 1].job \in taken /\ old[k + 1].executeTick <= distribution[d].now
          /\ \A l \in 1..((k + 1) - 1) : Before(old[l], old[k + 1])
          /\ \A j \in items : Before(old[k + 1], j)
      BY <2>5, <3>1 DEF ExpiredInOrder
    <3>3. Tail(old)[k] = old[k + 1]
      BY <2>4
    <3>4. ASSUME NEW l \in 1..(k - 1) PROVE Before(Tail(old)[l], Tail(old)[k])
      <4>1. l + 1 \in 1..((k + 1) - 1) /\ l \in 1..(Len(old) - 1)
        BY <2>3
      <4>2. Tail(old)[l] = old[l + 1]
        BY <2>4, <4>1
      <4> QED  BY <3>2, <3>3, <4>1, <4>2
    <3>5. Before(i, Tail(old)[k])
      BY <2>3, <3>1, <3>2, <3>3
    <3> QED  BY <3>2, <3>3, <3>4, <3>5
  <2>7. ExpiredInOrder(d)'
    BY <2>1, <2>3, <2>4, <2>6 DEF ExpiredInOrder, Before
  <2>8. ASSUME NEW e \in Distributors, e # d PROVE ExpiredInOrder(e)'
    BY <2>2, <2>8 DEF ExpiredInOrder
  <2>9. PICK p : p = [i EXCEPT !.at = tick]
    OBVIOUS
  <2>10. /\ p.job = i.job /\ p.executeTick = i.executeTick /\ p.after = i.after /\ p.at = tick
         /\ p \in Item
    BY <1>0, <2>3, <2>9 DEF Item
  <2>11. /\ i.job \in taken /\ i.executeTick <= distribution[d].now
         /\ \A j \in items : Before(i, j)
    BY <2>3, <2>5 DEF ExpiredInOrder
  <2>12. ASSUME NEW q \in Owners, NEW k \in 1..Len(pushed[q])
         PROVE  /\ pushed[q][k].job \in taken /\ pushed[q][k].executeTick <= pushed[q][k].at
                /\ \A l \in 1..(k - 1) : Before(pushed[q][l], pushed[q][k])
                /\ \A j \in items : Before(pushed[q][k], j)
                /\ Before(pushed[q][k], i)
                /\ \A l \in 1..Len(Tail(old)) : Before(pushed[q][k], Tail(old)[l])
    <3>1. PushedInOrder(q)
      BY <1>0
    <3>2. \A l \in 1..Len(old) : Before(pushed[q][k], old[l])
      BY <3>1 DEF PushedInOrder
    <3>3. ASSUME NEW l \in 1..Len(Tail(old)) PROVE Before(pushed[q][k], Tail(old)[l])
      <4>1. l + 1 \in 1..Len(old) /\ Tail(old)[l] = old[l + 1]
        BY <2>3, <2>4
      <4> QED  BY <3>2, <4>1
    <3>4. Before(pushed[q][k], i)
      BY <2>3, <3>2
    <3> QED  BY <3>1, <3>3, <3>4 DEF PushedInOrder
  <2>13. ASSUME NEW q \in Owners, pushed'[q] = pushed[q] PROVE PushedInOrder(q)'
    <3>1. ASSUME NEW k \in 1..Len(pushed[q]), NEW e \in Distributors,
                 NEW l \in 1..Len(distribution'[e].expired)
          PROVE  Before(pushed[q][k], distribution'[e].expired[l])
      <4>1. e = d
        BY <2>2, <3>1
      <4>2. distribution'[e].expired = Tail(old)
        BY <2>3, <4>1
      <4>3. l \in 1..Len(Tail(old))
        BY <3>1, <4>2
      <4> HIDE DEF old
      <4> QED  BY <2>12, <4>2, <4>3
    <3> QED  BY <2>1, <2>12, <2>13, <3>1, ZenonT(30) DEF PushedInOrder, Before
  <2>14. ASSUME NEW q \in Owners, pushed'[q] = Append(pushed[q], p) PROVE PushedInOrder(q)'
    <3>1. pushed[q] \in Seq(Item)
      BY <1>0
    <3>2. /\ Len(pushed[q]) \in Nat /\ Len(pushed'[q]) = Len(pushed[q]) + 1
          /\ \A k \in 1..Len(pushed[q]) : pushed'[q][k] = pushed[q][k]
          /\ pushed'[q][Len(pushed[q]) + 1] = p
      BY <2>10, <2>14, <3>1, AppendProperties
    <3>3. ASSUME NEW k \in 1..Len(pushed'[q])
          PROVE  /\ pushed'[q][k].job \in taken /\ pushed'[q][k].executeTick <= pushed'[q][k].at
                 /\ \A l \in 1..(k - 1) : Before(pushed'[q][l], pushed'[q][k])
                 /\ \A j \in items : Before(pushed'[q][k], j)
                 /\ \A l \in 1..Len(Tail(old)) : Before(pushed'[q][k], Tail(old)[l])
      <4>1. CASE k \in 1..Len(pushed[q])
        <5>1. pushed'[q][k] = pushed[q][k] /\ \A l \in 1..(k - 1) : pushed'[q][l] = pushed[q][l]
          BY <3>2, <4>1
        <5> QED  BY <2>12, <4>1, <5>1
      <4>2. CASE k = Len(pushed[q]) + 1
        <5>1. pushed'[q][k] = p /\ \A l \in 1..(k - 1) : pushed'[q][l] = pushed[q][l]
          BY <3>2, <4>2
        <5>2. p.executeTick <= p.at
          <6>1. i.executeTick \in Nat
            BY <2>3 DEF Item
          <6> QED  BY <1>0, <2>3, <2>10, <2>11, <6>1
        <5>3. \A l \in 1..(k - 1) : Before(pushed[q][l], p)
          <6>1. \A l \in 1..(k - 1) : Before(pushed[q][l], i)
            BY <2>12, <3>2, <4>2
          <6> QED  BY <2>10, <6>1 DEF Before
        <5>4. \A j \in items : Before(p, j)
          BY <2>10, <2>11 DEF Before
        <5>5. \A l \in 1..Len(Tail(old)) : Before(p, Tail(old)[l])
          BY <2>4, <2>6, <2>10 DEF Before
        <5> QED  BY <2>10, <2>11, <5>1, <5>2, <5>3, <5>4, <5>5
      <4>3. k \in 1..Len(pushed[q]) \/ k = Len(pushed[q]) + 1
        BY <3>2
      <4> QED  BY <4>1, <4>2, <4>3
    <3>4. ASSUME NEW k \in 1..Len(pushed'[q]), NEW e \in Distributors,
                 NEW l \in 1..Len(distribution'[e].expired)
          PROVE  Before(pushed'[q][k], distribution'[e].expired[l])
      <4>1. e = d
        BY <2>2, <3>4
      <4>2. distribution'[e].expired = Tail(old)
        BY <2>3, <4>1
      <4>3. l \in 1..Len(Tail(old))
        BY <3>4, <4>2
      <4> HIDE DEF old
      <4> QED  BY <3>3, <4>2, <4>3
    <3> QED  BY <2>1, <3>3, <3>4 DEF PushedInOrder, Before
  <2>15. ASSUME NEW q \in Owners PROVE PushedInOrder(q)'
    <3>1. pushed'[q] = pushed[q] \/ pushed'[q] = Append(pushed[q], p)
      BY <1>0, <1>9, <2>9 DEF PushItem
    <3> QED  BY <2>13, <2>14, <3>1
  <2> QED  BY <1>1, <2>7, <2>8, <2>15
<1> QED
  BY <1>4, <1>6, <1>7, <1>8, <1>9 DEF TimerNext, DistributorStep, ReserverStep

LEMMA TimerInvInit == TimerInit => TimerInv
<1> SUFFICES ASSUME TimerInit PROVE TimerInv
  OBVIOUS
<1>1. TimerTypes
  <2>1. IdleTurn \in Turn /\ 0 \in 0..MaxReserve /\ 0 \in 0..MaxTick
    BY TimerAssumption DEF IdleTurn, Turn
  <2>2. <<>> \in Seq(Item)
    OBVIOUS
  <2> QED  BY <2>1, <2>2 DEF TimerInit, TimerTypes
<1>2. OneOwner
  BY DEF TimerInit, LockInit, OneOwner, LockTypeOK
<1>3. TimerPlaces
  BY <1>2, TimerAssumption DEF TimerInit, LockInit, TimerPlaces, Busy, IdleTurn
<1>4. HeapPart /\ OrderPart
  BY DEF TimerInit, HeapPart, OrderPart, IdleTurn
<1> QED  BY <1>1, <1>3, <1>4 DEF TimerInv

LEMMA TimerInvNext == TimerInv /\ [TimerNext]_<<timerVars, lockVars>> => TimerInv'
<1>1. CASE TimerNext
  BY <1>1, TimerTypesKept, TimerPlacesKept, HeapKept, OrderKept DEF TimerInv
<1>2. ASSUME TimerInv, UNCHANGED <<timerVars, lockVars>> PROVE TimerInv'
  <2>1. TimerTypes'
    BY <1>2 DEF TimerInv, TimerTypes, timerVars
  <2>2. TimerPlaces'
    BY <1>2 DEF TimerInv, TimerPlaces, OneOwner, LockTypeOK, Busy, timerVars, lockVars
  <2>3. HeapPart'
    BY <1>2 DEF TimerInv, HeapPart, ReservedJobs, timerVars
  <2>4. OrderPart'
    BY <1>2 DEF TimerInv, OrderPart, Before, timerVars
  <2> QED  BY <2>1, <2>2, <2>3, <2>4 DEF TimerInv
<1> QED  BY <1>1, <1>2

LEMMA TimerInductive == TimerSpec => []TimerInv
BY TimerInvInit, TimerInvNext, PTL DEF TimerSpec

(* At most one of any number of threads is ever past Lock, and _locked says   *)
(* so: the heap of the timer is changed by one thread at a time.              *)
THEOREM TheLockExcludes == TimerSpec => []OneOwner
<1>1. TimerInv => OneOwner
  BY DEF TimerInv, TimerPlaces
<1> QED  BY <1>1, TimerInductive, PTL

(* A queue gets its timed jobs in the order of their times, none early, none  *)
(* twice, whatever threads reserve and distribute.                            *)
THEOREM TimedJobsAreOrdered == TimerSpec => []TimedOrder
<1>1. ASSUME TimerInv PROVE TimedOrder
  <2>1. TimerTypeOK
    <3>1. /\ tick \in 0..MaxTick /\ distributing \in BOOLEAN /\ alive \subseteq Owners
          /\ taken \subseteq Jobs
      BY <1>1 DEF TimerInv, TimerTypes
    <3>2. \A i \in items : /\ i.job \in Jobs /\ i.owner \in Owners
                           /\ i.executeTick \in Nat /\ i.after \subseteq Jobs
      BY <1>1 DEF TimerInv, TimerTypes, Item
    <3>3. /\ DOMAIN reserving = Reservers /\ DOMAIN distribution = Distributors
          /\ \A d \in Distributors : /\ distribution[d].at \in {"idle", "called", "lock", "take", "push"}
                                     /\ distribution[d].now <= tick
      BY <1>1 DEF TimerInv, TimerTypes, TimerPlaces, Turn
    <3> QED  BY <3>1, <3>2, <3>3 DEF TimerTypeOK
  <2>2. ASSUME NEW q \in Owners, NEW k \in DOMAIN pushed[q]
        PROVE  /\ pushed[q][k].executeTick <= pushed[q][k].at
               /\ \A l \in 1..(k - 1) : /\ pushed[q][l].job # pushed[q][k].job
                                        /\ \/ pushed[q][l].executeTick <= pushed[q][k].executeTick
                                           \/ pushed[q][l].job \in pushed[q][k].after
    <3>1. k \in 1..Len(pushed[q])
      BY <1>1 DEF TimerInv, TimerTypes
    <3> QED  BY <1>1, <3>1 DEF TimerInv, OrderPart, Before
  <2> QED  BY <2>1, <2>2 DEF TimedOrder
<1> QED  BY <1>1, TimerInductive, PTL

-----------------------------------------------------------------------------
(* The bucket.                                                                *)
(* What has been let through since any grant, and what the bucket still       *)
(* holds, is paid for by a full bucket and the time that has been credited;   *)
(* a grant is never 50 ms younger than the last credit.                       *)
PaidPart ==
  \A i \in 1..Len(grants) :
    /\ grants[i] < lastRefillTick + 50
    /\ (Len(grants) - i + 1 + tokens) * 1000
         <= BucketCapacity * 1000 + RefillRate * (lastRefillTick + 50 - grants[i])

BucketInv ==
  /\ BucketTypeOK
  /\ lastRefillTick <= lastCall.at
  /\ ~ open => grants = <<>>
  /\ PaidPart
  /\ SlowNeverRefused

LEMMA DividedByThousand == \A x \in Nat : x \div 1000 \in Nat /\ 1000 * (x \div 1000) <= x
OBVIOUS

LEMMA WorthAToken == \A x \in Nat : x >= 1000 => x \div 1000 >= 1
OBVIOUS

LEMMA Monotone == \A r, a, b \in Nat : a <= b => r * a <= r * b
<1> SUFFICES ASSUME NEW r \in Nat, NEW a \in Nat, NEW b \in Nat, a <= b PROVE r * a <= r * b
  OBVIOUS
<1>1. PICK k \in Nat : b = a + k
  <2>1. b - a \in Nat /\ b = a + (b - a)
    OBVIOUS
  <2> QED  BY <2>1
<1>2. r * b = r * a + r * k /\ r * k \in Nat /\ r * a \in Nat
  BY <1>1
<1> QED  BY <1>2

LEMMA BucketInvInit == BucketInit => BucketInv
<1> SUFFICES ASSUME BucketInit PROVE BucketInv
  OBVIOUS
<1>1. /\ 0 \in 0..MaxTime /\ 0 \in 0..0 /\ BucketCapacity \in 0..BucketCapacity
      /\ grants = <<>> /\ clock = 0
  BY BucketAssumption DEF BucketInit
<1>2. grants \in Seq(0..clock) /\ Len(grants) = 0
  BY <1>1
<1>3. lastCall \in [at : 0..clock, gap : 0..clock, granted : BOOLEAN] /\ lastCall.granted /\ lastCall.at = 0
  BY <1>1 DEF BucketInit
<1>4. BucketTypeOK
  BY <1>1, <1>2, <1>3 DEF BucketInit, BucketTypeOK
<1>5. PaidPart
  BY <1>2 DEF PaidPart
<1> QED  BY <1>1, <1>3, <1>4, <1>5 DEF BucketInit, BucketInv, SlowNeverRefused

(* What Refill leaves in the bucket: no more than it holds, no more than the  *)
(* time it credits is worth, and a token when 50 ms are worth one.            *)
LEMMA RefilledIs ==
  ASSUME BucketTypeOK
  PROVE  /\ Refilled \in 0..BucketCapacity
         /\ Elapsed \in Nat
         /\ ~ DueForRefill => Refilled = tokens
         /\ 1000 * Refilled <= 1000 * tokens + RefillRate * Elapsed
         /\ DueForRefill /\ RefillRate * 50 >= 1000 /\ BucketCapacity >= 1 => Refilled >= 1
<1>1. /\ Elapsed \in Nat /\ tokens \in Nat /\ tokens <= BucketCapacity
      /\ BucketCapacity \in Nat /\ RefillRate \in Nat
  BY BucketAssumption DEF BucketTypeOK, Elapsed
<1>2. PICK x \in Nat : x = Elapsed * RefillRate /\ x = RefillRate * Elapsed
  BY <1>1
<1>3. PICK n \in Nat : n = AddTokens
  BY <1>2, DividedByThousand DEF AddTokens
<1>4. 1000 * n <= x
  BY <1>2, <1>3, DividedByThousand DEF AddTokens
<1>5. Refilled = IF ~ DueForRefill THEN tokens
                 ELSE IF tokens + n < BucketCapacity THEN tokens + n ELSE BucketCapacity
  BY <1>3 DEF Refilled
<1>6. ASSUME DueForRefill, RefillRate * 50 >= 1000 PROVE n >= 1
  <2>1. RefillRate * 50 <= RefillRate * Elapsed
    BY <1>1, <1>6, Monotone DEF DueForRefill
  <2>2. x >= 1000
    BY <1>1, <1>2, <1>6, <2>1
  <2> QED  BY <1>2, <1>3, <2>2, WorthAToken DEF AddTokens
<1>7. 1000 * Refilled <= 1000 * tokens + x
  BY <1>1, <1>4, <1>5
<1> QED  BY <1>1, <1>2, <1>5, <1>6, <1>7

LEMMA ConsumeKeeps == BucketInv /\ Consume => BucketInv'
<1> SUFFICES ASSUME BucketInv, Consume PROVE BucketInv'
  OBVIOUS
<1> DEFINE stored == IF DueForRefill THEN clock ELSE lastRefillTick
<1>1. /\ open /\ open' = open /\ clock' = clock /\ lastRefillTick' = stored
      /\ tokens' = IF Refilled >= 1 THEN Refilled - 1 ELSE Refilled
      /\ grants' = IF Refilled >= 1 THEN Append(grants, clock) ELSE grants
      /\ lastCall' = [at |-> clock, gap |-> clock - lastCall.at, granted |-> Refilled >= 1]
  BY DEF Consume, ConsumeAt
<1>2. /\ clock \in Nat /\ clock <= MaxTime /\ lastRefillTick \in Nat /\ lastRefillTick <= clock
      /\ tokens \in Nat /\ tokens <= BucketCapacity /\ grants \in Seq(0..clock) /\ open \in BOOLEAN
      /\ lastCall.at \in Nat /\ lastCall.at <= clock /\ lastRefillTick <= lastCall.at
      /\ BucketCapacity \in Nat /\ RefillRate \in Nat /\ MaxTime \in Nat
  BY BucketAssumption DEF BucketInv, BucketTypeOK
<1>3. PICK m \in 0..BucketCapacity : m = Refilled
  BY RefilledIs DEF BucketInv
<1>n. PICK n \in Nat : n = Len(grants)
  BY <1>2
<1>a. PICK a \in Nat : a = lastCall.at
  BY <1>2
<1>4. /\ Elapsed \in Nat /\ Elapsed = clock - lastRefillTick
      /\ ~ DueForRefill => m = tokens /\ Elapsed < 50
      /\ DueForRefill => Elapsed >= 50
      /\ 1000 * m <= 1000 * tokens + RefillRate * Elapsed
      /\ DueForRefill /\ RefillRate * 50 >= 1000 /\ BucketCapacity >= 1 => m >= 1
  BY <1>2, <1>3, RefilledIs DEF BucketInv, Elapsed, DueForRefill
<1>5. /\ stored \in Nat /\ lastRefillTick <= stored /\ stored <= clock /\ clock < stored + 50
  BY <1>2, <1>4
<1>6. PICK t \in Nat : t = tokens' /\ t <= BucketCapacity /\ (m >= 1 => t + 1 = m)
  <2>1. tokens' = IF m >= 1 THEN m - 1 ELSE m
    BY <1>1, <1>3
  <2>2. m \in Nat /\ m <= BucketCapacity
    BY <1>2
  <2>3. CASE m >= 1
    <3>1. m - 1 \in Nat /\ m - 1 <= BucketCapacity /\ (m - 1) + 1 = m
      BY <1>2, <2>2, <2>3
    <3> QED  BY <2>1, <2>3, <3>1
  <2>4. CASE ~ (m >= 1)
    BY <2>1, <2>2, <2>4
  <2> QED  BY <2>3, <2>4
<1> HIDE DEF stored
<1>7. BucketTypeOK'
  <2>1. grants' \in Seq(0..clock)
    <3>1. clock \in 0..clock
      BY <1>2
    <3>2. Append(grants, clock) \in Seq(0..clock)
      BY <1>2, <3>1, AppendProperties
    <3> QED  BY <1>1, <1>2, <3>2
  <2>2. lastCall' \in [at : 0..clock, gap : 0..clock, granted : BOOLEAN]
    <3>1. clock - a \in 0..clock /\ clock \in 0..clock
      BY <1>2, <1>a
    <3> QED  BY <1>1, <1>a, <3>1
  <2> QED  BY <1>1, <1>2, <1>5, <1>6, <2>1, <2>2 DEF BucketTypeOK
<1>8. lastRefillTick' <= lastCall'.at /\ (~ open' => grants' = <<>>)
  BY <1>1, <1>5
<1>9. SlowNeverRefused'
  <2>1. SUFFICES ASSUME BucketCapacity >= 1, RefillRate * 50 >= 1000, clock - lastCall.at >= 50
                 PROVE  m >= 1
    <3>1. lastCall'.granted = (m >= 1) /\ lastCall'.gap = clock - a
      BY <1>1, <1>3, <1>a
    <3>2. clock - a < 50 \/ clock - lastCall.at >= 50
      BY <1>2, <1>a
    <3> QED  BY <2>1, <3>1, <3>2 DEF SlowNeverRefused
  <2>2. DueForRefill
    BY <1>2, <1>4, <2>1 DEF DueForRefill
  <2> QED  BY <1>4, <2>1, <2>2
(* The credit of this call, for a grant before it.                            *)
<1>10. ASSUME NEW i \in 1..n
       PROVE  /\ grants[i] < stored + 50 /\ grants[i] \in Nat
              /\ (n - i + 1 + m) * 1000 <= BucketCapacity * 1000 + RefillRate * (stored + 50 - grants[i])
  <2>0. PICK g \in Nat : g = grants[i]
    BY <1>2, <1>n
  <2>1. /\ g < lastRefillTick + 50
        /\ (n - i + 1 + tokens) * 1000 <= BucketCapacity * 1000 + RefillRate * (lastRefillTick + 50 - g)
    BY <1>n, <2>0 DEF BucketInv, PaidPart
  <2>2. PICK d \in Nat : d = lastRefillTick + 50 - g
    BY <1>2, <2>1
  <2>3. PICK e \in Nat : e = stored - lastRefillTick
    BY <1>2, <1>5
  <2>4. 1000 * m <= 1000 * tokens + RefillRate * e
    <3>1. CASE DueForRefill
      BY <1>4, <2>3, <3>1 DEF stored
    <3>2. CASE ~ DueForRefill
      <4>1. RefillRate * e \in Nat
        BY <1>2
      <4> QED  BY <1>2, <1>4, <3>2, <4>1
    <3> QED  BY <3>1, <3>2
  <2>5. RefillRate * (d + e) = RefillRate * d + RefillRate * e
    BY <1>2
  <2>6. stored + 50 - g = d + e /\ g < stored + 50
    BY <1>2, <1>5, <2>1, <2>2, <2>3
  <2>7. PICK x \in Nat, y \in Nat, k \in Nat :
          x = RefillRate * d /\ y = RefillRate * e /\ k = n - i + 1
    BY <1>2
  <2>8. (k + m) * 1000 <= BucketCapacity * 1000 + (x + y)
    <3>1. (k + tokens) * 1000 <= BucketCapacity * 1000 + x
      BY <2>1, <2>2, <2>7
    <3>2. 1000 * m <= 1000 * tokens + y
      BY <2>4, <2>7
    <3> QED  BY <1>2, <1>3, <3>1, <3>2
  <2> QED  BY <2>0, <2>5, <2>6, <2>7, <2>8
<1>11. PaidPart'
  <2>1. SUFFICES ASSUME NEW i \in 1..Len(grants')
                 PROVE  /\ grants'[i] < stored + 50
                        /\ (Len(grants') - i + 1 + tokens') * 1000
                             <= BucketCapacity * 1000 + RefillRate * (stored + 50 - grants'[i])
    BY <1>1 DEF PaidPart
  <2>2. CASE ~ (m >= 1)
    <3>1. grants' = grants /\ tokens' = m
      BY <1>1, <1>3, <2>2
    <3> QED  BY <1>10, <1>n, <2>1, <3>1
  <2>3. CASE m >= 1
    <3>1. /\ Len(grants') = n + 1 /\ grants'[n + 1] = clock
          /\ \A k \in 1..n : grants'[k] = grants[k]
      BY <1>1, <1>2, <1>3, <1>n, <2>3
    <3>4. tokens' = t
      BY <1>6
    <3>5. t + 1 = m
      BY <1>6, <2>3
    <3>6. m \in Nat
      BY <1>2
    <3>0. tokens' = t /\ t + 1 = m /\ m \in Nat
      BY <3>4, <3>5, <3>6
    <3>2. CASE i = n + 1
      <4>1. PICK d \in Nat : d = stored + 50 - clock
        BY <1>2, <1>5
      <4>2. RefillRate * d \in Nat
        BY <1>2
      <4>3. Len(grants') - i + 1 + t = m
        <5>1. Len(grants') - i + 1 = 1 /\ m \in Nat
          BY <1>2, <3>1, <3>2
        <5> QED  BY <3>0, <5>1
      <4>4. m * 1000 <= BucketCapacity * 1000 + RefillRate * d
        BY <1>2, <1>3, <4>2
      <4> QED  BY <1>5, <3>0, <3>1, <3>2, <4>1, <4>3, <4>4
    <3>3. CASE i # n + 1
      <4>1. i \in 1..n /\ grants'[i] = grants[i]
        BY <2>1, <3>1, <3>3
      <4>2. Len(grants') - i + 1 + t = n - i + 1 + m
        <5>1. Len(grants') - i + 1 = n - i + 1 + 1 /\ m \in Nat
          BY <1>2, <3>1, <4>1
        <5> QED  BY <3>0, <4>1, <5>1
      <4> QED  BY <1>10, <3>0, <4>1, <4>2
    <3> QED  BY <3>2, <3>3
  <2> QED  BY <2>2, <2>3
<1> QED  BY <1>7, <1>8, <1>9, <1>11 DEF BucketInv

LEMMA BucketInductive == BucketSpec => []BucketInv
<1>1. ASSUME BucketInv, Reset PROVE BucketInv'
  <2>1. grants = <<>>
    BY <1>1 DEF Reset, BucketInv
  <2> QED
    BY <1>1, <2>1, BucketAssumption
       DEF Reset, BucketInv, BucketTypeOK, PaidPart, SlowNeverRefused
<1>2. ASSUME BucketInv, NEW ms \in Pauses, Pause(ms) PROVE BucketInv'
  <2>1. /\ clock' = clock + ms /\ clock' <= MaxTime /\ ms \in Nat /\ clock \in Nat
        /\ UNCHANGED <<tokens, lastRefillTick, open, grants, lastCall>>
    BY <1>2, BucketAssumption DEF Pause, BucketInv, BucketTypeOK
  <2>2. 0..clock \subseteq 0..clock' /\ clock' \in 0..MaxTime
    BY <2>1, BucketAssumption
  <2>3. grants' \in Seq(0..clock')
    <3>1. PICK s \in Seq(0..clock) : s = grants
      BY <1>2 DEF BucketInv, BucketTypeOK
    <3>2. Len(s) \in Nat /\ s = [i \in 1..Len(s) |-> s[i]] /\ \A i \in 1..Len(s) : s[i] \in 0..clock
      BY <2>1, <3>1
    <3>4. \A i \in 1..Len(s) : s[i] \in 0..clock'
      BY <2>2, <3>2
    <3>3. [i \in 1..Len(s) |-> s[i]] \in Seq(0..clock')
      BY <3>2, <3>4
    <3> QED  BY <2>1, <3>1, <3>2, <3>3
  <2>4. BucketTypeOK'
    BY <1>2, <2>1, <2>2, <2>3 DEF BucketInv, BucketTypeOK
  <2> QED  BY <1>2, <2>1, <2>4 DEF BucketInv, PaidPart, SlowNeverRefused
<1>3. ASSUME BucketInv, UNCHANGED bucketVars PROVE BucketInv'
  BY <1>3 DEF bucketVars, BucketInv, BucketTypeOK, PaidPart, SlowNeverRefused
<1>4. BucketInv /\ [BucketNext]_bucketVars => BucketInv'
  BY <1>1, <1>2, <1>3, ConsumeKeeps DEF BucketNext
<1> QED  BY <1>4, BucketInvInit, PTL DEF BucketSpec

(* Since any grant the limiter has let through no more than a full bucket and *)
(* the rate give for the time and one refill interval; and it refuses no      *)
(* client that leaves 50 ms between its packets.                              *)
THEOREM TheRateBounds == BucketSpec => []RateBounded
<1>1. ASSUME BucketInv PROVE RateBounded
  <2>1. SUFFICES ASSUME NEW i \in 1..Len(grants)
                 PROVE  (Len(grants) - i + 1) * 1000
                          <= BucketCapacity * 1000 + RefillRate * (clock - grants[i] + 50)
    BY <1>1 DEF RateBounded, WindowBounded, BucketInv
  <2>2. /\ clock \in Nat /\ lastRefillTick \in Nat /\ lastRefillTick <= clock /\ tokens \in Nat
        /\ grants \in Seq(0..clock) /\ BucketCapacity \in Nat /\ RefillRate \in Nat
    BY <1>1, BucketAssumption DEF BucketInv, BucketTypeOK
  <2>3. PICK g \in Nat, k \in Nat : g = grants[i] /\ k = Len(grants) - i + 1
    <3>1. Len(grants) \in Nat /\ grants[i] \in 0..clock
      BY <2>2
    <3>2. Len(grants) - i + 1 \in Nat /\ grants[i] \in Nat
      BY <2>2, <3>1
    <3> QED  BY <3>2
  <2>4. /\ g < lastRefillTick + 50
        /\ (k + tokens) * 1000 <= BucketCapacity * 1000 + RefillRate * (lastRefillTick + 50 - g)
    BY <1>1, <2>3 DEF BucketInv, PaidPart
  <2>5. PICK d \in Nat, e \in Nat : d = lastRefillTick + 50 - g /\ e = clock - g + 50 /\ d <= e
    BY <2>2, <2>4
  <2>6. RefillRate * d <= RefillRate * e /\ RefillRate * d \in Nat /\ RefillRate * e \in Nat
    BY <2>2, <2>5, Monotone
  <2>7. k * 1000 <= BucketCapacity * 1000 + RefillRate * e
    BY <2>2, <2>4, <2>5, <2>6
  <2> QED  BY <2>3, <2>5, <2>7
<1> QED  BY <1>1, BucketInductive, PTL

-----------------------------------------------------------------------------
(* The thread pool.                                                           *)
HeldTasks == {task[w] : w \in {v \in PoolWorkers : worker[v] = "taken"}}

TaskPart ==
  /\ \A w \in PoolWorkers : worker[w] \in {"taken", "busy"} <=> task[w] # NoTask
  /\ \A t \in accepted : t[2] <= producer[t[1]].calls
  /\ \A k \in 1..Len(queued) : /\ queued[k] \in accepted /\ runs[queued[k]] = 0
                               /\ queued[k] \notin HeldTasks
                               /\ \A l \in 1..(k - 1) : queued[l] # queued[k]
  /\ \A w \in PoolWorkers : worker[w] = "taken" =>
       /\ task[w] \in accepted /\ runs[task[w]] = 0
       /\ \A v \in PoolWorkers : worker[v] = "taken" /\ task[v] = task[w] => v = w
  /\ \A t \in Tasks : runs[t] = 0 \/ (runs[t] = 1 /\ t \in accepted)
  /\ \A t \in accepted : \/ runs[t] = 1
                         \/ \E k \in 1..Len(queued) : queued[k] = t
                         \/ t \in HeldTasks

BusyPart == busyThreads = Cardinality({w \in PoolWorkers : worker[w] = "busy"})

ControlPart ==
  /\ control = "launch" => ~ stopping /\ starts > 0
  /\ control \in {"notify", "join"} => stopping
  /\ \A w \in PoolWorkers : worker[w] = "gone" => /\ stopping /\ queued = <<>>
                                                  /\ control \in {"notify", "join"}
  /\ starts = 0 => Launched = {}
  /\ starts > 0 /\ control = "out" /\ stopping => Launched = {} /\ queued = <<>>
  /\ starts > 0 /\ control \in {"notify", "join"} => Launched = PoolWorkers /\ PoolWorkers # {}
  /\ starts > 0 /\ control = "out" /\ ~ stopping => Launched = PoolWorkers /\ PoolWorkers # {}

PoolInv == PoolTypeOK /\ TaskPart /\ BusyPart /\ ControlPart
LEMMA NoTaskIsNone == NoTask \notin Tasks
BY DEF NoTask, Tasks

(* A step that moves no task.                                                 *)
LEMMA TasksFrame ==
  ASSUME PoolInv, UNCHANGED <<queued, task, accepted, runs, busyThreads>>,
         \A p \in Producers : producer'[p].calls = producer[p].calls \/
                              producer'[p].calls = producer[p].calls + 1,
         \A w \in PoolWorkers : \/ worker'[w] = worker[w]
                                \/ worker[w] \notin {"taken", "busy"} /\ worker'[w] \notin {"taken", "busy"}
  PROVE  TaskPart' /\ BusyPart'
<1>1. HeldTasks' = HeldTasks
  BY DEF HeldTasks
<1>2. {w \in PoolWorkers : worker'[w] = "busy"} = {w \in PoolWorkers : worker[w] = "busy"}
  OBVIOUS
<1>3. BusyPart'
  BY <1>2 DEF BusyPart, PoolInv
<1>4. \A t \in accepted : t \in Tasks
  BY DEF PoolInv, PoolTypeOK
<1>5. \A p \in Producers : producer[p].calls \in Nat
  BY PoolAssumption DEF PoolInv, PoolTypeOK
<1>6. \A t \in accepted' : t[2] <= producer'[t[1]].calls
  <2> SUFFICES ASSUME NEW t \in accepted PROVE t[2] <= producer'[t[1]].calls
    OBVIOUS
  <2>1. t[1] \in Producers /\ t[2] \in Nat
    BY <1>4 DEF Tasks
  <2>2. t[2] <= producer[t[1]].calls
    BY DEF PoolInv, TaskPart
  <2> QED  BY <1>5, <2>1, <2>2
<1>7. TaskPart'
  BY <1>1, <1>6 DEF PoolInv, TaskPart
<1> QED  BY <1>3, <1>7

LEMMA EnqueueKeepsTasks ==
  ASSUME PoolInv, NEW p \in Producers, Enqueue(p)
  PROVE  TaskPart' /\ BusyPart'
<1>0. /\ producer \in [Producers -> [at : {"out", "notify"}, calls : 0..MaxTasks]]
      /\ queued \in Seq(Tasks) /\ accepted \subseteq Tasks /\ MaxTasks \in Nat
  BY PoolAssumption DEF PoolInv, PoolTypeOK
<1>1. CASE stopping
  <2>1. \A q \in Producers : producer'[q].calls = producer[q].calls \/
                             producer'[q].calls = producer[q].calls + 1
    BY <1>0, <1>1 DEF Enqueue
  <2> QED  BY <1>1, <2>1, TasksFrame DEF Enqueue
<1>2. CASE ~ stopping
  <2>1. PICK t : t = <<p, producer[p].calls + 1>>
    OBVIOUS
  <2>2. /\ queued' = Append(queued, t) /\ accepted' = accepted \cup {t}
        /\ UNCHANGED <<worker, task, runs, busyThreads>>
        /\ \A q \in Producers \ {p} : producer'[q].calls = producer[q].calls
        /\ producer'[p].calls = producer[p].calls + 1
        /\ producer[p].calls \in Nat /\ producer[p].calls < MaxTasks
    BY <1>0, <1>2, <2>1 DEF Enqueue
  <2>3. t \in Tasks
    BY <1>0, <2>1, <2>2 DEF Tasks
  <2>4. t \notin accepted
    BY <2>1, <2>2 DEF PoolInv, TaskPart
  <2>5. HeldTasks' = HeldTasks /\ HeldTasks \subseteq accepted
    BY <2>2 DEF HeldTasks, PoolInv, TaskPart
  <2>6. /\ Len(queued) \in Nat /\ Len(queued') = Len(queued) + 1
        /\ \A k \in 1..Len(queued) : queued'[k] = queued[k]
        /\ queued'[Len(queued) + 1] = t
    BY <1>0, <2>2, <2>3, AppendProperties
  <2>7. runs[t] = 0
    BY <2>3, <2>4 DEF PoolInv, TaskPart
  <2>8. \A u \in accepted' : u[2] <= producer'[u[1]].calls
    <3> SUFFICES ASSUME NEW u \in accepted' PROVE u[2] <= producer'[u[1]].calls
      OBVIOUS
    <3>1. CASE u = t
      BY <2>1, <2>2, <3>1
    <3>2. CASE u # t
      <4>1. u \in accepted /\ u[1] \in Producers /\ u[2] \in Nat
        BY <1>0, <2>2, <3>2 DEF Tasks
      <4>2. u[2] <= producer[u[1]].calls /\ producer[u[1]].calls \in Nat
        BY <1>0, <4>1 DEF PoolInv, TaskPart
      <4> QED  BY <2>2, <4>1, <4>2
    <3> QED  BY <3>1, <3>2
  <2>9. ASSUME NEW k \in 1..Len(queued')
        PROVE  /\ queued'[k] \in accepted' /\ runs[queued'[k]] = 0
               /\ queued'[k] \notin HeldTasks
               /\ \A l \in 1..(k - 1) : queued'[l] # queued'[k]
    <3>1. CASE k \in 1..Len(queued)
      <4>1. queued'[k] = queued[k] /\ \A l \in 1..(k - 1) : queued'[l] = queued[l]
        BY <2>6, <3>1
      <4> QED  BY <2>2, <3>1, <4>1 DEF PoolInv, TaskPart
    <3>2. CASE k = Len(queued) + 1
      <4>1. queued'[k] = t /\ \A l \in 1..(k - 1) : queued'[l] = queued[l] /\ queued[l] \in accepted
        BY <2>6, <3>2 DEF PoolInv, TaskPart
      <4> QED  BY <2>2, <2>4, <2>5, <2>7, <4>1
    <3>3. k \in 1..Len(queued) \/ k = Len(queued) + 1
      BY <2>6
    <3> QED  BY <3>1, <3>2, <3>3
  <2>10. ASSUME NEW u \in accepted'
         PROVE  \/ runs[u] = 1 \/ (\E k \in 1..Len(queued') : queued'[k] = u) \/ u \in HeldTasks
    <3>1. CASE u = t
      <4>1. Len(queued) + 1 \in 1..Len(queued')
        BY <2>6
      <4> QED  BY <2>6, <3>1, <4>1
    <3>2. CASE u # t
      <4>1. u \in accepted
        BY <2>2, <3>2
      <4>2. 1..Len(queued) \subseteq 1..Len(queued')
        BY <2>6
      <4> QED  BY <2>6, <4>1, <4>2 DEF PoolInv, TaskPart
    <3> QED  BY <3>1, <3>2
  <2>11. /\ \A w \in PoolWorkers : worker'[w] \in {"taken", "busy"} <=> task'[w] # NoTask
         /\ \A w \in PoolWorkers : worker'[w] = "taken" =>
              /\ task'[w] \in accepted' /\ runs'[task'[w]] = 0
              /\ \A v \in PoolWorkers : worker'[v] = "taken" /\ task'[v] = task'[w] => v = w
         /\ \A u \in Tasks : runs'[u] = 0 \/ (runs'[u] = 1 /\ u \in accepted')
    BY <2>2 DEF PoolInv, TaskPart
  <2>12. TaskPart'
    BY <2>2, <2>5, <2>8, <2>9, <2>10, <2>11 DEF TaskPart
  <2>13. BusyPart'
    BY <2>2 DEF BusyPart, PoolInv
  <2> QED  BY <2>12, <2>13
<1> QED  BY <1>1, <1>2

LEMMA TakeTaskKeepsTasks ==
  ASSUME PoolInv, NEW w \in PoolWorkers, TakeTask(w)
  PROVE  TaskPart' /\ BusyPart'
<1>1. PICK t : t = Head(queued)
  OBVIOUS
<1>2. /\ worker[w] = "test" /\ worker' = [worker EXCEPT ![w] = "taken"]
      /\ task' = [task EXCEPT ![w] = t] /\ queued' = Tail(queued) /\ queued # <<>>
      /\ UNCHANGED <<busyThreads, producer, accepted, runs>>
  BY <1>1 DEF TakeTask
<1>3. /\ queued \in Seq(Tasks) /\ accepted \subseteq Tasks
      /\ task \in [PoolWorkers -> Tasks \cup {NoTask}]
      /\ worker \in [PoolWorkers -> {"none", "test", "wait", "taken", "busy", "gone"}]
  BY DEF PoolInv, PoolTypeOK
<1>4. /\ Len(queued) \in Nat \ {0} /\ t = queued[1] /\ t \in Tasks
      /\ Len(queued') = Len(queued) - 1
      /\ \A k \in 1..(Len(queued) - 1) : queued'[k] = queued[k + 1]
  BY <1>1, <1>2, <1>3
<1>5. t \in accepted /\ runs[t] = 0 /\ t \notin HeldTasks
  BY <1>4 DEF PoolInv, TaskPart
<1>6. HeldTasks' = HeldTasks \cup {t}
  BY <1>2, <1>3 DEF HeldTasks
<1>7. ASSUME NEW k \in 1..Len(queued')
      PROVE  /\ queued'[k] \in accepted /\ runs[queued'[k]] = 0
             /\ queued'[k] \notin HeldTasks'
             /\ \A l \in 1..(k - 1) : queued'[l] # queued'[k]
  <2>1. k \in 1..(Len(queued) - 1) /\ k + 1 \in 1..Len(queued) /\ queued'[k] = queued[k + 1]
    BY <1>4
  <2>2. /\ queued[k + 1] \in accepted /\ runs[queued[k + 1]] = 0 /\ queued[k + 1] \notin HeldTasks
        /\ \A l \in 1..((k + 1) - 1) : queued[l] # queued[k + 1]
    BY <2>1 DEF PoolInv, TaskPart
  <2>3. queued[k + 1] # t
    BY <1>4, <2>1, <2>2
  <2>4. ASSUME NEW l \in 1..(k - 1) PROVE queued'[l] # queued'[k]
    <3>1. l + 1 \in 1..((k + 1) - 1) /\ l \in 1..(Len(queued) - 1)
      BY <1>4, <2>1
    <3> QED  BY <1>4, <2>1, <2>2, <3>1
  <2> QED  BY <1>6, <2>1, <2>2, <2>3, <2>4
<1>8. ASSUME NEW v \in PoolWorkers, worker'[v] = "taken"
      PROVE  /\ task'[v] \in accepted /\ runs[task'[v]] = 0
             /\ \A u \in PoolWorkers : worker'[u] = "taken" /\ task'[u] = task'[v] => u = v
  <2>1. \A u \in PoolWorkers \ {w} : worker'[u] = worker[u] /\ task'[u] = task[u]
    BY <1>2, <1>3
  <2>2. task'[w] = t /\ worker'[w] = "taken"
    BY <1>2, <1>3
  <2>3. \A u \in PoolWorkers \ {w} : worker[u] = "taken" => task[u] # t
    BY <1>5 DEF HeldTasks
  <2>4. CASE v = w
    BY <1>5, <2>1, <2>2, <2>3, <2>4
  <2>5. CASE v # w
    BY <1>8, <2>1, <2>2, <2>3, <2>5 DEF PoolInv, TaskPart
  <2> QED  BY <2>4, <2>5
<1>9. ASSUME NEW u \in accepted
      PROVE  \/ runs[u] = 1 \/ (\E k \in 1..Len(queued') : queued'[k] = u) \/ u \in HeldTasks'
  <2>1. CASE u = t
    BY <1>6, <2>1
  <2>2. ASSUME u # t, NEW k \in 1..Len(queued), queued[k] = u
        PROVE  \E l \in 1..Len(queued') : queued'[l] = u
    <3>1. k - 1 \in 1..Len(queued') /\ (k - 1) + 1 = k
      BY <1>4, <2>2
    <3> QED  BY <1>4, <2>2, <3>1
  <2> QED  BY <1>6, <2>1, <2>2 DEF PoolInv, TaskPart
<1>10. \A v \in PoolWorkers : worker'[v] \in {"taken", "busy"} <=> task'[v] # NoTask
  BY <1>2, <1>3, <1>4, NoTaskIsNone DEF PoolInv, TaskPart
<1>11. /\ \A u \in accepted' : u[2] <= producer'[u[1]].calls
       /\ \A u \in Tasks : runs'[u] = 0 \/ (runs'[u] = 1 /\ u \in accepted')
  BY <1>2 DEF PoolInv, TaskPart
<1>12. TaskPart'
  <2>1. accepted' = accepted /\ runs' = runs
    BY <1>2
  <2>2. \A v \in PoolWorkers : worker'[v] = "taken" =>
          /\ task'[v] \in accepted' /\ runs'[task'[v]] = 0
          /\ \A u \in PoolWorkers : worker'[u] = "taken" /\ task'[u] = task'[v] => u = v
    BY <1>8, <2>1
  <2>3. \A u \in accepted' : \/ runs'[u] = 1
                             \/ \E k \in 1..Len(queued') : queued'[k] = u
                             \/ u \in HeldTasks'
    BY <1>9, <2>1
  <2> QED  BY <1>7, <1>10, <1>11, <2>1, <2>2, <2>3 DEF TaskPart
<1>13. {v \in PoolWorkers : worker'[v] = "busy"} = {v \in PoolWorkers : worker[v] = "busy"}
  BY <1>2, <1>3
<1> QED  BY <1>2, <1>12, <1>13 DEF BusyPart, PoolInv

LEMMA RunTaskKeepsTasks ==
  ASSUME PoolInv, NEW w \in PoolWorkers, RunTask(w)
  PROVE  TaskPart' /\ BusyPart'
<1>1. PICK t : t = task[w]
  OBVIOUS
<1>2. /\ worker[w] = "taken" /\ worker' = [worker EXCEPT ![w] = "busy"]
      /\ busyThreads' = busyThreads + 1 /\ runs' = [runs EXCEPT ![t] = @ + 1]
      /\ UNCHANGED <<queued, task, producer, accepted>>
  BY <1>1 DEF RunTask
<1>3. /\ accepted \subseteq Tasks /\ queued \in Seq(Tasks) /\ runs \in [Tasks -> Nat]
      /\ worker \in [PoolWorkers -> {"none", "test", "wait", "taken", "busy", "gone"}]
      /\ IsFiniteSet(PoolWorkers)
  BY PoolAssumption DEF PoolInv, PoolTypeOK
<1>4. /\ t \in accepted /\ t \in Tasks /\ runs[t] = 0 /\ t \in HeldTasks
      /\ \A v \in PoolWorkers : worker[v] = "taken" /\ task[v] = t => v = w
  BY <1>1, <1>2, <1>3 DEF PoolInv, TaskPart, HeldTasks
<1>5. HeldTasks' = HeldTasks \ {t}
  BY <1>1, <1>2, <1>3, <1>4 DEF HeldTasks
<1>6. runs'[t] = 1 /\ \A u \in Tasks : u # t => runs'[u] = runs[u]
  BY <1>2, <1>3, <1>4
<1>7. ASSUME NEW k \in 1..Len(queued)
      PROVE  /\ queued[k] \in accepted /\ runs'[queued[k]] = 0 /\ queued[k] \notin HeldTasks'
             /\ \A l \in 1..(k - 1) : queued[l] # queued[k]
  <2>1. /\ queued[k] \in accepted /\ runs[queued[k]] = 0 /\ queued[k] \notin HeldTasks
        /\ \A l \in 1..(k - 1) : queued[l] # queued[k]
    BY DEF PoolInv, TaskPart
  <2> QED  BY <1>3, <1>4, <1>5, <1>6, <2>1
<1>8. ASSUME NEW v \in PoolWorkers, worker'[v] = "taken"
      PROVE  /\ task[v] \in accepted /\ runs'[task[v]] = 0
             /\ \A u \in PoolWorkers : worker'[u] = "taken" /\ task[u] = task[v] => u = v
  <2>1. v # w /\ worker[v] = "taken" /\ \A u \in PoolWorkers : worker'[u] = "taken" => worker[u] = "taken"
    BY <1>2, <1>3, <1>8
  <2>2. /\ task[v] \in accepted /\ runs[task[v]] = 0
        /\ \A u \in PoolWorkers : worker[u] = "taken" /\ task[u] = task[v] => u = v
    BY <2>1 DEF PoolInv, TaskPart
  <2>3. task[v] # t
    BY <1>4, <2>1
  <2> QED  BY <1>3, <1>6, <2>1, <2>2, <2>3
<1>9. \A u \in Tasks : runs'[u] = 0 \/ (runs'[u] = 1 /\ u \in accepted)
  BY <1>4, <1>6 DEF PoolInv, TaskPart
<1>10. \A u \in accepted : \/ runs'[u] = 1 \/ (\E k \in 1..Len(queued) : queued[k] = u) \/ u \in HeldTasks'
  BY <1>3, <1>5, <1>6 DEF PoolInv, TaskPart
<1>11. \A v \in PoolWorkers : worker'[v] \in {"taken", "busy"} <=> task[v] # NoTask
  BY <1>2, <1>3 DEF PoolInv, TaskPart
<1>12. \A u \in accepted' : u[2] <= producer'[u[1]].calls
  BY <1>2 DEF PoolInv, TaskPart
<1>13. TaskPart'
  BY <1>2, <1>7, <1>8, <1>9, <1>10, <1>11, <1>12 DEF TaskPart
<1>14. BusyPart'
  <2> DEFINE B == {v \in PoolWorkers : worker[v] = "busy"}
  <2>1. IsFiniteSet(B)
    BY <1>3, FS_Subset
  <2>2. w \notin B /\ {v \in PoolWorkers : worker'[v] = "busy"} = B \cup {w}
    BY <1>2, <1>3
  <2>3. Cardinality(B \cup {w}) = Cardinality(B) + 1
    BY <2>1, <2>2, FS_AddElement
  <2>4. busyThreads = Cardinality(B)
    BY DEF PoolInv, BusyPart
  <2> QED  BY <1>2, <2>2, <2>3, <2>4 DEF BusyPart
<1> QED  BY <1>13, <1>14

LEMMA TaskDoneKeepsTasks ==
  ASSUME PoolInv, NEW w \in PoolWorkers, TaskDone(w)
  PROVE  TaskPart' /\ BusyPart'
<1>1. /\ worker[w] = "busy" /\ worker' = [worker EXCEPT ![w] = "test"]
      /\ busyThreads' = busyThreads - 1 /\ task' = [task EXCEPT ![w] = NoTask]
      /\ UNCHANGED <<queued, runs, producer, accepted>>
  BY DEF TaskDone
<1>2. /\ worker \in [PoolWorkers -> {"none", "test", "wait", "taken", "busy", "gone"}]
      /\ task \in [PoolWorkers -> Tasks \cup {NoTask}] /\ IsFiniteSet(PoolWorkers)
  BY PoolAssumption DEF PoolInv, PoolTypeOK
<1>3. \A v \in PoolWorkers : worker'[v] = "taken" <=> worker[v] = "taken"
  BY <1>1, <1>2
<1>4. \A v \in PoolWorkers : worker[v] = "taken" => task'[v] = task[v]
  BY <1>1, <1>2
<1>5. HeldTasks' = HeldTasks
  BY <1>3, <1>4 DEF HeldTasks
<1>6. \A v \in PoolWorkers : worker'[v] \in {"taken", "busy"} <=> task'[v] # NoTask
  BY <1>1, <1>2 DEF PoolInv, TaskPart
<1>7. \A v \in PoolWorkers : worker'[v] = "taken" =>
        /\ task'[v] \in accepted /\ runs[task'[v]] = 0
        /\ \A u \in PoolWorkers : worker'[u] = "taken" /\ task'[u] = task'[v] => u = v
  BY <1>3, <1>4 DEF PoolInv, TaskPart
<1>8. TaskPart'
  BY <1>1, <1>5, <1>6, <1>7 DEF PoolInv, TaskPart
<1>9. BusyPart'
  <2> DEFINE B == {v \in PoolWorkers : worker[v] = "busy"}
  <2>1. IsFiniteSet(B)
    BY <1>2, FS_Subset
  <2>2. w \in B /\ {v \in PoolWorkers : worker'[v] = "busy"} = B \ {w}
    BY <1>1, <1>2
  <2>3. Cardinality(B \ {w}) = Cardinality(B) - 1
    BY <2>1, <2>2, FS_RemoveElement
  <2>4. busyThreads = Cardinality(B)
    BY DEF PoolInv, BusyPart
  <2> QED  BY <1>1, <2>2, <2>3, <2>4 DEF BusyPart
<1> QED  BY <1>8, <1>9

LEMMA TasksKept == PoolInv /\ [PoolNext]_poolVars => TaskPart' /\ BusyPart'
<1> SUFFICES ASSUME PoolInv, [PoolNext]_poolVars PROVE TaskPart' /\ BusyPart'
  OBVIOUS
<1>0. /\ worker \in [PoolWorkers -> {"none", "test", "wait", "taken", "busy", "gone"}]
      /\ producer \in [Producers -> [at : {"out", "notify"}, calls : 0..MaxTasks]]
  BY DEF PoolInv, PoolTypeOK
<1>1. ASSUME UNCHANGED <<queued, task, accepted, runs, busyThreads, producer>>,
             \A w \in PoolWorkers : \/ worker'[w] = worker[w]
                                    \/ worker[w] \notin {"taken", "busy"} /\ worker'[w] \notin {"taken", "busy"}
      PROVE  TaskPart' /\ BusyPart'
  BY <1>1, TasksFrame
<1>2. CASE Start \/ Stop \/ UNCHANGED poolVars
  BY <1>1, <1>2 DEF Start, Stop, poolVars
<1>3. ASSUME NEW w \in PoolWorkers, Launch(w) \/ Wait(w) \/ Leave(w) \/ WakeUp(w)
      PROVE  TaskPart' /\ BusyPart'
  BY <1>0, <1>1, <1>3 DEF Launch, Wait, Leave, WakeUp
<1>4. CASE StopNotify
  BY <1>0, <1>1, <1>4 DEF StopNotify
<1>5. CASE StopJoin
  BY <1>0, <1>1, <1>5 DEF StopJoin, Launched
<1>6. ASSUME NEW p \in Producers, NotifyOne(p) PROVE TaskPart' /\ BusyPart'
  <2>1. \A q \in Producers : producer'[q].calls = producer[q].calls
    BY <1>0, <1>6 DEF NotifyOne
  <2>2. \A w \in PoolWorkers : \/ worker'[w] = worker[w]
                               \/ worker[w] \notin {"taken", "busy"} /\ worker'[w] \notin {"taken", "busy"}
    BY <1>0, <1>6 DEF NotifyOne
  <2> QED  BY <1>6, <2>1, <2>2, TasksFrame DEF NotifyOne
<1> QED
  BY <1>2, <1>3, <1>4, <1>5, <1>6, EnqueueKeepsTasks, TakeTaskKeepsTasks, RunTaskKeepsTasks,
     TaskDoneKeepsTasks DEF PoolNext, ControlStep, WorkerStep

LEMMA ControlKept == PoolInv /\ [PoolNext]_poolVars => ControlPart'
<1> SUFFICES ASSUME PoolInv, [PoolNext]_poolVars PROVE ControlPart'
  OBVIOUS
<1>0. /\ worker \in [PoolWorkers -> {"none", "test", "wait", "taken", "busy", "gone"}]
      /\ control \in {"out", "launch", "notify", "join"} /\ starts \in Nat /\ stopping \in BOOLEAN
      /\ queued \in Seq(Tasks)
      /\ ControlPart
  BY PoolAssumption DEF PoolInv, PoolTypeOK
<1>1. \A w \in PoolWorkers : worker[w] = "gone" => w \in Launched
  BY DEF Launched
<1>2. ASSUME NEW w \in PoolWorkers, worker[w] \in {"test", "wait", "taken", "busy"}
      PROVE  /\ starts > 0 /\ ~ (control = "out" /\ stopping)
             /\ control \in {"notify", "join"} => stopping
             /\ control = "launch" => ~ stopping
  <2>1. w \in Launched
    BY <1>2 DEF Launched
  <2> QED  BY <1>0, <2>1 DEF ControlPart
<1>3. ASSUME UNCHANGED <<stopping, control, starts, queued>>, Launched' = Launched,
             \A w \in PoolWorkers : worker'[w] = "gone" => worker[w] = "gone"
      PROVE  ControlPart'
  BY <1>0, <1>3 DEF ControlPart
<1>4. CASE Start
  <2>1. Launched' = Launched /\ Launched = {}
    BY <1>4 DEF Start, Launched
  <2> QED  BY <1>0, <1>1, <1>4, <2>1 DEF Start, ControlPart
<1>5. CASE Stop
  <2>1. Launched' = Launched
    BY <1>5 DEF Stop, Launched
  <2> QED  BY <1>0, <1>5, <2>1 DEF Stop, ControlPart
<1>6. ASSUME NEW w \in PoolWorkers, Launch(w) PROVE ControlPart'
  <2>1. /\ control = "launch" /\ ~ stopping /\ starts > 0
        /\ \A v \in PoolWorkers : worker[v] # "gone" /\ worker'[v] # "gone"
        /\ UNCHANGED <<stopping, starts, queued>>
    BY <1>0, <1>6 DEF Launch, ControlPart
  <2>2. Launched' = Launched \cup {w}
    BY <1>0, <1>6 DEF Launch, Launched
  <2>3. control' = IF Launched' = PoolWorkers THEN "out" ELSE "launch"
    BY <1>6, <2>2 DEF Launch
  <2> QED  BY <2>1, <2>2, <2>3 DEF ControlPart
<1>7. CASE StopNotify
  <2>1. Launched' = Launched /\ \A w \in PoolWorkers : worker'[w] = "gone" => worker[w] = "gone"
    BY <1>0, <1>7 DEF StopNotify, Launched
  <2> QED  BY <1>0, <1>7, <2>1 DEF StopNotify, ControlPart
<1>8. CASE StopJoin
  <2>1. Launched' = {} /\ (\A w \in PoolWorkers : worker'[w] # "gone")
    BY <1>8 DEF StopJoin, Launched
  <2>2. starts > 0 => queued = <<>>
    <3>1. ASSUME starts > 0 PROVE queued = <<>>
      <4>1. PICK w \in PoolWorkers : w \in Launched
        BY <1>0, <1>8, <3>1 DEF StopJoin, ControlPart
      <4>2. worker[w] = "gone"
        BY <1>8, <4>1 DEF StopJoin
      <4> QED  BY <1>0, <4>2 DEF ControlPart
    <3> QED  BY <3>1
  <2>3. /\ control' = "out" /\ UNCHANGED <<stopping, starts, queued>> /\ stopping
    BY <1>0, <1>8 DEF StopJoin, ControlPart
  <2> QED  BY <1>0, <2>1, <2>2, <2>3 DEF ControlPart
<1>9. ASSUME NEW p \in Producers, Enqueue(p) PROVE ControlPart'
  <2>1. Launched' = Launched /\ UNCHANGED <<stopping, control, starts, worker>>
    BY <1>9 DEF Enqueue, Launched
  <2>2. queued' = queued \/ ~ stopping
    BY <1>9 DEF Enqueue
  <2> QED  BY <1>0, <2>1, <2>2 DEF ControlPart
<1>10. ASSUME NEW p \in Producers, NotifyOne(p) PROVE ControlPart'
  <2>1. \A w \in PoolWorkers : worker'[w] = worker[w] \/ (worker[w] = "wait" /\ worker'[w] = "test")
    BY <1>0, <1>10 DEF NotifyOne
  <2>2. Launched' = Launched /\ \A w \in PoolWorkers : worker'[w] = "gone" => worker[w] = "gone"
    BY <2>1 DEF Launched
  <2> QED  BY <1>3, <1>10, <2>2 DEF NotifyOne
<1>11. ASSUME NEW w \in PoolWorkers, Wait(w) \/ WakeUp(w) \/ RunTask(w) \/ TaskDone(w)
       PROVE  ControlPart'
  <2>1. \A v \in PoolWorkers : \/ worker'[v] = worker[v]
                               \/ worker[v] # "none" /\ worker'[v] \in {"wait", "test", "busy"}
    BY <1>0, <1>11 DEF Wait, WakeUp, RunTask, TaskDone
  <2>2. Launched' = Launched /\ \A v \in PoolWorkers : worker'[v] = "gone" => worker[v] = "gone"
    BY <2>1 DEF Launched
  <2> QED  BY <1>3, <1>11, <2>2 DEF Wait, WakeUp, RunTask, TaskDone
<1>12. ASSUME NEW w \in PoolWorkers, Leave(w) PROVE ControlPart'
  <2>1. /\ worker[w] = "test" /\ stopping /\ queued = <<>> /\ UNCHANGED <<stopping, control, starts, queued>>
        /\ \A v \in PoolWorkers \ {w} : worker'[v] = worker[v]
        /\ worker'[w] = "gone"
    BY <1>0, <1>12 DEF Leave
  <2>2. Launched' = Launched
    BY <2>1 DEF Launched
  <2>3. control \in {"notify", "join"}
    BY <1>0, <1>2, <2>1
  <2> QED  BY <1>0, <2>1, <2>2, <2>3 DEF ControlPart
<1>13. ASSUME NEW w \in PoolWorkers, TakeTask(w) PROVE ControlPart'
  <2>1. /\ worker[w] = "test" /\ queued # <<>> /\ UNCHANGED <<stopping, control, starts>>
        /\ \A v \in PoolWorkers \ {w} : worker'[v] = worker[v]
        /\ worker'[w] = "taken"
    BY <1>0, <1>13 DEF TakeTask
  <2>2. Launched' = Launched /\ w \in Launched
    BY <2>1 DEF Launched
  <2>3. ~ (starts > 0 /\ control = "out" /\ stopping)
    BY <1>2, <2>1
  <2>4. \A v \in PoolWorkers : worker'[v] # "gone"
    BY <1>0, <2>1 DEF ControlPart
  <2> QED  BY <1>0, <2>1, <2>2, <2>3, <2>4 DEF ControlPart
<1>14. CASE UNCHANGED poolVars
  BY <1>3, <1>14 DEF poolVars, Launched
<1> QED
  BY <1>4, <1>5, <1>6, <1>7, <1>8, <1>9, <1>10, <1>11, <1>12, <1>13, <1>14
     DEF PoolNext, ControlStep, WorkerStep

LEMMA PoolTypesKept == PoolInv /\ [PoolNext]_poolVars => PoolTypeOK'
<1> SUFFICES ASSUME PoolInv, [PoolNext]_poolVars PROVE PoolTypeOK'
  OBVIOUS
<1>0. /\ stopping \in BOOLEAN /\ queued \in Seq(Tasks)
      /\ worker \in [PoolWorkers -> {"none", "test", "wait", "taken", "busy", "gone"}]
      /\ task \in [PoolWorkers -> Tasks \cup {NoTask}]
      /\ control \in {"out", "launch", "notify", "join"}
      /\ producer \in [Producers -> [at : {"out", "notify"}, calls : 0..MaxTasks]]
      /\ starts \in 0..MaxStarts /\ accepted \subseteq Tasks /\ runs \in [Tasks -> Nat]
      /\ MaxTasks \in Nat /\ MaxStarts \in Nat /\ IsFiniteSet(PoolWorkers)
  BY PoolAssumption DEF PoolInv, PoolTypeOK
<1>1. busyThreads' \in 0..Cardinality(PoolWorkers)
  <2> DEFINE B == {v \in PoolWorkers : worker'[v] = "busy"}
  <2>1. B \in SUBSET PoolWorkers
    OBVIOUS
  <2>2. IsFiniteSet(B) /\ Cardinality(B) <= Cardinality(PoolWorkers)
    BY <1>0, <2>1, FS_Subset
  <2>3. Cardinality(B) \in Nat /\ Cardinality(PoolWorkers) \in Nat
    BY <1>0, <2>2, FS_CardinalityType
  <2>4. busyThreads' = Cardinality(B)
    BY TasksKept DEF BusyPart
  <2> QED  BY <2>2, <2>3, <2>4
<1>2. CASE Start \/ Stop \/ UNCHANGED poolVars
  <2>1. CASE Start
    <3>1. starts' \in 0..MaxStarts
      BY <1>0, <2>1 DEF Start
    <3>2. control' = "launch" /\ stopping' = FALSE
      BY <2>1 DEF Start
    <3> QED  BY <1>0, <1>1, <2>1, <3>1, <3>2 DEF Start, PoolTypeOK
  <2>2. CASE Stop
    <3>1. control' = "notify" /\ stopping' = TRUE
      BY <2>2 DEF Stop
    <3> QED  BY <1>0, <1>1, <2>2, <3>1 DEF Stop, PoolTypeOK
  <2>3. CASE UNCHANGED poolVars
    BY <1>0, <1>1, <2>3 DEF poolVars, PoolTypeOK
  <2> QED  BY <1>2, <2>1, <2>2, <2>3
<1>3. ASSUME NEW w \in PoolWorkers, Launch(w) \/ Wait(w) \/ WakeUp(w) \/ Leave(w)
      PROVE  PoolTypeOK'
  BY <1>0, <1>1, <1>3 DEF Launch, Wait, WakeUp, Leave, PoolTypeOK
<1>4. CASE StopNotify \/ StopJoin
  BY <1>0, <1>1, <1>4 DEF StopNotify, StopJoin, PoolTypeOK
<1>5. ASSUME NEW p \in Producers, Enqueue(p) PROVE PoolTypeOK'
  <2>1. PICK t : t = <<p, producer[p].calls + 1>>
    OBVIOUS
  <2>2. producer[p].calls + 1 \in 1..MaxTasks /\ t \in Tasks
    BY <1>0, <1>5, <2>1 DEF Enqueue, Tasks
  <2>3. producer' \in [Producers -> [at : {"out", "notify"}, calls : 0..MaxTasks]]
    <3>1. PICK n \in 0..MaxTasks : n = producer[p].calls + 1
      BY <2>2
    <3>2. /\ [producer[p] EXCEPT !.calls = n] \in [at : {"out", "notify"}, calls : 0..MaxTasks]
          /\ [producer[p] EXCEPT !.calls = n, !.at = "notify"]
               \in [at : {"out", "notify"}, calls : 0..MaxTasks]
      BY <1>0
    <3>3. \/ producer' = [producer EXCEPT ![p] = [producer[p] EXCEPT !.calls = n]]
          \/ producer' = [producer EXCEPT ![p] = [producer[p] EXCEPT !.calls = n, !.at = "notify"]]
      <4>1. CASE stopping
        BY <1>0, <1>5, <3>1, <4>1 DEF Enqueue
      <4>2. CASE ~ stopping
        BY <1>0, <1>5, <3>1, <4>2 DEF Enqueue
      <4> QED  BY <4>1, <4>2
    <3> QED  BY <1>0, <3>2, <3>3
  <2>4. queued' \in Seq(Tasks) /\ accepted' \subseteq Tasks
    <3>1. Append(queued, t) \in Seq(Tasks) /\ accepted \cup {t} \subseteq Tasks
      BY <1>0, <2>2, AppendProperties
    <3> QED  BY <1>0, <1>5, <2>1, <3>1 DEF Enqueue
  <2> QED  BY <1>0, <1>1, <1>5, <2>3, <2>4 DEF Enqueue, PoolTypeOK
<1>6. ASSUME NEW p \in Producers, NotifyOne(p) PROVE PoolTypeOK'
  <2>1. producer' \in [Producers -> [at : {"out", "notify"}, calls : 0..MaxTasks]]
    BY <1>0, <1>6 DEF NotifyOne
  <2>2. worker' \in [PoolWorkers -> {"none", "test", "wait", "taken", "busy", "gone"}]
    BY <1>0, <1>6 DEF NotifyOne
  <2> QED  BY <1>0, <1>1, <1>6, <2>1, <2>2 DEF NotifyOne, PoolTypeOK
<1>7. ASSUME NEW w \in PoolWorkers, TakeTask(w) PROVE PoolTypeOK'
  <2>1. Head(queued) \in Tasks /\ Tail(queued) \in Seq(Tasks)
    BY <1>0, <1>7, HeadTailProperties DEF TakeTask
  <2> QED  BY <1>0, <1>1, <1>7, <2>1 DEF TakeTask, PoolTypeOK
<1>8. ASSUME NEW w \in PoolWorkers, RunTask(w) PROVE PoolTypeOK'
  <2>1. task[w] \in Tasks
    BY <1>0, <1>8 DEF RunTask, PoolInv, TaskPart
  <2> QED  BY <1>0, <1>1, <1>8, <2>1 DEF RunTask, PoolTypeOK
<1>9. ASSUME NEW w \in PoolWorkers, TaskDone(w) PROVE PoolTypeOK'
  BY <1>0, <1>1, <1>9 DEF TaskDone, PoolTypeOK
<1> QED
  BY <1>2, <1>3, <1>4, <1>5, <1>6, <1>7, <1>8, <1>9 DEF PoolNext, ControlStep, WorkerStep

LEMMA PoolInvInit == PoolInit => PoolInv
<1> SUFFICES ASSUME PoolInit PROVE PoolInv
  OBVIOUS
<1>1. \A w \in PoolWorkers : worker[w] = "none" /\ task[w] = NoTask
  BY DEF PoolInit
<1>2. {w \in PoolWorkers : worker[w] = "busy"} = {} /\ HeldTasks = {} /\ Launched = {}
  BY <1>1 DEF HeldTasks, Launched
<1>3. PoolTypeOK
  <2>1. 0 \in 0..Cardinality(PoolWorkers) /\ 0 \in 0..MaxStarts /\ 0 \in 0..MaxTasks
    BY PoolAssumption, FS_CardinalityType
  <2>2. <<>> \in Seq(Tasks)
    OBVIOUS
  <2> QED  BY <2>1, <2>2 DEF PoolInit, PoolTypeOK
<1>4. TaskPart
  BY <1>1, <1>2 DEF PoolInit, TaskPart
<1>5. BusyPart
  BY <1>2, FS_EmptySet DEF PoolInit, BusyPart
<1>6. ControlPart
  BY <1>1, <1>2 DEF PoolInit, ControlPart
<1> QED  BY <1>3, <1>4, <1>5, <1>6 DEF PoolInv

LEMMA PoolInductive == PoolSpec => []PoolInv
<1>1. PoolInv /\ [PoolNext]_poolVars => PoolInv'
  BY PoolTypesKept, TasksKept, ControlKept DEF PoolInv
<1> QED  BY <1>1, PoolInvInit, PTL DEF PoolSpec

(* Stop returns only when every accepted task has run once: none is lost in   *)
(* the queue or with a worker, and none runs twice.                           *)
THEOREM TheStoppedPoolIsDrained == PoolSpec => []StopDrains
<1>1. ASSUME PoolInv PROVE StopDrains
  <2>1. ASSUME stopping, control = "out", starts > 0
        PROVE  /\ queued = <<>> /\ busyThreads = 0
               /\ \A t \in Tasks : runs[t] = IF t \in accepted THEN 1 ELSE 0
    <3>1. Launched = {} /\ queued = <<>>
      BY <1>1, <2>1 DEF PoolInv, ControlPart
    <3>2. \A w \in PoolWorkers : worker[w] = "none"
      BY <3>1 DEF Launched
    <3>3. {w \in PoolWorkers : worker[w] = "busy"} = {} /\ HeldTasks = {}
      BY <3>2 DEF HeldTasks
    <3>4. busyThreads = 0
      BY <1>1, <3>3, FS_EmptySet DEF PoolInv, BusyPart
    <3>5. Len(queued) = 0
      BY <3>1
    <3>6. ASSUME NEW t \in Tasks PROVE runs[t] = IF t \in accepted THEN 1 ELSE 0
      BY <1>1, <3>3, <3>5 DEF PoolInv, TaskPart
    <3> QED  BY <3>1, <3>4, <3>6
  <2> QED  BY <1>1, <2>1 DEF StopDrains, PoolInv
<1> QED  BY <1>1, PoolInductive, PTL

-----------------------------------------------------------------------------
(* The ring buffer.                                                           *)
ContentOf(b, r, w) == Load(b, r, DataSize(r, w))

LEMMA LoadPartsBytes ==
  \A buf \in [Cells -> Bytes], r \in Cells, m \in 0..Capacity : \A n \in 0..m :
    /\ Load(buf, r, m) \in Seq(Bytes) /\ Len(Load(buf, r, m)) = m
    /\ Load(buf, r, n) = SubSeq(Load(buf, r, m), 1, n)
    /\ Load(buf, Advance(r, n), m - n) = SubSeq(Load(buf, r, m), n + 1, m)
BY LoadPartsAll

LEMMA ContentIs ==
  ASSUME NEW b \in [Cells -> Bytes], NEW r \in Cells, NEW w \in Cells
  PROVE  /\ [k \in 1..DataSize(r, w) |-> b[Advance(r, k - 1)]] = ContentOf(b, r, w)
         /\ ContentOf(b, r, w) \in Seq(Bytes)
         /\ Len(ContentOf(b, r, w)) = DataSize(r, w)
         /\ Capacity - 1 - Len(ContentOf(b, r, w)) = FreeSize(r, w)
<1>1. PICK n \in 0..Capacity : n = DataSize(r, w)
  BY SizesAre
<1>2. Load(b, r, n) = [k \in 1..n |-> b[Advance(r, k - 1)]]
  <2>1. \A buf \in [Cells -> Bytes], p \in Cells, m \in 0..Capacity :
          Load(buf, p, m) = [k \in 1..m |-> buf[Advance(p, k - 1)]]
    BY LoadIsAll
  <2> QED  BY <2>1
<1>3. Load(b, r, n) \in Seq(Bytes) /\ Len(Load(b, r, n)) = n
  <2>1. n \in Nat /\ 0 \in 0..n
    BY CapacityAssumption
  <2>2. b \in [Cells -> Bytes] /\ r \in Cells /\ n \in 0..Capacity
    OBVIOUS
  <2>3. \A m \in 0..Capacity : \A i \in 0..m : Load(b, r, m) \in Seq(Bytes) /\ Len(Load(b, r, m)) = m
    BY <2>2, LoadPartsBytes
  <2> QED  BY <2>1, <2>2, <2>3
<1> QED  BY <1>1, <1>2, <1>3 DEF ContentOf, FreeSize

(* Both ways to write append to the content.                                  *)
LEMMA WriteAppends ==
  ASSUME TypeOK, NEW data \in Seq(Bytes), Len(data) <= FreeSize(readPos, writePos)
  PROVE  /\ Store(buffer, writePos, data) \in [Cells -> Bytes]
         /\ Advance(writePos, Len(data)) \in Cells
         /\ ContentOf(Store(buffer, writePos, data), readPos, Advance(writePos, Len(data)))
              = ContentOf(buffer, readPos, writePos) \o data
<1>1. buffer \in [Cells -> Bytes] /\ readPos \in Cells /\ writePos \in Cells
  BY DEF TypeOK
<1>2. /\ Len(data) \in Nat /\ Len(data) \in 0..Capacity /\ Len(data) <= Capacity
      /\ FreeSize(readPos, writePos) \in 0..(Capacity - 1) /\ Capacity \in Nat
  BY <1>1, SizesAre, SMTT(30)
<1>3. DataSize(readPos, Advance(writePos, Len(data))) = DataSize(readPos, writePos) + Len(data)
  BY <1>1, <1>2, SizesMove
<1>4. Load(Store(buffer, writePos, data), readPos, DataSize(readPos, writePos) + Len(data))
        = Load(buffer, readPos, DataSize(readPos, writePos)) \o data
  BY <1>1, LoadAfterStore
<1>5. Store(buffer, writePos, data) \in [Cells -> Bytes]
  BY <1>1, <1>2, StoreIs
<1>6. Advance(writePos, Len(data)) \in Cells
  BY <1>1, <1>2, AdvanceIs
<1> QED  BY <1>3, <1>4, <1>5, <1>6 DEF ContentOf

(* The spans to write to, and the first bytes of the content.                 *)
LEMMA SpansOffer ==
  ASSUME TypeOK, NEW max \in 0..Capacity
  PROVE  /\ SpanTotal(GetWriteSpan(readPos, writePos, max)) = Limited(FreeSize(readPos, writePos), max)
         /\ SpanCells(GetWriteSpan(readPos, writePos, max))
              = {Advance(writePos, k) : k \in 0..(Limited(FreeSize(readPos, writePos), max) - 1)}
         /\ Segment(GetWriteSpan(readPos, writePos, max), writePos,
                    Limited(FreeSize(readPos, writePos), max))
         /\ Limited(FreeSize(readPos, writePos), max) \in 0..FreeSize(readPos, writePos)
         /\ Limited(FreeSize(readPos, writePos), max) \in 0..Capacity
<1>1. /\ readPos \in Cells /\ writePos \in Cells /\ Capacity \in Nat /\ max \in Nat
      /\ FreeSize(readPos, writePos) \in 0..(Capacity - 1)
  BY SizesAre DEF TypeOK
<1>2. PICK T : T = Limited(FreeSize(readPos, writePos), max)
  OBVIOUS
<1>3. T \in 0..FreeSize(readPos, writePos) /\ T \in 0..Capacity
  BY <1>1, <1>2, LimitIs
<1>4. Segment(GetWriteSpan(readPos, writePos, max), writePos, T)
  BY <1>1, <1>2, WriteSpanIs
<1> QED  BY <1>1, <1>2, <1>3, <1>4, SegmentIs

LEMMA FirstBytes ==
  ASSUME TypeOK, NEW n \in 0..DataSize(readPos, writePos)
  PROVE  /\ Load(buffer, readPos, n) = SubSeq(ContentOf(buffer, readPos, writePos), 1, n)
         /\ Load(buffer, readPos, n) \in Seq(Bytes)
         /\ Advance(readPos, n) \in Cells
         /\ ContentOf(buffer, Advance(readPos, n), writePos)
              = SubSeq(ContentOf(buffer, readPos, writePos), n + 1, DataSize(readPos, writePos))
<1>1. /\ buffer \in [Cells -> Bytes] /\ readPos \in Cells /\ writePos \in Cells
      /\ DataSize(readPos, writePos) \in 0..(Capacity - 1) /\ Capacity \in Nat \ {0}
  BY SizesAre DEF TypeOK
<1>2. PICK m \in 0..Capacity : m = DataSize(readPos, writePos) /\ n \in 0..m
  BY <1>1
<1>3. /\ n \in Nat /\ n <= m /\ n \in 0..Capacity
  BY <1>1, <1>2
<1>4. /\ Load(buffer, readPos, n) = SubSeq(Load(buffer, readPos, m), 1, n)
      /\ Load(buffer, Advance(readPos, n), m - n) = SubSeq(Load(buffer, readPos, m), n + 1, m)
  <2>1. PICK buf \in [Cells -> Bytes], r \in Cells : buf = buffer /\ r = readPos
    BY <1>1
  <2>2. /\ Load(buf, r, n) = SubSeq(Load(buf, r, m), 1, n)
        /\ Load(buf, Advance(r, n), m - n) = SubSeq(Load(buf, r, m), n + 1, m)
    BY <1>2, <2>1, LoadPartsBytes
  <2> QED  BY <2>1, <2>2
<1>5. Load(buffer, readPos, n) \in Seq(Bytes)
  <2>1. n \in 0..n
    BY <1>3
  <2> QED  BY <1>1, <1>3, <2>1, LoadPartsBytes
<1>6. Advance(readPos, n) \in Cells
  BY <1>1, <1>3, AdvanceIs
<1>7. DataSize(Advance(readPos, n), writePos) = m - n
  BY <1>1, <1>2, <1>3, SizesMove
<1> QED  BY <1>2, <1>4, <1>5, <1>6, <1>7 DEF ContentOf

LEMMA RingInit == Init => TypeOK /\ Content = <<>>
<1> SUFFICES ASSUME Init PROVE TypeOK /\ Content = <<>>
  OBVIOUS
<1>1. 0 \in Cells /\ 0 \in 0..Capacity
  BY CapacityAssumption DEF Cells
<1>2. out = [op |-> "new", size |-> 0, ok |-> TRUE, data |-> <<>>]
  BY DEF Init, Outcome
<1>3. TypeOK
  BY <1>1, <1>2 DEF Init, TypeOK
<1>4. DataSize(readPos, writePos) = 0
  BY DEF Init, DataSize
<1> QED  BY <1>3, <1>4 DEF Content

(* What a step does to the content.                                           *)
LEMMA RingStep ==
  ASSUME TypeOK, [Next]_vars, Content = ContentOf(buffer, readPos, writePos)
  PROVE  TypeOK' /\ [Fifo!Next]_(Fifo!vars)
<1> DEFINE D == DataSize(readPos, writePos)
           F == FreeSize(readPos, writePos)
<1>1. /\ buffer \in [Cells -> Bytes] /\ readPos \in Cells /\ writePos \in Cells
      /\ D \in 0..(Capacity - 1) /\ F \in 0..(Capacity - 1) /\ Capacity \in Nat \ {0}
      /\ Content \in Seq(Bytes) /\ Len(Content) = D /\ Capacity - 1 - Len(Content) = F
      /\ D <= Capacity /\ 0 \in 0..Capacity /\ Capacity - 1 + 1 = Capacity
  <2>1. buffer \in [Cells -> Bytes] /\ readPos \in Cells /\ writePos \in Cells
    BY DEF TypeOK
  <2>2. D \in 0..(Capacity - 1) /\ F \in 0..(Capacity - 1) /\ Capacity \in Nat \ {0}
    BY <2>1, SizesAre
  <2>3. Content \in Seq(Bytes) /\ Len(Content) = D /\ Capacity - 1 - Len(Content) = F
    BY <2>1, ContentIs
  <2> QED  BY <2>1, <2>2, <2>3
<1>2. ASSUME buffer' \in [Cells -> Bytes], readPos' \in Cells, writePos' \in Cells
      PROVE  Content' = ContentOf(buffer', readPos', writePos')
  BY <1>2, ContentIs DEF Content
<1>0. /\ <<>> \in Seq(Bytes) /\ TRUE \in BOOLEAN
  OBVIOUS
<1>3. ASSUME buffer' \in [Cells -> Bytes], readPos' \in Cells, writePos' \in Cells
      PROVE  \A op \in {"new", "write", "offer", "extend", "peek", "read", "move", "view", "clear"},
                size \in 0..Capacity, ok \in BOOLEAN, d \in Seq(Bytes) :
               out' = Outcome(op, size, ok, d) => TypeOK'
  BY <1>3 DEF Outcome, TypeOK
<1>4. ASSUME NEW n \in 0..Capacity, NEW data \in [1..n -> Bytes]
      PROVE  data \in Seq(Bytes) /\ Len(data) = n /\ (data # <<>> <=> n > 0)
  <2>1. n \in Nat
    BY <1>1
  <2> QED  BY <2>1
<1>5. ASSUME NEW n \in 0..Capacity, NEW data \in [1..n -> Bytes], Write(data)
      PROVE  TypeOK' /\ Fifo!Put(data)
  <2>1. data \in Seq(Bytes) /\ Len(data) = n /\ (data # <<>> <=> n > 0) /\ n \in Nat
    BY <1>1, <1>4
  <2>2. (Fits(n) <=> data # <<>> /\ n <= F) /\ Fits(n) \in BOOLEAN
    BY <2>1 DEF Fits
  <2>3. out' = Outcome("write", n, Fits(n), <<>>)
    BY <1>5, <2>1 DEF Write
  <2>4. CASE Fits(n)
    <3>1. writePos' = Advance(writePos, n)
      <4>1. writePos' = IF writePos + n <= Capacity THEN Advance(writePos, n)
                                                    ELSE n - (Capacity - writePos)
        BY <1>5, <2>1, <2>4 DEF Write
      <4>2. ~ (writePos + n <= Capacity) => Advance(writePos, n) = n - (Capacity - writePos)
        <5>1. writePos \in Nat /\ writePos < Capacity
          BY <1>1 DEF Cells
        <5> QED  BY <1>1, <2>1, <5>1, AdvanceIs
      <4> QED  BY <4>1, <4>2
    <3>2. buffer' = Store(buffer, writePos, data) /\ readPos' = readPos
      BY <1>5, <2>1, <2>4 DEF Write
    <3>3. /\ buffer' \in [Cells -> Bytes] /\ writePos' \in Cells /\ readPos' \in Cells
          /\ ContentOf(buffer', readPos', writePos') = Content \o data
      BY <1>1, <2>1, <2>2, <2>4, <3>1, <3>2, WriteAppends
    <3>4. Content' = Content \o data
      BY <1>2, <3>3
    <3>5. TypeOK'
      BY <1>0, <1>3, <2>2, <2>3, <3>3
    <3> QED  BY <1>1, <2>1, <2>2, <2>3, <2>4, <3>4, <3>5 DEF Fifo!Put, Fifo!Free, Fifo!Outcome, Outcome
  <2>5. CASE ~ Fits(n)
    <3>1. UNCHANGED <<buffer, readPos, writePos>>
      BY <1>5, <2>1, <2>5 DEF Write
    <3>2. Content' = Content
      BY <3>1 DEF Content
    <3>3. TypeOK'
      BY <1>0, <1>1, <1>3, <2>2, <2>3, <3>1
    <3> QED  BY <1>1, <2>1, <2>2, <2>3, <2>5, <3>2, <3>3 DEF Fifo!Put, Fifo!Free, Fifo!Outcome, Outcome
  <2> QED  BY <2>4, <2>5
<1>6. ASSUME NEW n \in 0..Capacity, NEW data \in [1..n -> Bytes], NEW max \in 0..(Capacity - 1),
             Receive(max, data)
      PROVE  TypeOK' /\ Fifo!Offer(max, data)
  <2>1. data \in Seq(Bytes) /\ Len(data) = n /\ (data # <<>> <=> n > 0) /\ n \in Nat
    BY <1>1, <1>4
  <2>2. max \in 0..Capacity /\ max \in Nat
    BY <1>1
  <2>3. PICK T \in 0..Capacity : T = Limited(F, max)
    BY <2>2, SpansOffer
  <2>4. /\ T \in 0..F /\ SpanTotal(GetWriteSpan(readPos, writePos, max)) = T
        /\ Segment(GetWriteSpan(readPos, writePos, max), writePos, T)
    BY <2>2, <2>3, SpansOffer
  <2>5. /\ n <= T /\ n > 0 /\ out' = Outcome("offer", T, TRUE, <<>>)
        /\ buffer' = Scatter(buffer, GetWriteSpan(readPos, writePos, max), data)
        /\ writePos' = Advance(writePos, n) /\ readPos' = readPos
    BY <1>6, <2>1, <2>4 DEF Receive, Fits
  <2>6. buffer' = Store(buffer, writePos, data)
    BY <1>1, <2>1, <2>4, <2>5, ScatterIs
  <2>7. n <= F
    BY <1>1, <2>1, <2>4, <2>5
  <2>8. /\ buffer' \in [Cells -> Bytes] /\ writePos' \in Cells /\ readPos' \in Cells
        /\ ContentOf(buffer', readPos', writePos') = Content \o data
    BY <1>1, <2>1, <2>5, <2>6, <2>7, WriteAppends
  <2>9. Content' = Content \o data
    BY <1>2, <2>8
  <2>10. TypeOK'
    BY <1>0, <1>1, <1>3, <2>5, <2>8
  <2>11. T = IF max > 0 /\ max < F THEN max ELSE F
    <3>1. F \in Nat
      BY <1>1
    <3> QED  BY <2>2, <2>3, <3>1, LimitIsAll
  <2> QED  BY <1>1, <2>1, <2>5, <2>9, <2>10, <2>11 DEF Fifo!Offer, Fifo!Free, Fifo!AtMost, Fifo!Outcome, Outcome
<1>7. ASSUME NEW n \in 0..Capacity
      PROVE  /\ Holds(n) \in BOOLEAN /\ (Holds(n) <=> n > 0 /\ n <= Len(Content))
             /\ Holds(n) => /\ Load(buffer, readPos, n) = SubSeq(Content, 1, n)
                            /\ Load(buffer, readPos, n) \in Seq(Bytes)
                            /\ Advance(readPos, n) \in Cells
                            /\ ContentOf(buffer, Advance(readPos, n), writePos)
                                 = SubSeq(Content, n + 1, Len(Content))
  <2>1. Holds(n) \in BOOLEAN /\ (Holds(n) <=> n > 0 /\ n <= Len(Content))
    BY <1>1 DEF Holds
  <2>2. ASSUME Holds(n) PROVE n \in 0..D
    BY <1>1, <2>1, <2>2
  <2> QED  BY <1>1, <2>1, <2>2, FirstBytes
<1>8. ASSUME NEW n \in 0..Capacity, Peek(n) PROVE TypeOK' /\ Fifo!Get("peek", n, FALSE)
  <2>1. /\ UNCHANGED <<buffer, readPos, writePos>>
        /\ out' = Outcome("peek", n, Holds(n), IF Holds(n) THEN SubSeq(Content, 1, n) ELSE <<>>)
        /\ (IF Holds(n) THEN SubSeq(Content, 1, n) ELSE <<>>) \in Seq(Bytes)
    <3>1. CASE Holds(n)
      BY <1>7, <1>8, <3>1 DEF Peek
    <3>2. CASE ~ Holds(n)
      BY <1>0, <1>8, <3>2 DEF Peek
    <3> QED  BY <3>1, <3>2
  <2>2. TypeOK'
    BY <1>0, <1>1, <1>3, <1>7, <2>1
  <2>3. Content' = Content
    BY <2>1 DEF Content
  <2> QED  BY <1>7, <2>1, <2>2, <2>3 DEF Fifo!Get, Fifo!First, Fifo!Outcome, Outcome
<1>9. ASSUME NEW n \in 0..Capacity, readPos' = IF Holds(n) THEN Advance(readPos, n) ELSE readPos,
             UNCHANGED <<buffer, writePos>>
      PROVE  /\ readPos' \in Cells /\ writePos' \in Cells /\ buffer' \in [Cells -> Bytes]
             /\ Content' = IF Holds(n) THEN SubSeq(Content, n + 1, Len(Content)) ELSE Content
  <2>1. readPos' \in Cells /\ writePos' \in Cells /\ buffer' \in [Cells -> Bytes]
    BY <1>1, <1>7, <1>9
  <2>2. Content' = ContentOf(buffer', readPos', writePos')
    BY <1>2, <2>1
  <2> QED  BY <1>7, <1>9, <2>1, <2>2
<1>10. ASSUME NEW n \in 0..Capacity, Read(n) PROVE TypeOK' /\ Fifo!Get("read", n, TRUE)
  <2>1. /\ readPos' \in Cells /\ writePos' \in Cells /\ buffer' \in [Cells -> Bytes]
        /\ Content' = IF Holds(n) THEN SubSeq(Content, n + 1, Len(Content)) ELSE Content
    BY <1>9, <1>10 DEF Read
  <2>2. /\ out' = Outcome("read", n, Holds(n), IF Holds(n) THEN SubSeq(Content, 1, n) ELSE <<>>)
        /\ (IF Holds(n) THEN SubSeq(Content, 1, n) ELSE <<>>) \in Seq(Bytes)
    <3>1. CASE Holds(n)
      BY <1>7, <1>10, <3>1 DEF Read
    <3>2. CASE ~ Holds(n)
      BY <1>0, <1>10, <3>2 DEF Read
    <3> QED  BY <3>1, <3>2
  <2>3. TypeOK'
    BY <1>0, <1>3, <1>7, <2>1, <2>2
  <2> QED  BY <1>7, <2>1, <2>2, <2>3 DEF Fifo!Get, Fifo!First, Fifo!From, Fifo!Outcome, Outcome
<1>11. ASSUME NEW n \in 0..Capacity, MoveReadPos(n) PROVE TypeOK' /\ Fifo!Get("move", n, TRUE)
  <2>1. /\ readPos' \in Cells /\ writePos' \in Cells /\ buffer' \in [Cells -> Bytes]
        /\ Content' = IF Holds(n) THEN SubSeq(Content, n + 1, Len(Content)) ELSE Content
    BY <1>9, <1>11 DEF MoveReadPos
  <2>2. out' = Outcome("move", n, Holds(n), <<>>)
    BY <1>11 DEF MoveReadPos
  <2>3. TypeOK'
    BY <1>0, <1>3, <1>7, <2>1, <2>2
  <2> QED  BY <1>7, <2>1, <2>2, <2>3 DEF Fifo!Get, Fifo!First, Fifo!From, Fifo!Outcome, Outcome
<1>12. ASSUME NEW n \in 0..Capacity, View(n) PROVE TypeOK' /\ Fifo!View(n)
  <2>1. PICK T : T = Limited(D, n)
    OBVIOUS
  <2>2. /\ n \in Nat /\ T \in 0..D /\ T \in 0..Capacity
        /\ T = IF n > 0 /\ n < D THEN n ELSE D
    <3>1. n \in Nat /\ D \in Nat
      BY <1>1
    <3>2. T \in Nat /\ T <= D /\ T = IF n > 0 /\ n < D THEN n ELSE D
      BY <2>1, <3>1, LimitIsAll
    <3> QED  BY <1>1, <3>1, <3>2
  <2>3. Segment(GetReadSpan(readPos, writePos, n), readPos, T)
    BY <1>1, <2>1, <2>2, ReadSpanIs
  <2>4. Gather(buffer, GetReadSpan(readPos, writePos, n)) = Load(buffer, readPos, T)
    <3>1. \A t \in 0..Capacity, q \in {GetReadSpan(readPos, writePos, n)} :
            Segment(q, readPos, t) => Gather(buffer, q) = Load(buffer, readPos, t)
      BY <1>1, GatherIs
    <3> QED  BY <2>2, <2>3, <3>1
  <2>5. Load(buffer, readPos, T) = SubSeq(Content, 1, T) /\ Load(buffer, readPos, T) \in Seq(Bytes)
    BY <2>2, FirstBytes
  <2>6. /\ out' = Outcome("view", n, TRUE, SubSeq(Content, 1, T)) /\ SubSeq(Content, 1, T) \in Seq(Bytes)
        /\ UNCHANGED <<buffer, readPos, writePos>>
    BY <1>12, <2>4, <2>5 DEF View
  <2>7. TypeOK'
    BY <1>0, <1>1, <1>3, <2>6
  <2>8. Content' = Content
    BY <2>6 DEF Content
  <2> QED  BY <1>1, <2>2, <2>6, <2>7, <2>8 DEF Fifo!View, Fifo!First, Fifo!AtMost, Fifo!Outcome, Outcome
<1>16. ASSUME NEW n \in 0..Capacity, MoveTooFar(n) PROVE TypeOK' /\ Fifo!Refuse(n)
  <2>1. /\ UNCHANGED <<buffer, readPos, writePos>>
        /\ out' = Outcome("extend", n, FALSE, <<>>) /\ (n = 0 \/ n > F)
    <3>1. n \in Nat /\ F \in Nat
      BY <1>1
    <3>2. ~ (n > 0 /\ n <= F)
      BY <1>16 DEF MoveTooFar, Fits
    <3>3. UNCHANGED <<buffer, readPos, writePos>> /\ out' = Outcome("extend", n, FALSE, <<>>)
      BY <1>16 DEF MoveTooFar
    <3> HIDE DEF F
    <3> QED  BY <3>1, <3>2, <3>3
  <2>2. TypeOK'
    BY <1>0, <1>1, <1>3, <2>1
  <2>3. Content' = Content
    BY <2>1 DEF Content
  <2> QED  BY <1>1, <2>1, <2>2, <2>3 DEF Fifo!Refuse, Fifo!Free, Fifo!Outcome, Outcome
<1>13. CASE Clear
  <2>1. /\ readPos' = 0 /\ writePos' = 0 /\ buffer' = buffer
        /\ out' = Outcome("clear", 0, TRUE, <<>>) /\ 0 \in Cells
    BY <1>1, <1>13 DEF Clear, Cells
  <2>2. DataSize(readPos', writePos') = 0
    BY <2>1 DEF DataSize
  <2>3. Content' = <<>>
    BY <2>2 DEF Content
  <2>4. TypeOK'
    BY <1>0, <1>1, <1>3, <2>1
  <2>5. Fifo!Clear
    BY <2>1, <2>3 DEF Fifo!Clear, Fifo!Outcome, Outcome
  <2> QED  BY <2>4, <2>5 DEF Fifo!Next
<1>14. CASE UNCHANGED vars
  <2>1. UNCHANGED <<buffer, readPos, writePos, out>>
    BY <1>14 DEF vars
  <2> QED  BY <2>1 DEF TypeOK, Content, Fifo!vars
<1>15. CASE Next
  <2>1. CASE \E n \in 0..Capacity : \E data \in [1..n -> Bytes] :
                Write(data) \/ \E max \in 0..(Capacity - 1) : Receive(max, data)
    <3>1. PICK n \in 0..Capacity : \E data \in [1..n -> Bytes] :
                Write(data) \/ \E max \in 0..(Capacity - 1) : Receive(max, data)
      BY <2>1
    <3>2. PICK data \in [1..n -> Bytes] : Write(data) \/ \E max \in 0..(Capacity - 1) : Receive(max, data)
      BY <3>1
    <3>3. TypeOK' /\ (Fifo!Put(data) \/ \E max \in 0..(Capacity - 1) : Fifo!Offer(max, data))
      BY <1>5, <1>6, <3>2
    <3> QED  BY <1>1, <3>3 DEF Fifo!Next
  <2>2. ASSUME NEW n \in 0..Capacity, MoveTooFar(n) \/ Peek(n) \/ Read(n) \/ MoveReadPos(n) \/ View(n)
        PROVE  TypeOK' /\ Fifo!Next
    BY <1>1, <1>8, <1>10, <1>11, <1>12, <1>16, <2>2 DEF Fifo!Next
  <2> QED  BY <1>13, <1>15, <2>1, <2>2 DEF Next
<1> QED  BY <1>14, <1>15

LEMMA RingTyped == Spec => []TypeOK
<1>1. TypeOK /\ [Next]_vars => TypeOK'
  <2>1. ASSUME TypeOK PROVE Content = ContentOf(buffer, readPos, writePos)
    BY <2>1, ContentIs DEF TypeOK, Content
  <2> QED  BY <2>1, RingStep
<1> QED  BY <1>1, RingInit, PTL DEF Spec

(* The spans of the network never touch unread data and offer all the room    *)
(* there is, wherever the positions wrap.                                     *)
THEOREM TheRingIsSound == Spec => []RingSound
<1>1. ASSUME TypeOK PROVE RingSound
  <2>1. ASSUME NEW max \in 0..Capacity
        PROVE  LET spans == GetWriteSpan(readPos, writePos, max)
                   unread == {Advance(readPos, k) : k \in 0..(DataSize(readPos, writePos) - 1)}
               IN /\ SpanCells(spans) \cap unread = {}
                  /\ SpanTotal(spans) = Limited(FreeSize(readPos, writePos), max)
                  /\ writePos \notin unread
    <3> DEFINE spans == GetWriteSpan(readPos, writePos, max)
               D == DataSize(readPos, writePos)
               F == FreeSize(readPos, writePos)
               unread == {Advance(readPos, k) : k \in 0..(D - 1)}
    <3>1. /\ readPos \in Cells /\ writePos \in Cells /\ D \in Nat /\ F \in Nat /\ D + F = Capacity - 1
          /\ writePos = Advance(readPos, D) /\ Capacity \in Nat \ {0}
      BY <1>1, SizesAre DEF TypeOK
    <3>2. PICK T \in 0..F : /\ T = Limited(F, max) /\ SpanTotal(spans) = T
                            /\ SpanCells(spans) = {Advance(writePos, k) : k \in 0..(T - 1)}
      BY <1>1, SpansOffer
    <3> HIDE DEF D, F
    <3>3. ASSUME NEW j \in 0..F, NEW k \in 0..(D - 1) PROVE Advance(writePos, j) # Advance(readPos, k)
      <4>1. j \in Nat /\ D + j <= Capacity /\ D + j \in 0..(Capacity - 1) /\ k \in 0..(Capacity - 1)
            /\ D + j # k
        BY <3>1
      <4>2. Advance(writePos, j) = Advance(readPos, D + j)
        BY <3>1, <4>1, AdvanceTwice
      <4> QED  BY <3>1, <4>1, <4>2, Distance
    <3>4. SpanCells(spans) \cap unread = {}
      <4>1. \A j \in 0..(T - 1) : j \in 0..F
        BY <3>1, <3>2
      <4> QED  BY <3>2, <3>3, <4>1
    <3>5. writePos \notin unread
      <4>1. D \in 0..(Capacity - 1) /\ \A k \in 0..(D - 1) : k \in 0..(Capacity - 1) /\ k # D
        BY <3>1
      <4> QED  BY <3>1, <4>1, Distance
    <3> QED  BY <3>2, <3>4, <3>5 DEF D, F
  <2> QED  BY <1>1, <2>1 DEF RingSound, SpansAvoidData
<1> QED  BY <1>1, RingTyped, PTL

(* The ring buffer implements a first-in first-out queue of Capacity - 1      *)
(* bytes: every call, every step to a step or a stutter.                      *)
THEOREM TheRingIsAQueue == Spec => ImplementsFifo
<1>1. Init => Fifo!Init
  BY RingInit DEF Init, Fifo!Init, Fifo!Outcome, Outcome
<1>2. TypeOK /\ [Next]_vars => [Fifo!Next]_(Fifo!vars)
  <2>1. ASSUME TypeOK PROVE Content = ContentOf(buffer, readPos, writePos)
    BY <2>1, ContentIs DEF TypeOK, Content
  <2> QED  BY <2>1, RingStep
<1> QED  BY <1>1, <1>2, RingTyped, PTL DEF Spec, ImplementsFifo, Fifo!Spec
-----------------------------------------------------------------------------
(* The memory pools.  A block that is allocated is in one place: with the     *)
(* program, in one cache, in one list or in the hands of one call.            *)
InProgram(p) == \E u \in inUse : u.block = p
CachePlaces(p) == {d \in MemThreads \X Indices : p \in cache[d[1]][d[2]]}
PoolPlaces(p) == {c \in Classes : p \in pool[c]}
HandPlaces(p) == {t \in MemThreads : p \in Held(t)}

OnePlace(p) ==
  \/ /\ room[p] = 0 /\ ~ InProgram(p)
     /\ CachePlaces(p) = {} /\ PoolPlaces(p) = {} /\ HandPlaces(p) = {}
  \/ /\ room[p] # 0 /\ InProgram(p)
     /\ CachePlaces(p) = {} /\ PoolPlaces(p) = {} /\ HandPlaces(p) = {}
  \/ /\ room[p] # 0 /\ ~ InProgram(p)
     /\ (\E d \in CachePlaces(p) : CachePlaces(p) = {d}) /\ PoolPlaces(p) = {} /\ HandPlaces(p) = {}
  \/ /\ room[p] # 0 /\ ~ InProgram(p)
     /\ CachePlaces(p) = {} /\ (\E c \in PoolPlaces(p) : PoolPlaces(p) = {c}) /\ HandPlaces(p) = {}
  \/ /\ room[p] # 0 /\ ~ InProgram(p)
     /\ CachePlaces(p) = {} /\ PoolPlaces(p) = {} /\ (\E t \in HandPlaces(p) : HandPlaces(p) = {t})

PlacePart == /\ \A u, v \in inUse : u.block = v.block => u = v
             /\ \A p \in Blocks : OnePlace(p)

CallShapes ==
  {NotInCall}
    \cup [at : {"pop"}, block : Blocks, asked : {n \in AskedSizes : n <= MAX_ALLOC_SIZE}]
    \cup [at : {"flush", "last"}, block : Blocks, left : 0..BATCH_SIZE]
    \cup [at : {"push"}, block : Blocks, left : 0..BATCH_SIZE, flushed : Blocks]

MemTypes ==
  /\ room \in [Blocks -> Nat] /\ header = room
  /\ inUse \subseteq [block : Blocks, asked : AskedSizes]
  /\ cache \in [MemThreads -> [Indices -> SUBSET Blocks]]
  /\ pool \in [Classes -> SUBSET Blocks]
  /\ allocCount \in [Classes -> Nat] /\ useCount \in [Classes -> Int]
  /\ memCall \in [MemThreads -> CallShapes]

(* Wherever it is, a block has the size of the class it is kept under, ...    *)
SizeFor(n) == IF n > MAX_ALLOC_SIZE THEN n ELSE PoolSize(n)

CallHome(k) ==
  /\ k.at = "pop" => room[k.block] = PoolSize(k.asked)
  /\ k.at \in {"flush", "push", "last"} => room[k.block] \in Classes
  /\ k.at = "push" => /\ room[k.flushed] = room[k.block]
                         /\ k.flushed # k.block

HomePart ==
  /\ \A t \in MemThreads : \A i \in Indices : \A p \in cache[t][i] : room[p] \in Classes /\ PoolIdx(room[p]) = i
  /\ \A c \in Classes : \A p \in pool[c] : room[p] = c
  /\ \A u \in inUse : room[u.block] = SizeFor(u.asked)
  /\ \A t \in MemThreads : CallHome(memCall[t])

(* ... a flush makes room in its cache as it goes, ...                        *)
CallLimit(t) ==
  LET k == memCall[t]
  IN /\ k.at \in {"flush", "push", "last"} =>
          Cardinality(cache[t][PoolIdx(room[k.block])]) + BATCH_SIZE <= MAX_LOCAL_CACHE + k.left
     /\ k.at = "flush" => k.left > 0
     /\ k.at = "push" => k.left < BATCH_SIZE
     /\ k.at = "last" => k.left = 0

LimitPart ==
  \A t \in MemThreads : /\ \A i \in Indices : Cardinality(cache[t][i]) <= MAX_LOCAL_CACHE
                        /\ CallLimit(t)

(* ... and the counters of a class are behind by the calls that are moving a  *)
(* block of it between the list and a thread.                                 *)
Moves(c) == {t \in MemThreads : memCall[t].at \in {"pop", "push"} /\ room[memCall[t].block] = c}
MadeBlocks(c) == {p \in Blocks : room[p] = c}

CountPart ==
  \A c \in Classes : /\ allocCount[c] = Cardinality(MadeBlocks(c))
                     /\ useCount[c] = allocCount[c] - Cardinality(pool[c]) - Cardinality(Moves(c))

MemInv == MemTypes /\ HomePart /\ LimitPart /\ PlacePart /\ CountPart

(* The size classes: multiples of 32, 128 and 256, each with an index.        *)
ClassShape(c) == \/ \E k \in 1..32 : c = 32 * k
                 \/ \E k \in 9..16 : c = 128 * k
                 \/ \E k \in 9..16 : c = 256 * k

LEMMA RoundedUp ==
  ASSUME NEW n \in Nat \ {0}, n <= MAX_ALLOC_SIZE
  PROVE  ClassShape(PoolSize(n)) /\ n <= PoolSize(n)
<1>1. CASE n <= 1024
  <2> DEFINE k == (n + 32 - 1) \div 32
  <2>1. k \in 1..32 /\ n <= 32 * k /\ k * 32 = 32 * k
    BY <1>1
  <2>2. PoolSize(n) = k * 32
    BY <1>1 DEF PoolSize, RoundUp
  <2> HIDE DEF k
  <2> QED  BY <2>1, <2>2 DEF ClassShape
<1>2. CASE n > 1024 /\ n <= 2048
  <2> DEFINE k == (n + 128 - 1) \div 128
  <2>1. k \in 9..16 /\ n <= 128 * k /\ k * 128 = 128 * k
    BY <1>2
  <2>2. PoolSize(n) = k * 128
    BY <1>2 DEF PoolSize, RoundUp
  <2> HIDE DEF k
  <2> QED  BY <2>1, <2>2 DEF ClassShape
<1>3. CASE n > 2048
  <2> DEFINE k == (n + 256 - 1) \div 256
  <2>1. k \in 9..16 /\ n <= 256 * k /\ k * 256 = 256 * k
    BY <1>3 DEF MAX_ALLOC_SIZE
  <2>2. PoolSize(n) = k * 256
    BY <1>3 DEF PoolSize, RoundUp
  <2> HIDE DEF k
  <2> QED  BY <2>1, <2>2 DEF ClassShape
<1> QED  BY <1>1, <1>2, <1>3

LEMMA IndexIs ==
  ASSUME NEW c, ClassShape(c)
  PROVE  /\ c \in Nat /\ 0 < c /\ c <= MAX_ALLOC_SIZE /\ PoolIdx(c) \in 0..47
         /\ PoolIdx(c) < 32 => c = 32 * (PoolIdx(c) + 1)
         /\ PoolIdx(c) \in 32..39 => c = 128 * (PoolIdx(c) - 23)
         /\ PoolIdx(c) > 39 => c = 256 * (PoolIdx(c) - 31)
<1>1. CASE \E k \in 1..32 : c = 32 * k
  <2> PICK k \in 1..32 : c = 32 * k  BY <1>1
  <2>1. (32 * k) \div 32 = k
    OBVIOUS
  <2> QED  BY <2>1 DEF PoolIdx, MAX_ALLOC_SIZE
<1>2. CASE \E k \in 9..16 : c = 128 * k
  <2> PICK k \in 9..16 : c = 128 * k  BY <1>2
  <2>1. (128 * k - 1024) \div 128 = k - 8
    OBVIOUS
  <2> QED  BY <2>1 DEF PoolIdx, MAX_ALLOC_SIZE
<1>3. CASE \E k \in 9..16 : c = 256 * k
  <2> PICK k \in 9..16 : c = 256 * k  BY <1>3
  <2>1. (256 * k - 2048) \div 256 = k - 8
    OBVIOUS
  <2> QED  BY <2>1 DEF PoolIdx, MAX_ALLOC_SIZE
<1> QED  BY <1>1, <1>2, <1>3 DEF ClassShape

LEMMA ClassFacts ==
  /\ \A n \in AskedSizes : n <= MAX_ALLOC_SIZE =>
       PoolSize(n) \in Classes /\ n <= PoolSize(n) /\ PoolIdx(PoolSize(n)) \in Indices
  /\ \A c \in Classes : /\ c \in Nat /\ 0 < c /\ c <= MAX_ALLOC_SIZE
                        /\ PoolIdx(c) \in Indices /\ PoolIdx(c) \in 0..63
  /\ \A c, d \in Classes : PoolIdx(c) = PoolIdx(d) => c = d
<1>1. \A n \in AskedSizes : n \in Nat \ {0}
  BY MemAssumption
<1>2. \A c \in Classes : ClassShape(c)
  BY <1>1, RoundedUp DEF Classes
<1>3. \A c \in Classes : c \in Nat /\ 0 < c /\ c <= MAX_ALLOC_SIZE /\ PoolIdx(c) \in 0..47 /\ PoolIdx(c) \in Indices
  BY <1>2, IndexIs DEF Indices
<1>4. \A n \in AskedSizes : n <= MAX_ALLOC_SIZE => PoolSize(n) \in Classes /\ n <= PoolSize(n)
  BY <1>1, RoundedUp DEF Classes
<1>5. \A c \in Classes :
        /\ PoolIdx(c) < 32 => c = 32 * (PoolIdx(c) + 1)
        /\ PoolIdx(c) \in 32..39 => c = 128 * (PoolIdx(c) - 23)
        /\ PoolIdx(c) > 39 => c = 256 * (PoolIdx(c) - 31)
  BY <1>2, IndexIs
<1>6. ASSUME NEW c \in Classes, NEW d \in Classes, PoolIdx(c) = PoolIdx(d) PROVE c = d
  <2> PICK i \in 0..47 : i = PoolIdx(c)
    BY <1>3
  <2>1. i < 32 => c = 32 * (i + 1) /\ d = 32 * (i + 1)
    BY <1>5, <1>6
  <2>2. i \in 32..39 => c = 128 * (i - 23) /\ d = 128 * (i - 23)
    BY <1>5, <1>6
  <2>3. i > 39 => c = 256 * (i - 31) /\ d = 256 * (i - 31)
    BY <1>5, <1>6
  <2> QED  BY <2>1, <2>2, <2>3
<1> QED  BY <1>3, <1>4, <1>6

(* Counting blocks and threads.                                               *)
LEMMA CountBlocks ==
  \A S \in SUBSET Blocks : \A x :
    /\ Cardinality(S) \in Nat
    /\ Cardinality(S \cup {x}) = IF x \in S THEN Cardinality(S) ELSE Cardinality(S) + 1
    /\ Cardinality(S \ {x}) = IF x \in S THEN Cardinality(S) - 1 ELSE Cardinality(S)
<1> SUFFICES ASSUME NEW S \in SUBSET Blocks, NEW x
             PROVE  /\ Cardinality(S) \in Nat
                    /\ Cardinality(S \cup {x}) = IF x \in S THEN Cardinality(S) ELSE Cardinality(S) + 1
                    /\ Cardinality(S \ {x}) = IF x \in S THEN Cardinality(S) - 1 ELSE Cardinality(S)
  OBVIOUS
<1>1. IsFiniteSet(S)
  BY MemAssumption, FS_Subset
<1> QED  BY <1>1, FS_CardinalityType, FS_AddElement, FS_RemoveElement

LEMMA CountThreads ==
  \A S \in SUBSET MemThreads : \A x :
    /\ Cardinality(S) \in Nat
    /\ Cardinality(S \cup {x}) = IF x \in S THEN Cardinality(S) ELSE Cardinality(S) + 1
    /\ Cardinality(S \ {x}) = IF x \in S THEN Cardinality(S) - 1 ELSE Cardinality(S)
<1> SUFFICES ASSUME NEW S \in SUBSET MemThreads, NEW x
             PROVE  /\ Cardinality(S) \in Nat
                    /\ Cardinality(S \cup {x}) = IF x \in S THEN Cardinality(S) ELSE Cardinality(S) + 1
                    /\ Cardinality(S \ {x}) = IF x \in S THEN Cardinality(S) - 1 ELSE Cardinality(S)
  OBVIOUS
<1>1. IsFiniteSet(S)
  BY MemAssumption, FS_Subset
<1> QED  BY <1>1, FS_CardinalityType, FS_AddElement, FS_RemoveElement

LEMMA MemInitially == MemInit => MemInv
<1> SUFFICES ASSUME MemInit PROVE MemInv
  OBVIOUS
<1>1. MemTypes
  BY DEF MemInit, MemTypes, CallShapes
<1>2. HomePart
  BY DEF MemInit, HomePart, CallHome, NotInCall
<1>3. LimitPart
  <2>1. Cardinality({}) = 0
    BY FS_EmptySet
  <2> QED  BY <2>1, MemAssumption DEF MemInit, LimitPart, CallLimit, NotInCall
<1>4. PlacePart
  <2> SUFFICES ASSUME NEW p \in Blocks PROVE OnePlace(p)
    BY DEF MemInit, PlacePart
  <2>1. CachePlaces(p) = {} /\ PoolPlaces(p) = {} /\ HandPlaces(p) = {}
    BY DEF MemInit, CachePlaces, PoolPlaces, HandPlaces, Held, NotInCall
  <2> QED  BY <2>1 DEF MemInit, OnePlace, InProgram
<1>5. CountPart
  <2> SUFFICES ASSUME NEW c \in Classes
               PROVE  allocCount[c] = Cardinality(MadeBlocks(c)) /\
                      useCount[c] = allocCount[c] - Cardinality(pool[c]) - Cardinality(Moves(c))
    BY DEF CountPart
  <2>1. MadeBlocks(c) = {} /\ Moves(c) = {} /\ pool[c] = {}
    BY ClassFacts DEF MemInit, MadeBlocks, Moves, NotInCall
  <2> QED  BY <2>1, FS_EmptySet DEF MemInit
<1> QED  BY <1>1, <1>2, <1>3, <1>4, <1>5 DEF MemInv

(* What a block's place becomes when one cache, one list or one call changes. *)
Hold(k) == IF k.at = "idle" THEN {}
           ELSE IF k.at = "push" THEN {k.block, k.flushed} ELSE {k.block}

SetCache(t, i, S) == cache' = [cache EXCEPT ![t][i] = S]

LEMMA CacheMoves ==
  ASSUME MemTypes, NEW t \in MemThreads, NEW i \in Indices, NEW S \in SUBSET Blocks, SetCache(t, i, S)
  PROVE  /\ cache' \in [MemThreads -> [Indices -> SUBSET Blocks]]
         /\ cache'[t][i] = S
         /\ \A s \in MemThreads : \A j \in Indices : s # t \/ j # i => cache'[s][j] = cache[s][j]
         /\ \A q \in Blocks : /\ q \in S => CachePlaces(q)' = CachePlaces(q) \cup {<<t, i>>}
                              /\ q \notin S => CachePlaces(q)' = CachePlaces(q) \ {<<t, i>>}
                              /\ q \in cache[t][i] <=> <<t, i>> \in CachePlaces(q)
                              /\ (q \in S <=> q \in cache[t][i]) => CachePlaces(q)' = CachePlaces(q)
<1>1. /\ cache' \in [MemThreads -> [Indices -> SUBSET Blocks]] /\ cache'[t][i] = S
      /\ \A s \in MemThreads : \A j \in Indices : s # t \/ j # i => cache'[s][j] = cache[s][j]
  BY DEF MemTypes, SetCache
<1>2. ASSUME NEW q \in Blocks
      PROVE  /\ q \in S => CachePlaces(q)' = CachePlaces(q) \cup {<<t, i>>}
             /\ q \notin S => CachePlaces(q)' = CachePlaces(q) \ {<<t, i>>}
             /\ q \in cache[t][i] <=> <<t, i>> \in CachePlaces(q)
             /\ (q \in S <=> q \in cache[t][i]) => CachePlaces(q)' = CachePlaces(q)
  <2>1. \A s \in MemThreads : \A j \in Indices :
          <<s, j>> \in CachePlaces(q)' <=> q \in cache'[s][j]
    BY DEF CachePlaces
  <2>2. \A s \in MemThreads : \A j \in Indices :
          <<s, j>> \in CachePlaces(q) <=> q \in cache[s][j]
    BY DEF CachePlaces
  <2>3. /\ CachePlaces(q) \subseteq MemThreads \X Indices
        /\ CachePlaces(q)' \subseteq MemThreads \X Indices
    BY DEF CachePlaces
  <2>4. \A s \in MemThreads : \A j \in Indices : <<s, j>> = <<t, i>> <=> s = t /\ j = i
    OBVIOUS
  <2> DEFINE A == CachePlaces(q)
             B == CachePlaces(q)'
  <2> HIDE DEF A, B
  <2>5. \A s \in MemThreads : \A j \in Indices :
          <<s, j>> \in B <=> IF s = t /\ j = i THEN q \in S ELSE <<s, j>> \in A
    BY <1>1, <2>1, <2>2 DEF A, B
  <2>6. A \subseteq MemThreads \X Indices /\ B \subseteq MemThreads \X Indices
    BY <2>3 DEF A, B
  <2>7. ASSUME q \in S PROVE B = A \cup {<<t, i>>}
    <3>1. ASSUME NEW d \in MemThreads \X Indices PROVE d \in B <=> d \in A \cup {<<t, i>>}
      <4> PICK s \in MemThreads, j \in Indices : d = <<s, j>>
        OBVIOUS
      <4> QED  BY <2>4, <2>5, <2>7
    <3> QED  BY <2>6, <3>1
  <2>8. ASSUME q \notin S PROVE B = A \ {<<t, i>>}
    <3>1. ASSUME NEW d \in MemThreads \X Indices PROVE d \in B <=> d \in A \ {<<t, i>>}
      <4> PICK s \in MemThreads, j \in Indices : d = <<s, j>>
        OBVIOUS
      <4> QED  BY <2>4, <2>5, <2>8
    <3> QED  BY <2>6, <3>1
  <2>9. q \in cache[t][i] <=> <<t, i>> \in A
    BY <2>2 DEF A
  <2>10. (q \in S <=> q \in cache[t][i]) => B = A
    BY <2>7, <2>8, <2>9
  <2> QED  BY <2>7, <2>8, <2>9, <2>10 DEF A, B
<1> QED  BY <1>1, <1>2

SetPool(c, S) == pool' = [pool EXCEPT ![c] = S]

LEMMA PoolMoves ==
  ASSUME MemTypes, NEW c \in Classes, NEW S \in SUBSET Blocks, SetPool(c, S)
  PROVE  /\ pool' \in [Classes -> SUBSET Blocks] /\ pool'[c] = S
         /\ \A d \in Classes : d # c => pool'[d] = pool[d]
         /\ \A q \in Blocks : /\ q \in S => PoolPlaces(q)' = PoolPlaces(q) \cup {c}
                              /\ q \notin S => PoolPlaces(q)' = PoolPlaces(q) \ {c}
                              /\ q \in pool[c] <=> c \in PoolPlaces(q)
                              /\ (q \in S <=> q \in pool[c]) => PoolPlaces(q)' = PoolPlaces(q)
<1>1. pool' \in [Classes -> SUBSET Blocks] /\ pool'[c] = S /\ \A d \in Classes : d # c => pool'[d] = pool[d]
  BY DEF MemTypes, SetPool
<1>2. ASSUME NEW q \in Blocks
      PROVE  /\ q \in S => PoolPlaces(q)' = PoolPlaces(q) \cup {c}
             /\ q \notin S => PoolPlaces(q)' = PoolPlaces(q) \ {c}
             /\ q \in pool[c] <=> c \in PoolPlaces(q)
             /\ (q \in S <=> q \in pool[c]) => PoolPlaces(q)' = PoolPlaces(q)
  <2>1. \A d : d \in PoolPlaces(q)' <=> d \in Classes /\ q \in pool'[d]
    BY DEF PoolPlaces
  <2>2. \A d : d \in PoolPlaces(q) <=> d \in Classes /\ q \in pool[d]
    BY DEF PoolPlaces
  <2> QED  BY <1>1, <2>1, <2>2
<1> QED  BY <1>1, <1>2

SetCall(t, k) == memCall' = [memCall EXCEPT ![t] = k]

LEMMA CallMoves ==
  ASSUME MemTypes, NEW t \in MemThreads, NEW k \in CallShapes, SetCall(t, k)
  PROVE  /\ memCall' \in [MemThreads -> CallShapes] /\ memCall'[t] = k
         /\ \A s \in MemThreads : s # t => memCall'[s] = memCall[s]
         /\ \A q \in Blocks : /\ q \in Hold(k) => HandPlaces(q)' = HandPlaces(q) \cup {t}
                              /\ q \notin Hold(k) => HandPlaces(q)' = HandPlaces(q) \ {t}
                              /\ q \in Hold(memCall[t]) <=> t \in HandPlaces(q)
                              /\ (q \in Hold(k) <=> q \in Hold(memCall[t])) => HandPlaces(q)' = HandPlaces(q)
<1>1. /\ memCall' \in [MemThreads -> CallShapes] /\ memCall'[t] = k
      /\ \A s \in MemThreads : s # t => memCall'[s] = memCall[s]
  BY DEF MemTypes, SetCall
<1>2. ASSUME NEW q \in Blocks
      PROVE  /\ q \in Hold(k) => HandPlaces(q)' = HandPlaces(q) \cup {t}
             /\ q \notin Hold(k) => HandPlaces(q)' = HandPlaces(q) \ {t}
             /\ q \in Hold(memCall[t]) <=> t \in HandPlaces(q)
             /\ (q \in Hold(k) <=> q \in Hold(memCall[t])) => HandPlaces(q)' = HandPlaces(q)
  <2>1. \A s : s \in HandPlaces(q)' <=> s \in MemThreads /\ q \in Hold(memCall'[s])
    BY DEF HandPlaces, Held, Hold
  <2>2. \A s : s \in HandPlaces(q) <=> s \in MemThreads /\ q \in Hold(memCall[s])
    BY DEF HandPlaces, Held, Hold
  <2> QED  BY <1>1, <2>1, <2>2
<1> QED  BY <1>1, <1>2

LEMMA PlaceIs ==
  ASSUME PlacePart, NEW p \in Blocks
  PROVE  /\ room[p] = 0 => /\ ~ InProgram(p) /\ CachePlaces(p) = {}
                           /\ PoolPlaces(p) = {} /\ HandPlaces(p) = {}
         /\ InProgram(p) => /\ room[p] # 0 /\ CachePlaces(p) = {}
                            /\ PoolPlaces(p) = {} /\ HandPlaces(p) = {}
         /\ \A d \in CachePlaces(p) : /\ room[p] # 0 /\ ~ InProgram(p) /\ CachePlaces(p) = {d}
                                      /\ PoolPlaces(p) = {} /\ HandPlaces(p) = {}
         /\ \A c \in PoolPlaces(p) : /\ room[p] # 0 /\ ~ InProgram(p) /\ CachePlaces(p) = {}
                                     /\ PoolPlaces(p) = {c} /\ HandPlaces(p) = {}
         /\ \A t \in HandPlaces(p) : /\ room[p] # 0 /\ ~ InProgram(p) /\ CachePlaces(p) = {}
                                     /\ PoolPlaces(p) = {} /\ HandPlaces(p) = {t}
<1> DEFINE A == InProgram(p)
           C == CachePlaces(p)
           L == PoolPlaces(p)
           H == HandPlaces(p)
           r == room[p]
<1>1. \/ r = 0 /\ ~ A /\ C = {} /\ L = {} /\ H = {}
      \/ r # 0 /\ A /\ C = {} /\ L = {} /\ H = {}
      \/ r # 0 /\ ~ A /\ (\E d \in C : C = {d}) /\ L = {} /\ H = {}
      \/ r # 0 /\ ~ A /\ C = {} /\ (\E c \in L : L = {c}) /\ H = {}
      \/ r # 0 /\ ~ A /\ C = {} /\ L = {} /\ (\E t \in H : H = {t})
  BY DEF PlacePart, OnePlace
<1> HIDE DEF A, C, L, H, r
<1>2. /\ r = 0 => ~ A /\ C = {} /\ L = {} /\ H = {}
      /\ A => r # 0 /\ C = {} /\ L = {} /\ H = {}
      /\ \A d \in C : r # 0 /\ ~ A /\ C = {d} /\ L = {} /\ H = {}
      /\ \A c \in L : r # 0 /\ ~ A /\ C = {} /\ L = {c} /\ H = {}
      /\ \A t \in H : r # 0 /\ ~ A /\ C = {} /\ L = {} /\ H = {t}
  BY <1>1
<1> QED  BY <1>2 DEF A, C, L, H, r

(* One block moves, from one place to another.                                *)
LEMMA PlacesMove ==
  ASSUME PlacePart, NEW p \in Blocks, OnePlace(p)',
         \A q \in Blocks : q # p =>
           /\ room'[q] = room[q] /\ InProgram(q)' = InProgram(q) /\ CachePlaces(q)' = CachePlaces(q)
           /\ PoolPlaces(q)' = PoolPlaces(q) /\ HandPlaces(q)' = HandPlaces(q),
         \A u, v \in inUse' : u.block = v.block => u = v
  PROVE  PlacePart'
<1>1. ASSUME NEW q \in Blocks, q # p PROVE OnePlace(q)'
  <2>1. /\ room'[q] = room[q] /\ InProgram(q)' = InProgram(q) /\ CachePlaces(q)' = CachePlaces(q)
        /\ PoolPlaces(q)' = PoolPlaces(q) /\ HandPlaces(q)' = HandPlaces(q)
    BY <1>1
  <2>2. OnePlace(q)
    BY DEF PlacePart
  <2> QED  BY <2>1, <2>2 DEF OnePlace
<1> QED  BY <1>1 DEF PlacePart

LEMMA ProgramTakes ==
  ASSUME MemTypes, PlacePart, NEW p \in Blocks, NEW n \in AskedSizes, ~ InProgram(p),
         inUse' = inUse \cup {[block |-> p, asked |-> n]}
  PROVE  /\ inUse' \subseteq [block : Blocks, asked : AskedSizes]
         /\ \A u, v \in inUse' : u.block = v.block => u = v
         /\ InProgram(p)' = TRUE
         /\ \A q \in Blocks : q # p => InProgram(q)' = InProgram(q)
<1>1. \A u \in inUse : u.block # p
  BY DEF InProgram
<1>2. InProgram(p)'
  <2>1. [block |-> p, asked |-> n] \in inUse' /\ [block |-> p, asked |-> n].block = p
    OBVIOUS
  <2> QED  BY <2>1 DEF InProgram
<1>3. ASSUME NEW q \in Blocks, q # p PROVE InProgram(q)' <=> InProgram(q)
  BY <1>3 DEF InProgram
<1>4. inUse' \subseteq [block : Blocks, asked : AskedSizes]
  BY DEF MemTypes
<1>5. \A u, v \in inUse' : u.block = v.block => u = v
  BY <1>1 DEF PlacePart
<1>6. ASSUME NEW q \in Blocks, q # p PROVE InProgram(q)' = InProgram(q)
  BY <1>3, <1>6 DEF InProgram
<1> QED  BY <1>2, <1>4, <1>5, <1>6 DEF InProgram

LEMMA ProgramGives ==
  ASSUME MemTypes, PlacePart, NEW g \in inUse, inUse' = inUse \ {g}
  PROVE  /\ inUse' \subseteq [block : Blocks, asked : AskedSizes]
         /\ \A u, v \in inUse' : u.block = v.block => u = v
         /\ ~ InProgram(g.block)'
         /\ \A q \in Blocks : q # g.block => InProgram(q)' = InProgram(q)
<1>1. \A u \in inUse' : u.block # g.block
  BY DEF PlacePart
<1>2. ~ InProgram(g.block)'
  <2>1. SUFFICES ASSUME InProgram(g.block)' PROVE FALSE
    OBVIOUS
  <2>2. \E u \in inUse' : u.block = g.block
    BY <2>1 DEF InProgram
  <2> QED  BY <1>1, <2>2
<1>3. ASSUME NEW q \in Blocks, q # g.block PROVE InProgram(q)' = InProgram(q)
  BY <1>3 DEF InProgram
<1>4. inUse' \subseteq [block : Blocks, asked : AskedSizes]
  BY DEF MemTypes
<1>5. \A u, v \in inUse' : u.block = v.block => u = v
  BY DEF PlacePart
<1> QED  BY <1>2, <1>3, <1>4, <1>5

LEMMA Unmoved ==
  /\ UNCHANGED inUse => \A q \in Blocks : InProgram(q)' = InProgram(q)
  /\ UNCHANGED cache => \A q \in Blocks : CachePlaces(q)' = CachePlaces(q)
  /\ UNCHANGED pool => \A q \in Blocks : PoolPlaces(q)' = PoolPlaces(q)
  /\ UNCHANGED memCall => \A q \in Blocks : HandPlaces(q)' = HandPlaces(q)
<1>1. UNCHANGED inUse => \A q \in Blocks : InProgram(q)' = InProgram(q)
  BY DEF InProgram
<1>2. UNCHANGED cache => \A q \in Blocks : CachePlaces(q)' = CachePlaces(q)
  BY DEF CachePlaces
<1>3. UNCHANGED pool => \A q \in Blocks : PoolPlaces(q)' = PoolPlaces(q)
  BY DEF PoolPlaces
<1>4. UNCHANGED memCall => \A q \in Blocks : HandPlaces(q)' = HandPlaces(q)
  BY DEF HandPlaces, Held
<1> QED  BY <1>1, <1>2, <1>3, <1>4

(* A block that is with the program, or not allocated, is nowhere else.       *)
LEMMA Nowhere ==
  ASSUME MemTypes, PlacePart, NEW p \in Blocks, room[p] = 0 \/ InProgram(p)
  PROVE  /\ \A t \in MemThreads : \A i \in Indices : p \notin cache[t][i]
         /\ \A c \in Classes : p \notin pool[c]
         /\ \A t \in MemThreads :
              /\ memCall[t].at \in {"pop", "flush", "push", "last"} => memCall[t].block # p
              /\ memCall[t].at = "push" => memCall[t].flushed # p
<1>1. CachePlaces(p) = {} /\ PoolPlaces(p) = {} /\ HandPlaces(p) = {}
  BY PlaceIs
<1>2. ASSUME NEW t \in MemThreads, NEW i \in Indices PROVE p \notin cache[t][i]
  <2>1. <<t, i>> \in MemThreads \X Indices /\ <<t, i>>[1] = t /\ <<t, i>>[2] = i
    OBVIOUS
  <2>2. <<t, i>> \notin CachePlaces(p)
    BY <1>1
  <2> QED  BY <2>1, <2>2 DEF CachePlaces
<1>3. ASSUME NEW c \in Classes PROVE p \notin pool[c]
  BY <1>1 DEF PoolPlaces
<1>4. ASSUME NEW t \in MemThreads PROVE p \notin Held(t)
  BY <1>1 DEF HandPlaces
<1> QED  BY <1>2, <1>3, <1>4 DEF Held

LEMMA CallIs ==
  ASSUME MemTypes, NEW t \in MemThreads
  PROVE  /\ memCall[t].at \in {"idle", "pop", "flush", "push", "last"}
         /\ memCall[t].at = "idle" => memCall[t] = NotInCall
         /\ memCall[t].at # "idle" => memCall[t].block \in Blocks
         /\ memCall[t].at = "pop" => memCall[t].asked \in AskedSizes /\ memCall[t].asked <= MAX_ALLOC_SIZE
         /\ memCall[t].at \in {"flush", "push", "last"} => memCall[t].left \in 0..BATCH_SIZE
         /\ memCall[t].at = "push" => memCall[t].flushed \in Blocks
<1>1. memCall[t] \in CallShapes
  BY DEF MemTypes
<1> QED  BY <1>1 DEF CallShapes, NotInCall

(* The limits of the other threads when only t's cache and call change.       *)
LEMMA LimitMoves ==
  ASSUME MemTypes, LimitPart, NEW t \in MemThreads,
         \A s \in MemThreads : s # t => cache'[s] = cache[s] /\ memCall'[s] = memCall[s],
         \A s \in MemThreads : s # t /\ memCall[s].at \in {"flush", "push", "last"} =>
            room'[memCall[s].block] = room[memCall[s].block],
         \A i \in Indices : Cardinality(cache'[t][i]) <= MAX_LOCAL_CACHE,
         CallLimit(t)'
  PROVE  LimitPart'
<1>1. ASSUME NEW s \in MemThreads, s # t
      PROVE  (\A i \in Indices : Cardinality(cache'[s][i]) <= MAX_LOCAL_CACHE) /\ CallLimit(s)'
  <2>1. cache'[s] = cache[s] /\ memCall'[s] = memCall[s]
    BY <1>1
  <2>2. memCall[s].at \in {"flush", "push", "last"} => room'[memCall[s].block] = room[memCall[s].block]
    BY <1>1
  <2>3. (\A i \in Indices : Cardinality(cache[s][i]) <= MAX_LOCAL_CACHE) /\ CallLimit(s)
    BY DEF LimitPart
  <2> QED  BY <2>1, <2>2, <2>3 DEF CallLimit
<1> QED  BY <1>1 DEF LimitPart

LEMMA AllocLargeKeeps ==
  ASSUME MemInv, NEW t \in MemThreads, NEW size \in AskedSizes, AllocLarge(t, size)
  PROVE  MemInv'
<1> USE DEF MemInv
<1> PICK p \in Blocks : /\ room[p] = 0 /\ Take(p, size, size)
                        /\ room' = [room EXCEPT ![p] = size]
  BY DEF AllocLarge
<1>1. /\ size \in Nat /\ size > MAX_ALLOC_SIZE /\ UNCHANGED <<cache, pool, allocCount, useCount, memCall>>
      /\ inUse' = inUse \cup {[block |-> p, asked |-> size]} /\ header' = [header EXCEPT ![p] = size]
  BY MemAssumption DEF AllocLarge, Take
<1>2. /\ room' \in [Blocks -> Nat] /\ header' = room' /\ room'[p] = size
      /\ \A q \in Blocks : q # p => room'[q] = room[q]
  BY <1>1 DEF MemTypes
<1>3. /\ ~ InProgram(p) /\ CachePlaces(p) = {} /\ PoolPlaces(p) = {} /\ HandPlaces(p) = {}
  BY PlaceIs
<1>4. /\ inUse' \subseteq [block : Blocks, asked : AskedSizes]
      /\ \A u, v \in inUse' : u.block = v.block => u = v
      /\ InProgram(p)' = TRUE
      /\ \A q \in Blocks : q # p => InProgram(q)' = InProgram(q)
  BY <1>1, <1>3, ProgramTakes
<1>5. /\ \A s \in MemThreads : \A i \in Indices : p \notin cache[s][i]
      /\ \A c \in Classes : p \notin pool[c]
      /\ \A s \in MemThreads :
           /\ memCall[s].at \in {"pop", "flush", "push", "last"} => memCall[s].block # p
           /\ memCall[s].at = "push" => memCall[s].flushed # p
  BY Nowhere
<1>6. \A s \in MemThreads :
        /\ memCall[s].at \in {"pop", "flush", "push", "last"} => room'[memCall[s].block] = room[memCall[s].block]
        /\ memCall[s].at = "push" => room'[memCall[s].flushed] = room[memCall[s].flushed]
  BY <1>2, <1>5, CallIs
<1>7. MemTypes'
  BY <1>1, <1>2, <1>4 DEF MemTypes
<1>8. HomePart'
  <2>1. \A u \in inUse' : room'[u.block] = SizeFor(u.asked)
    <3>1. ASSUME NEW u \in inUse PROVE room'[u.block] = SizeFor(u.asked)
      <4>1. u.block \in Blocks /\ u.block # p /\ room[u.block] = SizeFor(u.asked)
        BY <1>3 DEF MemTypes, HomePart, InProgram
      <4> QED  BY <1>2, <4>1
    <3> QED  BY <1>1, <1>2, <3>1 DEF SizeFor
  <2>2. \A s \in MemThreads : \A i \in Indices : \A q \in cache[s][i] : q \in Blocks /\ q # p
    BY <1>5 DEF MemTypes
  <2>3. \A c \in Classes : \A q \in pool[c] : q \in Blocks /\ q # p
    BY <1>5 DEF MemTypes
  <2>4. \A s \in MemThreads : CallHome(memCall[s])'
    BY <1>1, <1>6 DEF HomePart, CallHome
  <2>5. /\ \A s \in MemThreads : \A i \in Indices : \A q \in cache'[s][i] :
             room'[q] \in Classes /\ PoolIdx(room'[q]) = i
        /\ \A c \in Classes : \A q \in pool'[c] : room'[q] = c
    BY <1>1, <1>2, <2>2, <2>3 DEF HomePart
  <2> QED  BY <1>1, <2>1, <2>4, <2>5 DEF HomePart
<1>9. LimitPart'
  <2>1. (\A i \in Indices : Cardinality(cache'[t][i]) <= MAX_LOCAL_CACHE) /\ CallLimit(t)'
    BY <1>1, <1>6 DEF LimitPart, CallLimit
  <2> QED  BY <1>1, <1>6, <2>1, LimitMoves
<1>10. PlacePart'
  <2>1. OnePlace(p)'
    BY <1>1, <1>2, <1>3, <1>4, Unmoved, MemAssumption DEF OnePlace
  <2> QED  BY <1>1, <1>2, <1>4, <2>1, Unmoved, PlacesMove
<1>11. CountPart'
  <2>1. ASSUME NEW c \in Classes PROVE MadeBlocks(c)' = MadeBlocks(c) /\ Moves(c)' = Moves(c)
    <3>1. c \in Nat /\ 0 < c /\ c <= MAX_ALLOC_SIZE /\ MAX_ALLOC_SIZE \in Nat
      BY ClassFacts DEF MAX_ALLOC_SIZE
    <3>2. c # 0 /\ c # size
      BY <1>1, <3>1
    <3>3. MadeBlocks(c)' = MadeBlocks(c)
      BY <1>2, <3>2 DEF MadeBlocks
    <3>4. Moves(c)' = Moves(c)
      BY <1>1, <1>6 DEF Moves
    <3> QED  BY <3>3, <3>4
  <2> QED  BY <1>1, <2>1 DEF CountPart
<1> QED  BY <1>7, <1>8, <1>9, <1>10, <1>11

LEMMA AllocCachedKeeps ==
  ASSUME MemInv, NEW t \in MemThreads, NEW size \in AskedSizes, AllocCached(t, size)
  PROVE  MemInv'
<1> USE DEF MemInv
<1> PICK class \in Classes, i \in Indices :
      /\ class = PoolSize(size) /\ i = PoolIdx(class) /\ size <= MAX_ALLOC_SIZE
      /\ memCall[t] = NotInCall
  BY ClassFacts DEF AllocCached
<1> PICK p \in cache[t][i] : /\ Take(p, class, size)
                             /\ cache' = [cache EXCEPT ![t][i] = @ \ {p}]
  BY DEF AllocCached
<1>p. cache[t][i] \in SUBSET Blocks
  BY DEF MemTypes
<1> PICK S \in SUBSET Blocks : S = cache[t][i] \ {p}
  BY <1>p
<1>0. /\ p \in Blocks /\ S \subseteq Blocks /\ cache' = [cache EXCEPT ![t][i] = S] /\ p \notin S
      /\ cache[t][i] \in SUBSET Blocks
  BY DEF MemTypes
<1>1. /\ UNCHANGED <<room, pool, allocCount, useCount, memCall>>
      /\ inUse' = inUse \cup {[block |-> p, asked |-> size]} /\ header' = [header EXCEPT ![p] = class]
  BY DEF AllocCached, Take
<1>2. room[p] = class
  BY ClassFacts DEF HomePart
<1>a. \A q \in S : q \in cache[t][i]
  OBVIOUS
<1>b. Cardinality(S) <= Cardinality(cache[t][i]) /\ Cardinality(S) \in Nat /\ Cardinality(cache[t][i]) \in Nat
  <2>1. Cardinality(S) = Cardinality(cache[t][i]) - 1 /\ Cardinality(S) \in Nat /\ Cardinality(cache[t][i]) \in Nat
    BY <1>0, CountBlocks
  <2> QED  BY <2>1
<1>3. /\ cache' \in [MemThreads -> [Indices -> SUBSET Blocks]] /\ cache'[t][i] = S
      /\ \A s \in MemThreads : \A j \in Indices : s # t \/ j # i => cache'[s][j] = cache[s][j]
      /\ \A q \in Blocks : /\ q \in S => CachePlaces(q)' = CachePlaces(q) \cup {<<t, i>>}
                           /\ q \notin S => CachePlaces(q)' = CachePlaces(q) \ {<<t, i>>}
                           /\ q \in cache[t][i] <=> <<t, i>> \in CachePlaces(q)
  <2>1. MemTypes /\ t \in MemThreads /\ i \in Indices /\ S \in SUBSET Blocks
    OBVIOUS
  <2>2. SetCache(t, i, S)
    BY <1>0 DEF SetCache
  <2> QED  BY <2>1, <2>2, CacheMoves
<1>4. \A q \in Blocks : q # p => CachePlaces(q)' = CachePlaces(q)
  <2> SUFFICES ASSUME NEW q \in Blocks, q # p PROVE CachePlaces(q)' = CachePlaces(q)
    OBVIOUS
  <2>1. q \in S <=> q \in cache[t][i]
    OBVIOUS
  <2> QED  BY <1>3, <2>1
<1>5. /\ room[p] # 0 /\ ~ InProgram(p) /\ CachePlaces(p) = {<<t, i>>}
      /\ PoolPlaces(p) = {} /\ HandPlaces(p) = {} /\ CachePlaces(p)' = {}
  BY <1>0, <1>3, PlaceIs
<1>6. /\ inUse' \subseteq [block : Blocks, asked : AskedSizes]
      /\ \A u, v \in inUse' : u.block = v.block => u = v
      /\ InProgram(p)' = TRUE
      /\ \A q \in Blocks : q # p => InProgram(q)' = InProgram(q)
  BY <1>0, <1>1, <1>5, ProgramTakes
<1>7. MemTypes'
  <2>1. header' = room'
    BY <1>0, <1>1, <1>2 DEF MemTypes
  <2> QED  BY <1>1, <1>3, <1>6, <2>1 DEF MemTypes
<1>8. HomePart'
  <2>1. \A s \in MemThreads : \A j \in Indices : \A q \in cache'[s][j] : q \in cache[s][j]
    BY <1>3, <1>a
  <2>2. SizeFor(size) = class
    <3>1. size \in Nat /\ MAX_ALLOC_SIZE \in Nat /\ ~ size > MAX_ALLOC_SIZE
      BY MemAssumption DEF MAX_ALLOC_SIZE
    <3> QED  BY <3>1 DEF SizeFor
  <2>3. \A s \in MemThreads : CallHome(memCall[s])'
    BY <1>1 DEF HomePart, CallHome
  <2> QED  BY <1>1, <1>2, <2>1, <2>2, <2>3 DEF HomePart
<1>9. LimitPart'
  <2>1. \A j \in Indices : Cardinality(cache'[t][j]) <= MAX_LOCAL_CACHE
    <3> SUFFICES ASSUME NEW j \in Indices PROVE Cardinality(cache'[t][j]) <= MAX_LOCAL_CACHE
      OBVIOUS
    <3>1. Cardinality(cache[t][j]) <= MAX_LOCAL_CACHE
      BY DEF LimitPart
    <3>2. CASE j # i
      BY <1>3, <3>1, <3>2
    <3>3. CASE j = i
      BY <1>3, <1>b, <3>1, <3>3, MemAssumption
    <3> QED  BY <3>2, <3>3
  <2>2. CallLimit(t)'
    BY <1>1 DEF CallLimit, NotInCall
  <2>3. \A s \in MemThreads : s # t => cache'[s] = cache[s]
    BY <1>0 DEF MemTypes
  <2> QED  BY <1>1, <2>1, <2>2, <2>3, LimitMoves
<1>10. PlacePart'
  <2>1. OnePlace(p)'
    BY <1>0, <1>1, <1>5, <1>6, Unmoved DEF OnePlace
  <2> QED  BY <1>0, <1>1, <1>4, <1>6, <2>1, Unmoved, PlacesMove
<1>11. CountPart'
  BY <1>1 DEF CountPart, MadeBlocks, Moves
<1> QED  BY <1>7, <1>8, <1>9, <1>10, <1>11

(* The calls that move a block of a class, when only t's call changes.        *)
LEMMA MovesMove ==
  ASSUME MemTypes, NEW t \in MemThreads, NEW k \in CallShapes, SetCall(t, k),
         \A s \in MemThreads : s # t /\ memCall[s].at \in {"pop", "push"} =>
            room'[memCall[s].block] = room[memCall[s].block]
  PROVE  \A c \in Classes :
           /\ Moves(c) \in SUBSET MemThreads
           /\ k.at \in {"pop", "push"} /\ room'[k.block] = c => Moves(c)' = Moves(c) \cup {t}
           /\ ~ (k.at \in {"pop", "push"} /\ room'[k.block] = c) => Moves(c)' = Moves(c) \ {t}
           /\ t \in Moves(c) <=> memCall[t].at \in {"pop", "push"} /\ room[memCall[t].block] = c
<1>1. memCall'[t] = k /\ \A s \in MemThreads : s # t => memCall'[s] = memCall[s]
  BY DEF MemTypes, SetCall
<1> SUFFICES ASSUME NEW c \in Classes
             PROVE  /\ Moves(c) \in SUBSET MemThreads
                    /\ k.at \in {"pop", "push"} /\ room'[k.block] = c => Moves(c)' = Moves(c) \cup {t}
                    /\ ~ (k.at \in {"pop", "push"} /\ room'[k.block] = c) => Moves(c)' = Moves(c) \ {t}
                    /\ t \in Moves(c) <=> memCall[t].at \in {"pop", "push"} /\ room[memCall[t].block] = c
  OBVIOUS
<1>2. \A s : s \in Moves(c)' <=> s \in MemThreads /\ memCall'[s].at \in {"pop", "push"}
                                                  /\ room'[memCall'[s].block] = c
  BY DEF Moves
<1>3. \A s : s \in Moves(c) <=> s \in MemThreads /\ memCall[s].at \in {"pop", "push"}
                                                 /\ room[memCall[s].block] = c
  BY DEF Moves
<1>4. \A s \in MemThreads : s # t => (s \in Moves(c)' <=> s \in Moves(c))
  BY <1>1, <1>2, <1>3
<1>5. t \in Moves(c)' <=> k.at \in {"pop", "push"} /\ room'[k.block] = c
  BY <1>1, <1>2
<1>6. \A s : (s \in Moves(c)' => s \in MemThreads) /\ (s \in Moves(c) => s \in MemThreads)
  BY <1>2, <1>3
<1> DEFINE A == Moves(c)
           B == Moves(c)'
<1> HIDE DEF A, B
<1>7. /\ \A s \in MemThreads : s # t => (s \in B <=> s \in A)
      /\ \A s : (s \in B => s \in MemThreads) /\ (s \in A => s \in MemThreads)
      /\ t \in B <=> k.at \in {"pop", "push"} /\ room'[k.block] = c
  BY <1>4, <1>5, <1>6 DEF A, B
<1>8. /\ t \in B => B = A \cup {t}
      /\ t \notin B => B = A \ {t}
      /\ A \in SUBSET MemThreads
  BY <1>7
<1> QED  BY <1>3, <1>7, <1>8 DEF A, B

LEMMA PopListedKeeps ==
  ASSUME MemInv, NEW t \in MemThreads, NEW size \in AskedSizes, PopListed(t, size)
  PROVE  MemInv'
<1> USE DEF MemInv
<1> PICK class \in Classes :
      class = PoolSize(size) /\ size <= MAX_ALLOC_SIZE /\ memCall[t] = NotInCall
  BY ClassFacts DEF PopListed
<1> PICK p \in pool[class] :
      /\ pool' = [pool EXCEPT ![class] = @ \ {p}]
      /\ memCall' = [memCall EXCEPT ![t] = [at |-> "pop", block |-> p, asked |-> size]]
  BY DEF PopListed
<1>p. pool[class] \in SUBSET Blocks /\ p \in Blocks
  BY DEF MemTypes
<1> PICK S \in SUBSET Blocks : S = pool[class] \ {p}
  BY <1>p
<1> PICK k \in CallShapes : k = [at |-> "pop", block |-> p, asked |-> size]
  BY <1>p DEF CallShapes
<1>1. /\ UNCHANGED <<header, room, inUse, cache, allocCount, useCount>>
      /\ SetPool(class, S) /\ SetCall(t, k) /\ room[p] = class
      /\ k.at = "pop" /\ k.block = p /\ k.asked = size /\ Hold(k) = {p}
      /\ Hold(memCall[t]) = {} /\ memCall[t].at = "idle" /\ p \notin S
      /\ \A q \in Blocks : q # p => (q \in S <=> q \in pool[class])
  <2>1. UNCHANGED <<header, room, inUse, cache, allocCount, useCount>>
    BY DEF PopListed
  <2>2. SetPool(class, S) /\ SetCall(t, k)
    BY DEF SetPool, SetCall
  <2>3. room[p] = class
    BY DEF HomePart
  <2>4. k.at = "pop" /\ k.block = p /\ k.asked = size /\ Hold(k) = {p}
    BY DEF Hold
  <2>5. Hold(memCall[t]) = {} /\ memCall[t].at = "idle"
    BY DEF Hold, NotInCall
  <2>6. p \notin S /\ \A q \in Blocks : q # p => (q \in S <=> q \in pool[class])
    OBVIOUS
  <2> QED  BY <2>1, <2>2, <2>3, <2>4, <2>5, <2>6
<1>0. MemTypes /\ t \in MemThreads /\ class \in Classes /\ S \in SUBSET Blocks /\ k \in CallShapes
  OBVIOUS
<1>2. /\ pool' \in [Classes -> SUBSET Blocks] /\ pool'[class] = S
      /\ \A d \in Classes : d # class => pool'[d] = pool[d]
      /\ \A q \in Blocks : /\ q \in S => PoolPlaces(q)' = PoolPlaces(q) \cup {class}
                           /\ q \notin S => PoolPlaces(q)' = PoolPlaces(q) \ {class}
                           /\ q \in pool[class] <=> class \in PoolPlaces(q)
                           /\ (q \in S <=> q \in pool[class]) => PoolPlaces(q)' = PoolPlaces(q)
  BY <1>0, <1>1, PoolMoves
<1>3. /\ memCall' \in [MemThreads -> CallShapes] /\ memCall'[t] = k
      /\ \A s \in MemThreads : s # t => memCall'[s] = memCall[s]
      /\ \A q \in Blocks : /\ q \in Hold(k) => HandPlaces(q)' = HandPlaces(q) \cup {t}
                           /\ q \notin Hold(k) => HandPlaces(q)' = HandPlaces(q) \ {t}
                           /\ q \in Hold(memCall[t]) <=> t \in HandPlaces(q)
                           /\ (q \in Hold(k) <=> q \in Hold(memCall[t])) => HandPlaces(q)' = HandPlaces(q)
  BY <1>0, <1>1, CallMoves
<1>4. /\ room[p] # 0 /\ ~ InProgram(p) /\ CachePlaces(p) = {}
      /\ PoolPlaces(p)' = {} /\ HandPlaces(p)' = {t}
  <2>1. class \in PoolPlaces(p)
    BY <1>p, <1>2
  <2>2. /\ room[p] # 0 /\ ~ InProgram(p) /\ CachePlaces(p) = {}
        /\ PoolPlaces(p) = {class} /\ HandPlaces(p) = {}
    BY <1>p, <2>1, PlaceIs
  <2> QED  BY <1>p, <1>1, <1>2, <1>3, <2>2
<1>5. MemTypes'
  BY <1>1, <1>2, <1>3 DEF MemTypes
<1>6. HomePart'
  <2>1. \A c \in Classes : \A q \in pool'[c] : q \in pool[c]
    BY <1>2
  <2>2. CallHome(memCall[t])'
    BY <1>1, <1>3 DEF CallHome
  <2>3. \A s \in MemThreads : s # t => CallHome(memCall[s])'
    BY <1>1, <1>3 DEF HomePart, CallHome
  <2> QED  BY <1>1, <2>1, <2>2, <2>3 DEF HomePart
<1>7. LimitPart'
  <2>1. (\A i \in Indices : Cardinality(cache'[t][i]) <= MAX_LOCAL_CACHE) /\ CallLimit(t)'
    BY <1>1, <1>3 DEF LimitPart, CallLimit
  <2> QED  BY <1>1, <1>3, <2>1, LimitMoves
<1>8. PlacePart'
  <2>1. OnePlace(p)'
    BY <1>p, <1>1, <1>4, Unmoved DEF OnePlace
  <2>2. \A u, v \in inUse' : u.block = v.block => u = v
    BY <1>1 DEF PlacePart
  <2> QED  BY <1>p, <1>1, <1>2, <1>3, <2>1, <2>2, Unmoved, PlacesMove
<1>9. CountPart'
  <2> SUFFICES ASSUME NEW c \in Classes
               PROVE  /\ allocCount'[c] = Cardinality(MadeBlocks(c))'
                      /\ useCount'[c] = allocCount'[c] - Cardinality(pool'[c]) - Cardinality(Moves(c)')
    BY DEF CountPart
  <2>1. allocCount[c] = Cardinality(MadeBlocks(c))
        /\ useCount[c] = allocCount[c] - Cardinality(pool[c]) - Cardinality(Moves(c))
    BY DEF CountPart
  <2>2. MadeBlocks(c)' = MadeBlocks(c) /\ UNCHANGED <<allocCount, useCount>>
        /\ useCount[c] \in Int /\ allocCount[c] \in Nat
    BY <1>1 DEF MadeBlocks, MemTypes
  <2>3. /\ Moves(c) \in SUBSET MemThreads /\ t \notin Moves(c)
        /\ c = class => Moves(c)' = Moves(c) \cup {t}
        /\ c # class => Moves(c)' = Moves(c) \ {t}
    BY <1>0, <1>1, MovesMove
  <2>4. CASE c = class
    <3>1. Cardinality(Moves(c)') = Cardinality(Moves(c)) + 1 /\ Cardinality(Moves(c)) \in Nat
      <4>1. Cardinality(Moves(c) \cup {t}) = Cardinality(Moves(c)) + 1 /\ Cardinality(Moves(c)) \in Nat
        BY <2>3, CountThreads
      <4> QED  BY <2>3, <2>4, <4>1
    <3>2. /\ Cardinality(pool'[c]) = Cardinality(pool[c]) - 1 /\ Cardinality(pool[c]) \in Nat
      BY <1>p, <1>2, <2>4, CountBlocks
    <3> QED  BY <2>1, <2>2, <3>1, <3>2
  <2>5. CASE c # class
    <3>1. Moves(c)' = Moves(c) /\ pool'[c] = pool[c]
      BY <1>2, <2>3, <2>5
    <3> QED  BY <2>1, <2>2, <3>1
  <2> QED  BY <2>4, <2>5
<1> QED  BY <1>5, <1>6, <1>7, <1>8, <1>9

LEMMA PopNewKeeps ==
  ASSUME MemInv, NEW t \in MemThreads, NEW size \in AskedSizes, PopNew(t, size)
  PROVE  MemInv'
<1> USE DEF MemInv
<1> PICK class \in Classes :
      class = PoolSize(size) /\ size <= MAX_ALLOC_SIZE /\ memCall[t] = NotInCall
  BY ClassFacts DEF PopNew
<1> PICK p \in Blocks :
      /\ room[p] = 0 /\ room' = [room EXCEPT ![p] = class] /\ header' = [header EXCEPT ![p] = class]
      /\ memCall' = [memCall EXCEPT ![t] = [at |-> "pop", block |-> p, asked |-> size]]
  BY DEF PopNew
<1> PICK k \in CallShapes : k = [at |-> "pop", block |-> p, asked |-> size]
  BY DEF CallShapes
<1>0. MemTypes /\ t \in MemThreads /\ class \in Classes /\ p \in Blocks /\ k \in CallShapes
  OBVIOUS
<1>1. /\ UNCHANGED <<inUse, cache, pool, useCount>>
      /\ allocCount' = [allocCount EXCEPT ![class] = @ + 1] /\ SetCall(t, k)
      /\ k.at = "pop" /\ k.block = p /\ k.asked = size /\ Hold(k) = {p}
      /\ Hold(memCall[t]) = {} /\ memCall[t].at = "idle"
  <2>1. UNCHANGED <<inUse, cache, pool, useCount>> /\ SetCall(t, k)
    BY DEF PopNew, SetCall
  <2>2. allocCount' = [allocCount EXCEPT ![class] = @ + 1]
    BY DEF PopNew
  <2>3. k.at = "pop" /\ k.block = p /\ k.asked = size /\ Hold(k) = {p}
    BY DEF Hold
  <2>4. Hold(memCall[t]) = {} /\ memCall[t].at = "idle"
    BY DEF Hold, NotInCall
  <2> QED  BY <2>1, <2>2, <2>3, <2>4
<1>2. /\ room' \in [Blocks -> Nat] /\ header' = room' /\ room'[p] = class /\ class # 0
      /\ \A q \in Blocks : q # p => room'[q] = room[q]
  BY ClassFacts DEF MemTypes
<1>3. /\ memCall' \in [MemThreads -> CallShapes] /\ memCall'[t] = k
      /\ \A s \in MemThreads : s # t => memCall'[s] = memCall[s]
      /\ \A q \in Blocks : /\ q \in Hold(k) => HandPlaces(q)' = HandPlaces(q) \cup {t}
                           /\ q \notin Hold(k) => HandPlaces(q)' = HandPlaces(q) \ {t}
                           /\ q \in Hold(memCall[t]) <=> t \in HandPlaces(q)
                           /\ (q \in Hold(k) <=> q \in Hold(memCall[t])) => HandPlaces(q)' = HandPlaces(q)
  BY <1>0, <1>1, CallMoves
<1>4. ~ InProgram(p) /\ CachePlaces(p) = {} /\ PoolPlaces(p) = {} /\ HandPlaces(p)' = {t}
  <2>1. ~ InProgram(p) /\ CachePlaces(p) = {} /\ PoolPlaces(p) = {} /\ HandPlaces(p) = {}
    BY PlaceIs
  <2> QED  BY <1>1, <1>3, <2>1
<1>a. /\ \A s \in MemThreads : \A i \in Indices : p \notin cache[s][i]
      /\ \A c \in Classes : p \notin pool[c]
      /\ \A s \in MemThreads :
           /\ memCall[s].at \in {"pop", "flush", "push", "last"} => memCall[s].block # p
           /\ memCall[s].at = "push" => memCall[s].flushed # p
  BY Nowhere
<1>b. \A s \in MemThreads :
        /\ memCall[s].at \in {"pop", "flush", "push", "last"} => room'[memCall[s].block] = room[memCall[s].block]
        /\ memCall[s].at = "push" => room'[memCall[s].flushed] = room[memCall[s].flushed]
  BY <1>2, <1>a, CallIs
<1>5. MemTypes'
  BY <1>1, <1>2, <1>3 DEF MemTypes
<1>6. HomePart'
  <2>1. \A u \in inUse' : room'[u.block] = SizeFor(u.asked)
    <3> SUFFICES ASSUME NEW u \in inUse PROVE room'[u.block] = SizeFor(u.asked)
      BY <1>1
    <3>1. u.block \in Blocks /\ u.block # p /\ room[u.block] = SizeFor(u.asked)
      BY <1>4 DEF MemTypes, HomePart, InProgram
    <3> QED  BY <1>2, <3>1
  <2>2. \A s \in MemThreads : \A i \in Indices : \A q \in cache[s][i] : q \in Blocks /\ q # p
    BY <1>a DEF MemTypes
  <2>3. \A c \in Classes : \A q \in pool[c] : q \in Blocks /\ q # p
    BY <1>a DEF MemTypes
  <2>4. CallHome(memCall[t])'
    BY <1>1, <1>2, <1>3 DEF CallHome
  <2>5. \A s \in MemThreads : s # t => CallHome(memCall[s])'
    BY <1>3, <1>b DEF HomePart, CallHome
  <2>6. /\ \A s \in MemThreads : \A i \in Indices : \A q \in cache'[s][i] :
             room'[q] \in Classes /\ PoolIdx(room'[q]) = i
        /\ \A c \in Classes : \A q \in pool'[c] : room'[q] = c
    BY <1>1, <1>2, <2>2, <2>3 DEF HomePart
  <2> QED  BY <1>1, <2>1, <2>4, <2>5, <2>6 DEF HomePart
<1>7. LimitPart'
  <2>1. (\A i \in Indices : Cardinality(cache'[t][i]) <= MAX_LOCAL_CACHE) /\ CallLimit(t)'
    BY <1>1, <1>3 DEF LimitPart, CallLimit
  <2> QED  BY <1>1, <1>3, <1>b, <2>1, LimitMoves
<1>8. PlacePart'
  <2>1. OnePlace(p)'
    BY <1>1, <1>2, <1>4, Unmoved DEF OnePlace
  <2>2. \A u, v \in inUse' : u.block = v.block => u = v
    BY <1>1 DEF PlacePart
  <2> QED  BY <1>1, <1>2, <1>3, <2>1, <2>2, Unmoved, PlacesMove
<1>9. CountPart'
  <2> SUFFICES ASSUME NEW c \in Classes
               PROVE  /\ allocCount'[c] = Cardinality(MadeBlocks(c)')
                      /\ useCount'[c] = allocCount'[c] - Cardinality(pool'[c]) - Cardinality(Moves(c)')
    BY DEF CountPart
  <2>1. /\ allocCount[c] = Cardinality(MadeBlocks(c))
        /\ useCount[c] = allocCount[c] - Cardinality(pool[c]) - Cardinality(Moves(c))
        /\ useCount[c] \in Int /\ allocCount[c] \in Nat
    BY DEF CountPart, MemTypes
  <2>2. c \in Nat /\ c # 0
    BY ClassFacts
  <2>3. /\ Moves(c) \in SUBSET MemThreads /\ t \notin Moves(c)
        /\ c = class => Moves(c)' = Moves(c) \cup {t}
        /\ c # class => Moves(c)' = Moves(c) \ {t}
    BY <1>0, <1>1, <1>2, <1>b, MovesMove
  <2>4. MadeBlocks(c) \in SUBSET Blocks /\ p \notin MadeBlocks(c)
    BY <2>2 DEF MadeBlocks
  <2>5. CASE c = class
    <3>1. Cardinality(Moves(c)') = Cardinality(Moves(c)) + 1 /\ Cardinality(Moves(c)) \in Nat
      <4>1. Cardinality(Moves(c) \cup {t}) = Cardinality(Moves(c)) + 1 /\ Cardinality(Moves(c)) \in Nat
        BY <2>3, CountThreads
      <4> QED  BY <2>3, <2>5, <4>1
    <3>2. Cardinality(MadeBlocks(c)') = Cardinality(MadeBlocks(c)) + 1
      <4>1. MadeBlocks(c)' = MadeBlocks(c) \cup {p}
        BY <1>2, <2>5 DEF MadeBlocks
      <4>2. Cardinality(MadeBlocks(c) \cup {p}) = Cardinality(MadeBlocks(c)) + 1
        BY <2>4, CountBlocks
      <4> QED  BY <4>1, <4>2
    <3>3. allocCount'[c] = allocCount[c] + 1 /\ useCount'[c] = useCount[c] /\ pool'[c] = pool[c]
      BY <1>1, <2>5 DEF MemTypes
    <3>4. Cardinality(pool[c]) \in Nat
      BY CountBlocks DEF MemTypes
    <3> QED  BY <2>1, <3>1, <3>2, <3>3, <3>4
  <2>6. CASE c # class
    <3>1. Moves(c)' = Moves(c) /\ pool'[c] = pool[c]
      BY <1>1, <2>3, <2>6
    <3>2. allocCount'[c] = allocCount[c] /\ useCount'[c] = useCount[c]
      BY <1>1, <2>6 DEF MemTypes
    <3>3. MadeBlocks(c)' = MadeBlocks(c)
      BY <1>2, <2>2, <2>6 DEF MadeBlocks
    <3> QED  BY <2>1, <3>1, <3>2, <3>3
  <2> QED  BY <2>5, <2>6
<1> QED  BY <1>5, <1>6, <1>7, <1>8, <1>9

LEMMA PopEndKeeps ==
  ASSUME MemInv, NEW t \in MemThreads, PopEnd(t)
  PROVE  MemInv'
<1> USE DEF MemInv
<1>h. memCall[t].at = "pop"
  BY DEF PopEnd
<1> PICK p \in Blocks, size \in AskedSizes :
      p = memCall[t].block /\ size = memCall[t].asked /\ size <= MAX_ALLOC_SIZE
  BY <1>h, CallIs
<1> PICK class \in Classes : class = PoolSize(size)
  BY ClassFacts
<1> PICK k \in CallShapes : k = NotInCall
  BY DEF CallShapes
<1>0. MemTypes /\ t \in MemThreads /\ class \in Classes /\ p \in Blocks /\ k \in CallShapes
      /\ size \in AskedSizes
  OBVIOUS
<1>1. /\ UNCHANGED <<room, cache, pool, allocCount>> /\ SetCall(t, k)
      /\ inUse' = inUse \cup {[block |-> p, asked |-> size]} /\ UNCHANGED header
      /\ useCount' = [useCount EXCEPT ![class] = @ + 1]
      /\ k.at = "idle" /\ Hold(k) = {} /\ Hold(memCall[t]) = {p} /\ room[p] = class
  <2>1. UNCHANGED <<room, cache, pool, allocCount>> /\ SetCall(t, k)
    BY DEF PopEnd, SetCall
  <2>2. k.at = "idle" /\ Hold(k) = {} /\ Hold(memCall[t]) = {p}
    BY <1>h DEF Hold, NotInCall
  <2>3. room[p] = class
    BY <1>h DEF HomePart, CallHome
  <2>4. inUse' = inUse \cup {[block |-> p, asked |-> size]}
        /\ useCount' = [useCount EXCEPT ![class] = @ + 1] /\ header' = [header EXCEPT ![p] = class]
    BY DEF PopEnd, Take
  <2>5. header' = header
    BY <2>3, <2>4 DEF MemTypes
  <2> QED  BY <2>1, <2>2, <2>3, <2>4, <2>5
<1>3. /\ memCall' \in [MemThreads -> CallShapes] /\ memCall'[t] = k
      /\ \A s \in MemThreads : s # t => memCall'[s] = memCall[s]
      /\ \A q \in Blocks : /\ q \in Hold(k) => HandPlaces(q)' = HandPlaces(q) \cup {t}
                           /\ q \notin Hold(k) => HandPlaces(q)' = HandPlaces(q) \ {t}
                           /\ q \in Hold(memCall[t]) <=> t \in HandPlaces(q)
                           /\ (q \in Hold(k) <=> q \in Hold(memCall[t])) => HandPlaces(q)' = HandPlaces(q)
  BY <1>0, <1>1, CallMoves
<1>4. room[p] # 0 /\ ~ InProgram(p) /\ CachePlaces(p) = {} /\ PoolPlaces(p) = {} /\ HandPlaces(p)' = {}
  <2>1. t \in HandPlaces(p)
    BY <1>1, <1>3
  <2>2. room[p] # 0 /\ ~ InProgram(p) /\ CachePlaces(p) = {} /\ PoolPlaces(p) = {} /\ HandPlaces(p) = {t}
    BY <2>1, PlaceIs
  <2> QED  BY <1>1, <1>3, <2>2
<1>a. /\ inUse' \subseteq [block : Blocks, asked : AskedSizes]
      /\ \A u, v \in inUse' : u.block = v.block => u = v
      /\ InProgram(p)' = TRUE
      /\ \A q \in Blocks : q # p => InProgram(q)' = InProgram(q)
  BY <1>0, <1>1, <1>4, ProgramTakes
<1>5. MemTypes'
  BY <1>1, <1>3, <1>a DEF MemTypes
<1>6. HomePart'
  <2>1. SizeFor(size) = class
    <3>1. size \in Nat /\ MAX_ALLOC_SIZE \in Nat /\ ~ size > MAX_ALLOC_SIZE
      BY <1>0, MemAssumption DEF MAX_ALLOC_SIZE
    <3> QED  BY <3>1 DEF SizeFor
  <2>2. CallHome(memCall[t])'
    BY <1>1, <1>3 DEF CallHome
  <2>3. \A s \in MemThreads : s # t => CallHome(memCall[s])'
    BY <1>1, <1>3 DEF HomePart, CallHome
  <2> QED  BY <1>1, <2>1, <2>2, <2>3 DEF HomePart
<1>7. LimitPart'
  <2>1. (\A i \in Indices : Cardinality(cache'[t][i]) <= MAX_LOCAL_CACHE) /\ CallLimit(t)'
    BY <1>1, <1>3 DEF LimitPart, CallLimit
  <2> QED  BY <1>1, <1>3, <2>1, LimitMoves
<1>8. PlacePart'
  <2>1. OnePlace(p)'
    BY <1>1, <1>4, <1>a, Unmoved DEF OnePlace
  <2> QED  BY <1>1, <1>3, <1>a, <2>1, Unmoved, PlacesMove
<1>9. CountPart'
  <2> SUFFICES ASSUME NEW c \in Classes
               PROVE  /\ allocCount'[c] = Cardinality(MadeBlocks(c)')
                      /\ useCount'[c] = allocCount'[c] - Cardinality(pool'[c]) - Cardinality(Moves(c)')
    BY DEF CountPart
  <2>1. /\ allocCount[c] = Cardinality(MadeBlocks(c))
        /\ useCount[c] = allocCount[c] - Cardinality(pool[c]) - Cardinality(Moves(c))
        /\ useCount[c] \in Int /\ allocCount[c] \in Nat
    BY DEF CountPart, MemTypes
  <2>2. MadeBlocks(c)' = MadeBlocks(c) /\ UNCHANGED <<allocCount, pool>>
    BY <1>1 DEF MadeBlocks
  <2>3. /\ Moves(c) \in SUBSET MemThreads /\ Moves(c)' = Moves(c) \ {t}
        /\ t \in Moves(c) <=> c = class
    BY <1>0, <1>1, <1>h, MovesMove
  <2>4. Cardinality(pool[c]) \in Nat
    BY CountBlocks DEF MemTypes
  <2>5. CASE c = class
    <3>1. Cardinality(Moves(c)') = Cardinality(Moves(c)) - 1 /\ Cardinality(Moves(c)) \in Nat
      <4>1. Cardinality(Moves(c) \ {t}) = Cardinality(Moves(c)) - 1 /\ Cardinality(Moves(c)) \in Nat
        BY <2>3, <2>5, CountThreads
      <4> QED  BY <2>3, <4>1
    <3>2. useCount'[c] = useCount[c] + 1
      BY <1>1, <2>5 DEF MemTypes
    <3> QED  BY <2>1, <2>2, <2>4, <3>1, <3>2
  <2>6. CASE c # class
    <3>1. Moves(c)' = Moves(c)
      BY <2>3, <2>6
    <3>2. useCount'[c] = useCount[c]
      BY <1>1, <2>6 DEF MemTypes
    <3> QED  BY <2>1, <2>2, <3>1, <3>2
  <2> QED  BY <2>5, <2>6
<1> QED  BY <1>5, <1>6, <1>7, <1>8, <1>9

LEMMA ReleaseLargeKeeps ==
  ASSUME MemInv, NEW t \in MemThreads, NEW u \in inUse, Release(t, u),
         header[u.block] > MAX_ALLOC_SIZE
  PROVE  MemInv'
<1> USE DEF MemInv
<1> PICK p \in Blocks : p = u.block
  BY DEF MemTypes
<1>1. /\ UNCHANGED <<cache, pool, allocCount, useCount, memCall>>
      /\ inUse' = inUse \ {u} /\ header' = [header EXCEPT ![p] = 0]
      /\ room' = [room EXCEPT ![p] = 0] /\ room[p] > MAX_ALLOC_SIZE
  BY DEF Release, MemTypes
<1>2. /\ room' \in [Blocks -> Nat] /\ header' = room' /\ room'[p] = 0
      /\ \A q \in Blocks : q # p => room'[q] = room[q]
  BY <1>1 DEF MemTypes
<1>3. InProgram(p)
  BY DEF InProgram
<1>4. /\ CachePlaces(p) = {} /\ PoolPlaces(p) = {} /\ HandPlaces(p) = {}
  BY <1>3, PlaceIs
<1>5. /\ inUse' \subseteq [block : Blocks, asked : AskedSizes]
      /\ \A v, w \in inUse' : v.block = w.block => v = w
      /\ ~ InProgram(p)'
      /\ \A q \in Blocks : q # p => InProgram(q)' = InProgram(q)
  BY <1>1, ProgramGives
<1>a. /\ \A s \in MemThreads : \A i \in Indices : p \notin cache[s][i]
      /\ \A c \in Classes : p \notin pool[c]
      /\ \A s \in MemThreads :
           /\ memCall[s].at \in {"pop", "flush", "push", "last"} => memCall[s].block # p
           /\ memCall[s].at = "push" => memCall[s].flushed # p
  BY <1>3, Nowhere
<1>b. \A s \in MemThreads :
        /\ memCall[s].at \in {"pop", "flush", "push", "last"} => room'[memCall[s].block] = room[memCall[s].block]
        /\ memCall[s].at = "push" => room'[memCall[s].flushed] = room[memCall[s].flushed]
  BY <1>2, <1>a, CallIs
<1>6. MemTypes'
  BY <1>1, <1>2, <1>5 DEF MemTypes
<1>7. HomePart'
  <2>1. \A v \in inUse' : room'[v.block] = SizeFor(v.asked)
    <3> SUFFICES ASSUME NEW v \in inUse, v # u PROVE room'[v.block] = SizeFor(v.asked)
      BY <1>1
    <3>1. v.block \in Blocks /\ v.block # p /\ room[v.block] = SizeFor(v.asked)
      BY DEF MemTypes, HomePart, PlacePart
    <3> QED  BY <1>2, <3>1
  <2>2. \A s \in MemThreads : \A i \in Indices : \A q \in cache[s][i] : q \in Blocks /\ q # p
    BY <1>a DEF MemTypes
  <2>3. \A c \in Classes : \A q \in pool[c] : q \in Blocks /\ q # p
    BY <1>a DEF MemTypes
  <2>4. \A s \in MemThreads : CallHome(memCall[s])'
    BY <1>1, <1>b DEF HomePart, CallHome
  <2>5. /\ \A s \in MemThreads : \A i \in Indices : \A q \in cache'[s][i] :
             room'[q] \in Classes /\ PoolIdx(room'[q]) = i
        /\ \A c \in Classes : \A q \in pool'[c] : room'[q] = c
    BY <1>1, <1>2, <2>2, <2>3 DEF HomePart
  <2> QED  BY <1>1, <2>1, <2>4, <2>5 DEF HomePart
<1>8. LimitPart'
  <2>1. (\A i \in Indices : Cardinality(cache'[t][i]) <= MAX_LOCAL_CACHE) /\ CallLimit(t)'
    BY <1>1, <1>b DEF LimitPart, CallLimit
  <2> QED  BY <1>1, <1>b, <2>1, LimitMoves
<1>9. PlacePart'
  <2>1. OnePlace(p)'
    BY <1>1, <1>2, <1>4, <1>5, Unmoved DEF OnePlace
  <2> QED  BY <1>1, <1>2, <1>5, <2>1, Unmoved, PlacesMove
<1>10. CountPart'
  <2>1. ASSUME NEW c \in Classes PROVE MadeBlocks(c)' = MadeBlocks(c) /\ Moves(c)' = Moves(c)
    <3>1. c \in Nat /\ 0 < c /\ c <= MAX_ALLOC_SIZE /\ MAX_ALLOC_SIZE \in Nat /\ room[p] \in Nat
      BY ClassFacts DEF MAX_ALLOC_SIZE, MemTypes
    <3>2. c # 0 /\ c # room[p]
      BY <1>1, <3>1
    <3>3. MadeBlocks(c)' = MadeBlocks(c)
      BY <1>2, <3>2 DEF MadeBlocks
    <3>4. Moves(c)' = Moves(c)
      BY <1>1, <1>b DEF Moves
    <3> QED  BY <3>3, <3>4
  <2> QED  BY <1>1, <2>1 DEF CountPart
<1> QED  BY <1>6, <1>7, <1>8, <1>9, <1>10

(* A block of a class that the program gives back: its class and index.       *)
LEMMA ReleasedClass ==
  ASSUME MemTypes, HomePart, NEW u \in inUse, ~ header[u.block] > MAX_ALLOC_SIZE
  PROVE  room[u.block] \in Classes /\ PoolIdx(room[u.block]) \in Indices
<1>1. /\ u.asked \in AskedSizes /\ room[u.block] = SizeFor(u.asked) /\ room[u.block] = header[u.block]
  BY DEF MemTypes, HomePart
<1>2. u.asked \in Nat /\ MAX_ALLOC_SIZE \in Nat
  <2>1. \A n \in AskedSizes : n \in Nat
    BY MemAssumption
  <2> QED  BY <1>1, <2>1 DEF MAX_ALLOC_SIZE
<1>3. u.asked <= MAX_ALLOC_SIZE
  BY <1>1, <1>2 DEF SizeFor
<1> QED  BY <1>1, <1>2, <1>3, ClassFacts DEF SizeFor

LEMMA ReleaseCachedKeeps ==
  ASSUME MemInv, NEW t \in MemThreads, NEW u \in inUse, Release(t, u),
         ~ header[u.block] > MAX_ALLOC_SIZE,
         Cardinality(cache[t][PoolIdx(header[u.block])]) < MAX_LOCAL_CACHE
  PROVE  MemInv'
<1> USE DEF MemInv
<1> PICK p \in Blocks, class \in Classes, i \in Indices :
      p = u.block /\ class = room[p] /\ i = PoolIdx(class)
  BY ReleasedClass DEF MemTypes
<1>c. cache[t][i] \in SUBSET Blocks
  BY DEF MemTypes
<1> PICK S \in SUBSET Blocks : S = cache[t][i] \cup {p}
  BY <1>c
<1>0. /\ MemTypes /\ t \in MemThreads /\ i \in Indices /\ S \in SUBSET Blocks /\ p \in Blocks
      /\ class \in Classes
  OBVIOUS
<1>1. /\ UNCHANGED <<header, room, pool, allocCount, useCount, memCall>>
      /\ inUse' = inUse \ {u} /\ SetCache(t, i, S) /\ memCall[t].at = "idle"
      /\ Cardinality(cache[t][i]) < MAX_LOCAL_CACHE
      /\ \A q \in Blocks : q # p => (q \in S <=> q \in cache[t][i])
  <2>1. header[u.block] = class /\ PoolIdx(header[u.block]) = i
    BY DEF MemTypes
  <2>2. UNCHANGED <<header, room, pool, allocCount, useCount, memCall>> /\ inUse' = inUse \ {u}
    BY DEF Release
  <2>3. cache' = [cache EXCEPT ![t][i] = @ \cup {p}]
    BY <2>1 DEF Release
  <2>4. SetCache(t, i, S)
    BY <2>3 DEF SetCache
  <2>5. memCall[t].at = "idle"
    BY DEF Release, NotInCall
  <2> QED  BY <2>1, <2>2, <2>4, <2>5
<1>2. /\ cache' \in [MemThreads -> [Indices -> SUBSET Blocks]] /\ cache'[t][i] = S
      /\ \A s \in MemThreads : \A j \in Indices : s # t \/ j # i => cache'[s][j] = cache[s][j]
      /\ \A q \in Blocks : /\ q \in S => CachePlaces(q)' = CachePlaces(q) \cup {<<t, i>>}
                           /\ q \notin S => CachePlaces(q)' = CachePlaces(q) \ {<<t, i>>}
                           /\ q \in cache[t][i] <=> <<t, i>> \in CachePlaces(q)
                           /\ (q \in S <=> q \in cache[t][i]) => CachePlaces(q)' = CachePlaces(q)
  BY <1>0, <1>1, CacheMoves
<1>3. InProgram(p)
  BY DEF InProgram
<1>4. /\ room[p] # 0 /\ CachePlaces(p) = {} /\ PoolPlaces(p) = {} /\ HandPlaces(p) = {}
  BY <1>3, PlaceIs
<1>5. /\ inUse' \subseteq [block : Blocks, asked : AskedSizes]
      /\ \A v, w \in inUse' : v.block = w.block => v = w
      /\ ~ InProgram(p)'
      /\ \A q \in Blocks : q # p => InProgram(q)' = InProgram(q)
  BY <1>1, ProgramGives
<1>6. MemTypes'
  BY <1>1, <1>2, <1>5 DEF MemTypes
<1>7. HomePart'
  <2>1. \A s \in MemThreads : \A j \in Indices : \A q \in cache'[s][j] :
          room'[q] \in Classes /\ PoolIdx(room'[q]) = j
    BY <1>0, <1>1, <1>2 DEF HomePart
  <2>2. \A s \in MemThreads : CallHome(memCall[s])'
    BY <1>1 DEF HomePart, CallHome
  <2> QED  BY <1>1, <2>1, <2>2 DEF HomePart
<1>8. LimitPart'
  <2>1. \A j \in Indices : Cardinality(cache'[t][j]) <= MAX_LOCAL_CACHE
    <3> SUFFICES ASSUME NEW j \in Indices PROVE Cardinality(cache'[t][j]) <= MAX_LOCAL_CACHE
      OBVIOUS
    <3>1. CASE j # i
      BY <1>2, <3>1 DEF LimitPart
    <3>2. CASE j = i
      <4>1. p \notin cache[t][i]
        BY <1>0, <1>2, <1>4
      <4>2. /\ Cardinality(cache[t][i] \cup {p}) = Cardinality(cache[t][i]) + 1
            /\ Cardinality(cache[t][i]) \in Nat
        BY <1>c, <4>1, CountBlocks
      <4>3. Cardinality(cache'[t][j]) = Cardinality(cache[t][i]) + 1
        BY <1>2, <3>2, <4>2
      <4> QED  BY <1>1, <4>2, <4>3, MemAssumption
    <3> QED  BY <3>1, <3>2
  <2>2. CallLimit(t)'
    BY <1>1 DEF CallLimit
  <2>3. \A s \in MemThreads : s # t => cache'[s] = cache[s]
    BY <1>1 DEF MemTypes, SetCache
  <2> QED  BY <1>1, <2>1, <2>2, <2>3, LimitMoves
<1>9. PlacePart'
  <2>1. OnePlace(p)'
    <3>1. CachePlaces(p)' = {<<t, i>>}
      BY <1>2, <1>4
    <3> QED  BY <1>1, <1>4, <1>5, <3>1, Unmoved DEF OnePlace
  <2>2. \A q \in Blocks : q # p => CachePlaces(q)' = CachePlaces(q)
    BY <1>1, <1>2
  <2> QED  BY <1>0, <1>1, <1>5, <2>1, <2>2, Unmoved, PlacesMove
<1>10. CountPart'
  BY <1>1, SMTT(30) DEF CountPart, MadeBlocks, Moves
<1> QED  BY <1>6, <1>7, <1>8, <1>9, <1>10

LEMMA ReleaseFlushKeeps ==
  ASSUME MemInv, NEW t \in MemThreads, NEW u \in inUse, Release(t, u),
         ~ header[u.block] > MAX_ALLOC_SIZE,
         ~ Cardinality(cache[t][PoolIdx(header[u.block])]) < MAX_LOCAL_CACHE
  PROVE  MemInv'
<1> USE DEF MemInv
<1> PICK p \in Blocks, class \in Classes, i \in Indices :
      p = u.block /\ class = room[p] /\ i = PoolIdx(class)
  BY ReleasedClass DEF MemTypes
<1> PICK k \in CallShapes : k = [at |-> "flush", block |-> p, left |-> BATCH_SIZE]
  <2>1. BATCH_SIZE \in 0..BATCH_SIZE
    BY MemAssumption
  <2>2. [at |-> "flush", block |-> p, left |-> BATCH_SIZE] \in CallShapes
    BY <2>1 DEF CallShapes
  <2> QED  BY <2>2
<1>0. MemTypes /\ t \in MemThreads /\ i \in Indices /\ p \in Blocks /\ class \in Classes /\ k \in CallShapes
  OBVIOUS
<1>1. /\ UNCHANGED <<header, room, cache, pool, allocCount, useCount>>
      /\ inUse' = inUse \ {u} /\ SetCall(t, k) /\ memCall[t].at = "idle" /\ Hold(memCall[t]) = {}
      /\ k.at = "flush" /\ k.block = p /\ k.left = BATCH_SIZE /\ Hold(k) = {p}
  <2>1. UNCHANGED <<header, room, cache, pool, allocCount, useCount>> /\ inUse' = inUse \ {u}
    BY DEF Release
  <2>2. SetCall(t, k)
    BY DEF SetCall, Release
  <2>3. memCall[t].at = "idle" /\ Hold(memCall[t]) = {}
    BY DEF Release, NotInCall, Hold
  <2>4. k.at = "flush" /\ k.block = p /\ k.left = BATCH_SIZE /\ Hold(k) = {p}
    BY DEF Hold
  <2> QED  BY <2>1, <2>2, <2>3, <2>4
<1>2. /\ memCall' \in [MemThreads -> CallShapes] /\ memCall'[t] = k
      /\ \A s \in MemThreads : s # t => memCall'[s] = memCall[s]
      /\ \A q \in Blocks : /\ q \in Hold(k) => HandPlaces(q)' = HandPlaces(q) \cup {t}
                           /\ (q \in Hold(k) <=> q \in Hold(memCall[t])) => HandPlaces(q)' = HandPlaces(q)
  BY <1>0, <1>1, CallMoves
<1>3. InProgram(p)
  BY DEF InProgram
<1>4. /\ room[p] # 0 /\ CachePlaces(p) = {} /\ PoolPlaces(p) = {} /\ HandPlaces(p) = {}
  BY <1>3, PlaceIs
<1>5. /\ inUse' \subseteq [block : Blocks, asked : AskedSizes]
      /\ \A v, w \in inUse' : v.block = w.block => v = w
      /\ ~ InProgram(p)'
      /\ \A q \in Blocks : q # p => InProgram(q)' = InProgram(q)
  BY <1>1, ProgramGives
<1>6. MemTypes'
  BY <1>1, <1>2, <1>5 DEF MemTypes
<1>7. HomePart'
  <2>1. CallHome(memCall[t])'
    BY <1>0, <1>1, <1>2 DEF CallHome
  <2>2. \A s \in MemThreads : s # t => CallHome(memCall[s])'
    BY <1>1, <1>2 DEF HomePart, CallHome
  <2> QED  BY <1>1, <2>1, <2>2 DEF HomePart
<1>8. LimitPart'
  <2>1. \A j \in Indices : Cardinality(cache'[t][j]) <= MAX_LOCAL_CACHE
    BY <1>1 DEF LimitPart
  <2>2. CallLimit(t)'
    <3>1. Cardinality(cache[t][i]) <= MAX_LOCAL_CACHE /\ Cardinality(cache[t][i]) \in Nat
      <4>1. cache[t][i] \in SUBSET Blocks
        BY DEF MemTypes
      <4> QED  BY <4>1, CountBlocks DEF LimitPart
    <3>2. memCall'[t] = k /\ room'[p] = class /\ cache' = cache
      BY <1>1, <1>2
    <3> QED  BY <1>1, <3>1, <3>2, MemAssumption DEF CallLimit
  <2> QED  BY <1>1, <1>2, <2>1, <2>2, LimitMoves
<1>9. PlacePart'
  <2>1. OnePlace(p)'
    <3>1. HandPlaces(p)' = {t}
      BY <1>1, <1>2, <1>4
    <3> QED  BY <1>1, <1>4, <1>5, <3>1, Unmoved DEF OnePlace
  <2>2. \A q \in Blocks : q # p => HandPlaces(q)' = HandPlaces(q)
    BY <1>1, <1>2
  <2> QED  BY <1>0, <1>1, <1>5, <2>1, <2>2, Unmoved, PlacesMove
<1>10. CountPart'
  <2>1. ASSUME NEW c \in Classes PROVE Moves(c)' = Moves(c)
    <3>1. Moves(c)' = Moves(c) \ {t} /\ t \notin Moves(c)
      BY <1>0, <1>1, MovesMove
    <3> QED  BY <3>1
  <2> QED  BY <1>1, <2>1 DEF CountPart, MadeBlocks
<1> QED  BY <1>6, <1>7, <1>8, <1>9, <1>10

LEMMA FlushPopKeeps ==
  ASSUME MemInv, NEW t \in MemThreads, FlushPop(t)
  PROVE  MemInv'
<1> USE DEF MemInv
<1>h. memCall[t].at = "flush"
  BY DEF FlushPop
<1> PICK b \in Blocks, left \in 0..BATCH_SIZE : b = memCall[t].block /\ left = memCall[t].left
  BY <1>h, CallIs
<1> PICK class \in Classes, i \in Indices : class = room[b] /\ i = PoolIdx(class)
  BY <1>h, ClassFacts DEF HomePart, CallHome
<1>c. header[b] = class /\ cache[t][i] \in SUBSET Blocks
  BY DEF MemTypes
<1>e. PICK p \in cache[t][i] :
      /\ cache' = [cache EXCEPT ![t][i] = @ \ {p}]
      /\ useCount' = [useCount EXCEPT ![class] = @ - 1]
      /\ memCall' = [memCall EXCEPT ![t] = [at |-> "push", block |-> @.block,
                                                left |-> @.left - 1, flushed |-> p]]
  BY <1>c DEF FlushPop
<1>p. p \in Blocks
  BY <1>c
<1>l. left > 0 /\ left - 1 \in 0..BATCH_SIZE /\ left - 1 < BATCH_SIZE
  BY <1>h, MemAssumption DEF LimitPart, CallLimit
<1> PICK k \in CallShapes : k = [at |-> "push", block |-> b, left |-> left - 1, flushed |-> p]
  <2>1. [at |-> "push", block |-> b, left |-> left - 1, flushed |-> p] \in CallShapes
    BY <1>p, <1>l DEF CallShapes
  <2> QED  BY <2>1
<1> PICK S \in SUBSET Blocks : S = cache[t][i] \ {p}
  BY <1>c
<1>0. /\ MemTypes /\ t \in MemThreads /\ i \in Indices /\ S \in SUBSET Blocks /\ class \in Classes
      /\ k \in CallShapes /\ b \in Blocks /\ p \in Blocks
  BY <1>p
<1>1. /\ UNCHANGED <<header, room, inUse, pool, allocCount>>
      /\ SetCache(t, i, S) /\ SetCall(t, k)
      /\ k.at = "push" /\ k.block = b /\ k.left = left - 1 /\ k.flushed = p /\ Hold(k) = {b, p}
      /\ Hold(memCall[t]) = {b} /\ p \notin S
      /\ \A q \in Blocks : q # p => (q \in S <=> q \in cache[t][i])
  <2>1. UNCHANGED <<header, room, inUse, pool, allocCount>>
    BY DEF FlushPop
  <2>2. SetCache(t, i, S) /\ SetCall(t, k)
    BY <1>e DEF SetCache, SetCall
  <2>3. k.at = "push" /\ k.block = b /\ k.left = left - 1 /\ k.flushed = p /\ Hold(k) = {b, p}
    BY DEF Hold
  <2>4. Hold(memCall[t]) = {b}
    BY <1>h DEF Hold
  <2>5. p \notin S /\ \A q \in Blocks : q # p => (q \in S <=> q \in cache[t][i])
    OBVIOUS
  <2> QED  BY <2>1, <2>2, <2>3, <2>4, <2>5
<1>2. /\ cache' \in [MemThreads -> [Indices -> SUBSET Blocks]] /\ cache'[t][i] = S
      /\ \A s \in MemThreads : \A j \in Indices : s # t \/ j # i => cache'[s][j] = cache[s][j]
      /\ \A q \in Blocks : /\ q \in S => CachePlaces(q)' = CachePlaces(q) \cup {<<t, i>>}
                           /\ q \notin S => CachePlaces(q)' = CachePlaces(q) \ {<<t, i>>}
                           /\ q \in cache[t][i] <=> <<t, i>> \in CachePlaces(q)
                           /\ (q \in S <=> q \in cache[t][i]) => CachePlaces(q)' = CachePlaces(q)
  <2>1. MemTypes /\ t \in MemThreads /\ i \in Indices /\ S \in SUBSET Blocks
    BY <1>0
  <2>2. SetCache(t, i, S)
    BY <1>1
  <2> QED  BY <2>1, <2>2, CacheMoves, SMTT(60)
<1>3. /\ memCall' \in [MemThreads -> CallShapes] /\ memCall'[t] = k
      /\ \A s \in MemThreads : s # t => memCall'[s] = memCall[s]
      /\ \A q \in Blocks : /\ q \in Hold(k) => HandPlaces(q)' = HandPlaces(q) \cup {t}
                           /\ q \notin Hold(k) => HandPlaces(q)' = HandPlaces(q) \ {t}
                           /\ q \in Hold(memCall[t]) <=> t \in HandPlaces(q)
                           /\ (q \in Hold(k) <=> q \in Hold(memCall[t])) => HandPlaces(q)' = HandPlaces(q)
  BY <1>0, <1>1, CallMoves, SMTT(30)
<1>4. /\ room[p] # 0 /\ ~ InProgram(p) /\ PoolPlaces(p) = {} /\ p # b
      /\ CachePlaces(p)' = {} /\ HandPlaces(p)' = {t}
  <2>1. <<t, i>> \in CachePlaces(p)
    BY <1>0, <1>2
  <2>2. /\ room[p] # 0 /\ ~ InProgram(p) /\ PoolPlaces(p) = {}
        /\ CachePlaces(p) = {<<t, i>>} /\ HandPlaces(p) = {}
    BY <1>0, <2>1, PlaceIs
  <2>3. t \in HandPlaces(b)
    BY <1>0, <1>1, <1>3
  <2> QED  BY <1>0, <1>1, <1>2, <1>3, <2>2, <2>3
<1>5. room[p] = class
  <2>1. room[p] \in Classes /\ PoolIdx(room[p]) = i
    BY DEF HomePart
  <2> QED  BY <2>1, ClassFacts
<1>6. MemTypes'
  <2>1. useCount' \in [Classes -> Int]
    BY <1>e DEF MemTypes
  <2> QED  BY <1>1, <1>2, <1>3, <2>1 DEF MemTypes
<1>7. HomePart'
  <2>1. \A s \in MemThreads : \A j \in Indices : \A q \in cache'[s][j] : q \in cache[s][j]
    BY <1>2
  <2>2. CallHome(memCall[t])'
    BY <1>1, <1>3, <1>4, <1>5 DEF CallHome
  <2>3. \A s \in MemThreads : s # t => CallHome(memCall[s])'
    BY <1>1, <1>3, SMTT(60) DEF HomePart, CallHome
  <2> QED  BY <1>1, <2>1, <2>2, <2>3 DEF HomePart
<1>8. LimitPart'
  <2>1. /\ Cardinality(S) = Cardinality(cache[t][i]) - 1
        /\ Cardinality(S) \in Nat /\ Cardinality(cache[t][i]) \in Nat
    BY <1>c, CountBlocks
  <2>2. Cardinality(cache[t][i]) + BATCH_SIZE <= MAX_LOCAL_CACHE + left
        /\ Cardinality(cache[t][i]) <= MAX_LOCAL_CACHE
    BY <1>h DEF LimitPart, CallLimit
  <2>3. \A j \in Indices : Cardinality(cache'[t][j]) <= MAX_LOCAL_CACHE
    <3> SUFFICES ASSUME NEW j \in Indices PROVE Cardinality(cache'[t][j]) <= MAX_LOCAL_CACHE
      OBVIOUS
    <3>1. CASE j # i
      BY <1>2, <3>1 DEF LimitPart
    <3>2. CASE j = i
      <4>1. cache'[t][j] = S
        BY <1>2, <3>2
      <4>2. Cardinality(S) <= MAX_LOCAL_CACHE
        BY <2>1, <2>2, MemAssumption, SMTT(60)
      <4> QED  BY <4>1, <4>2
    <3> QED  BY <3>1, <3>2
  <2>4. CallLimit(t)'
    <3>1. memCall'[t] = k /\ room'[b] = class /\ cache'[t][i] = S
      BY <1>1, <1>2, <1>3
    <3>2. Cardinality(S) + BATCH_SIZE <= MAX_LOCAL_CACHE + (left - 1)
      BY <2>1, <2>2, MemAssumption, SMTT(60)
    <3> QED  BY <1>1, <1>l, <3>1, <3>2 DEF CallLimit
  <2>5. \A s \in MemThreads : s # t => cache'[s] = cache[s]
    BY <1>1 DEF MemTypes, SetCache
  <2> QED  BY <1>1, <1>3, <2>3, <2>4, <2>5, LimitMoves
<1>9. PlacePart'
  <2>1. OnePlace(p)'
    BY <1>0, <1>1, <1>4, Unmoved DEF OnePlace
  <2>2. \A q \in Blocks : q # p => CachePlaces(q)' = CachePlaces(q) /\ HandPlaces(q)' = HandPlaces(q)
    BY <1>1, <1>2, <1>3
  <2>3. \A u, v \in inUse' : u.block = v.block => u = v
    BY <1>1 DEF PlacePart
  <2> QED  BY <1>0, <1>1, <2>1, <2>2, <2>3, Unmoved, PlacesMove
<1>10. CountPart'
  <2> SUFFICES ASSUME NEW c \in Classes
               PROVE  /\ allocCount'[c] = Cardinality(MadeBlocks(c)')
                      /\ useCount'[c] = allocCount'[c] - Cardinality(pool'[c]) - Cardinality(Moves(c)')
    BY DEF CountPart
  <2>1. /\ allocCount[c] = Cardinality(MadeBlocks(c))
        /\ useCount[c] = allocCount[c] - Cardinality(pool[c]) - Cardinality(Moves(c))
        /\ useCount[c] \in Int /\ allocCount[c] \in Nat
    BY DEF CountPart, MemTypes
  <2>2. MadeBlocks(c)' = MadeBlocks(c) /\ UNCHANGED <<allocCount, pool>>
    BY <1>1 DEF MadeBlocks
  <2>3. /\ Moves(c) \in SUBSET MemThreads /\ t \notin Moves(c)
        /\ c = class => Moves(c)' = Moves(c) \cup {t}
        /\ c # class => Moves(c)' = Moves(c) \ {t}
    BY <1>0, <1>1, <1>h, MovesMove, SMTT(30)
  <2>4. Cardinality(pool[c]) \in Nat
    BY CountBlocks DEF MemTypes
  <2>5. CASE c = class
    <3>1. Cardinality(Moves(c)') = Cardinality(Moves(c)) + 1 /\ Cardinality(Moves(c)) \in Nat
      <4>1. Cardinality(Moves(c) \cup {t}) = Cardinality(Moves(c)) + 1 /\ Cardinality(Moves(c)) \in Nat
        BY <2>3, CountThreads
      <4> QED  BY <2>3, <2>5, <4>1
    <3>2. useCount'[c] = useCount[c] - 1
      BY <1>e, <2>5 DEF MemTypes
    <3> QED  BY <2>1, <2>2, <2>4, <3>1, <3>2
  <2>6. CASE c # class
    <3>1. Moves(c)' = Moves(c)
      BY <2>3, <2>6
    <3>2. useCount'[c] = useCount[c]
      BY <1>e, <2>6 DEF MemTypes
    <3> QED  BY <2>1, <2>2, <3>1, <3>2
  <2> QED  BY <2>5, <2>6
<1> QED  BY <1>6, <1>7, <1>8, <1>9, <1>10

LEMMA MovesFewer ==
  ASSUME MemTypes, NEW t \in MemThreads, memCall[t].at = "push",
         NEW k \in CallShapes, SetCall(t, k), k.at \notin {"pop", "push"}, UNCHANGED room
  PROVE  \A c \in Classes :
           /\ Cardinality(Moves(c)) \in Nat
           /\ Cardinality(Moves(c)') = IF c = room[memCall[t].block] THEN Cardinality(Moves(c)) - 1
                                       ELSE Cardinality(Moves(c))
<1> SUFFICES ASSUME NEW c \in Classes
             PROVE  /\ Cardinality(Moves(c)) \in Nat
                    /\ Cardinality(Moves(c)') = IF c = room[memCall[t].block] THEN Cardinality(Moves(c)) - 1
                                                ELSE Cardinality(Moves(c))
  OBVIOUS
<1>1. /\ Moves(c) \in SUBSET MemThreads /\ Moves(c)' = Moves(c) \ {t}
      /\ t \in Moves(c) <=> c = room[memCall[t].block]
  BY MovesMove
<1>2. /\ Cardinality(Moves(c)) \in Nat
      /\ Cardinality(Moves(c) \ {t}) = IF t \in Moves(c) THEN Cardinality(Moves(c)) - 1
                                       ELSE Cardinality(Moves(c))
  BY <1>1, CountThreads
<1> QED  BY <1>1, <1>2

LEMMA FlushPushKeeps ==
  ASSUME MemInv, NEW t \in MemThreads, FlushPush(t)
  PROVE  MemInv'
<1> USE DEF MemInv
<1>h. memCall[t].at = "push"
  BY DEF FlushPush
<1>b. PICK b \in Blocks, p \in Blocks, left \in 0..BATCH_SIZE :
      b = memCall[t].block /\ p = memCall[t].flushed /\ left = memCall[t].left
  BY <1>h, CallIs
<1>d. PICK class \in Classes : class = room[b] /\ class = room[p] /\ p # b
  BY <1>b, <1>h DEF HomePart, CallHome
<1>c. header[b] = class /\ pool[class] \in SUBSET Blocks
  BY <1>d DEF MemTypes
<1>m. ASSUME NEW k \in CallShapes, SetCall(t, k), k.at \notin {"pop", "push"}, UNCHANGED room
      PROVE  \A c \in Classes : /\ Cardinality(Moves(c)) \in Nat
                                 /\ Cardinality(Moves(c)') = IF c = class THEN Cardinality(Moves(c)) - 1
                                                             ELSE Cardinality(Moves(c))
  <2>1. room[memCall[t].block] = class /\ memCall[t].at = "push"
    BY <1>b, <1>d, <1>h
  <2> QED  BY <2>1, <1>m, MovesFewer
<1>s. PICK S \in SUBSET Blocks : S = pool[class] \cup {p}
  BY <1>c
<1>k. PICK k \in CallShapes : k = [at |-> IF left = 0 THEN "last" ELSE "flush", block |-> b, left |-> left]
  <2>1. [at |-> IF left = 0 THEN "last" ELSE "flush", block |-> b, left |-> left]
          \in [at : {"flush", "last"}, block : Blocks, left : 0..BATCH_SIZE]
    OBVIOUS
  <2> QED  BY <2>1 DEF CallShapes
<1>0. /\ MemTypes /\ t \in MemThreads /\ S \in SUBSET Blocks /\ class \in Classes
      /\ k \in CallShapes /\ b \in Blocks /\ p \in Blocks /\ left \in 0..BATCH_SIZE
  OBVIOUS
<1>1. /\ UNCHANGED <<header, room, inUse, cache, allocCount, useCount>>
      /\ SetPool(class, S) /\ SetCall(t, k)
      /\ k.at = (IF left = 0 THEN "last" ELSE "flush") /\ k.block = b /\ k.left = left
      /\ k.at \in {"flush", "last"}
      /\ Hold(k) = {b} /\ Hold(memCall[t]) = {b, p} /\ p \in S
      /\ \A q \in Blocks : q # p => (q \in S <=> q \in pool[class])
  <2>1. UNCHANGED <<header, room, inUse, cache, allocCount, useCount>>
    BY DEF FlushPush
  <2>2. SetPool(class, S)
    BY <1>b, <1>c, <1>s DEF SetPool, FlushPush
  <2>3. SetCall(t, k)
    BY <1>b, <1>k DEF SetCall, FlushPush
  <2>4. k.at = (IF left = 0 THEN "last" ELSE "flush") /\ k.block = b /\ k.left = left
        /\ k.at \in {"flush", "last"}
    BY <1>k
  <2>5. Hold(k) = {b} /\ Hold(memCall[t]) = {b, p}
    BY <1>b, <1>h, <2>4 DEF Hold
  <2>6. p \in S /\ \A q \in Blocks : q # p => (q \in S <=> q \in pool[class])
    BY <1>s
  <2> QED  BY <2>1, <2>2, <2>3, <2>4, <2>5, <2>6
<1>2. /\ pool' \in [Classes -> SUBSET Blocks] /\ pool'[class] = S
      /\ \A d \in Classes : d # class => pool'[d] = pool[d]
      /\ \A q \in Blocks : /\ q \in S => PoolPlaces(q)' = PoolPlaces(q) \cup {class}
                           /\ q \notin S => PoolPlaces(q)' = PoolPlaces(q) \ {class}
                           /\ q \in pool[class] <=> class \in PoolPlaces(q)
                           /\ (q \in S <=> q \in pool[class]) => PoolPlaces(q)' = PoolPlaces(q)
  BY <1>0, <1>1, PoolMoves
<1>3. /\ memCall' \in [MemThreads -> CallShapes] /\ memCall'[t] = k
      /\ \A s \in MemThreads : s # t => memCall'[s] = memCall[s]
      /\ \A q \in Blocks : /\ q \in Hold(k) => HandPlaces(q)' = HandPlaces(q) \cup {t}
                           /\ q \notin Hold(k) => HandPlaces(q)' = HandPlaces(q) \ {t}
                           /\ q \in Hold(memCall[t]) <=> t \in HandPlaces(q)
                           /\ (q \in Hold(k) <=> q \in Hold(memCall[t])) => HandPlaces(q)' = HandPlaces(q)
  BY <1>0, <1>1, CallMoves
<1>4. /\ room[p] # 0 /\ ~ InProgram(p) /\ CachePlaces(p) = {} /\ p \notin pool[class]
      /\ PoolPlaces(p)' = {class} /\ HandPlaces(p)' = {}
  <2>1. t \in HandPlaces(p)
    BY <1>0, <1>1, <1>3
  <2>2. /\ room[p] # 0 /\ ~ InProgram(p) /\ CachePlaces(p) = {}
        /\ PoolPlaces(p) = {} /\ HandPlaces(p) = {t}
    BY <1>0, <2>1, PlaceIs
  <2> QED  BY <1>0, <1>1, <1>2, <1>3, <1>d, <2>2
<1>5. MemTypes'
  BY <1>1, <1>2, <1>3 DEF MemTypes
<1>6. HomePart'
  <2>1. \A c \in Classes : \A q \in pool'[c] : room'[q] = c
    <3> SUFFICES ASSUME NEW c \in Classes, NEW q \in pool'[c] PROVE room'[q] = c
      OBVIOUS
    <3>1. q \in pool[c] \/ (q = p /\ c = class)
      BY <1>2, <1>s
    <3> QED  BY <1>1, <1>d, <3>1 DEF HomePart
  <2>2. CallHome(memCall[t])'
    <3>1. memCall'[t] = k /\ room'[b] = class /\ k.at # "pop" /\ k.at # "push"
      BY <1>1, <1>3, <1>d
    <3> QED  BY <1>0, <1>1, <3>1 DEF CallHome
  <2>3. \A s \in MemThreads : s # t => CallHome(memCall[s])'
    BY <1>1, <1>3 DEF HomePart, CallHome
  <2> QED  BY <1>1, <2>1, <2>2, <2>3 DEF HomePart
<1>7. LimitPart'
  <2>1. \A j \in Indices : Cardinality(cache'[t][j]) <= MAX_LOCAL_CACHE
    BY <1>1 DEF LimitPart
  <2>2. Cardinality(cache[t][PoolIdx(class)]) + BATCH_SIZE <= MAX_LOCAL_CACHE + left
    BY <1>b, <1>d, <1>h DEF LimitPart, CallLimit
  <2>3. CallLimit(t)'
    <3>1. memCall'[t] = k /\ room'[b] = class /\ cache' = cache
      BY <1>1, <1>3, <1>d
    <3> QED  BY <1>0, <1>1, <2>2, <3>1 DEF CallLimit
  <2> QED  BY <1>1, <1>3, <2>1, <2>3, LimitMoves
<1>8. PlacePart'
  <2>1. OnePlace(p)'
    BY <1>0, <1>1, <1>4, Unmoved DEF OnePlace
  <2>2. \A q \in Blocks : q # p => PoolPlaces(q)' = PoolPlaces(q) /\ HandPlaces(q)' = HandPlaces(q)
    BY <1>1, <1>2, <1>3
  <2>3. \A u, v \in inUse' : u.block = v.block => u = v
    BY <1>1 DEF PlacePart
  <2> QED  BY <1>0, <1>1, <2>1, <2>2, <2>3, Unmoved, PlacesMove
<1>n. \A c \in Classes : /\ Cardinality(Moves(c)) \in Nat
                          /\ Cardinality(Moves(c)') = IF c = class THEN Cardinality(Moves(c)) - 1
                                                      ELSE Cardinality(Moves(c))
  <2>1. k \in CallShapes
    BY <1>0
  <2>2. SetCall(t, k)
    BY <1>1
  <2>3. k.at \notin {"pop", "push"}
    BY <1>1
  <2>4. UNCHANGED room
    BY <1>1
  <2> QED  BY <2>1, <2>2, <2>3, <2>4, <1>m
<1>9. CountPart'
  <2> SUFFICES ASSUME NEW c \in Classes
               PROVE  /\ allocCount'[c] = Cardinality(MadeBlocks(c)')
                      /\ useCount'[c] = allocCount'[c] - Cardinality(pool'[c]) - Cardinality(Moves(c)')
    BY DEF CountPart
  <2>1. /\ allocCount[c] = Cardinality(MadeBlocks(c))
        /\ useCount[c] = allocCount[c] - Cardinality(pool[c]) - Cardinality(Moves(c))
        /\ useCount[c] \in Int /\ allocCount[c] \in Nat
    BY DEF CountPart, MemTypes
  <2>2. MadeBlocks(c)' = MadeBlocks(c) /\ UNCHANGED <<allocCount, useCount>>
    BY <1>1 DEF MadeBlocks
  <2>3. /\ Cardinality(Moves(c)) \in Nat
        /\ Cardinality(Moves(c)') = IF c = class THEN Cardinality(Moves(c)) - 1
                                    ELSE Cardinality(Moves(c))
    BY <1>n
  <2>4. CASE c = class
    <3>1. Cardinality(pool'[c]) = Cardinality(pool[c]) + 1 /\ Cardinality(pool[c]) \in Nat
      <4>1. Cardinality(pool[class] \cup {p}) = Cardinality(pool[class]) + 1 /\ Cardinality(pool[class]) \in Nat
        BY <1>c, <1>4, CountBlocks
      <4> QED  BY <1>2, <1>s, <2>4, <4>1
    <3> QED  BY <2>1, <2>2, <2>3, <2>4, <3>1
  <2>5. CASE c # class
    <3>1. pool'[c] = pool[c]
      BY <1>2, <2>5
    <3> QED  BY <2>1, <2>2, <2>3, <2>5, <3>1
  <2> QED  BY <2>4, <2>5
<1> QED  BY <1>5, <1>6, <1>7, <1>8, <1>9

LEMMA ReleaseEndKeeps ==
  ASSUME MemInv, NEW t \in MemThreads, ReleaseEnd(t)
  PROVE  MemInv'
<1> USE DEF MemInv
<1>h. memCall[t].at = "last"
  BY DEF ReleaseEnd
<1>b. PICK p \in Blocks : p = memCall[t].block
  BY <1>h, CallIs
<1>d. PICK class \in Classes, i \in Indices : class = room[p] /\ i = PoolIdx(class)
  BY <1>b, <1>h, ClassFacts DEF HomePart, CallHome
<1>c. header[p] = class /\ cache[t][i] \in SUBSET Blocks
  BY <1>d DEF MemTypes
<1>s. PICK S \in SUBSET Blocks : S = cache[t][i] \cup {p}
  BY <1>c
<1>k. PICK k \in CallShapes : k = NotInCall
  BY DEF CallShapes
<1>0. /\ MemTypes /\ t \in MemThreads /\ i \in Indices /\ S \in SUBSET Blocks /\ class \in Classes
      /\ k \in CallShapes /\ p \in Blocks
  OBVIOUS
<1>1. /\ UNCHANGED <<header, room, inUse, pool, allocCount, useCount>>
      /\ SetCache(t, i, S) /\ SetCall(t, k) /\ k.at = "idle" /\ Hold(k) = {}
      /\ Hold(memCall[t]) = {p} /\ p \in S
      /\ \A q \in Blocks : q # p => (q \in S <=> q \in cache[t][i])
  <2>1. UNCHANGED <<header, room, inUse, pool, allocCount, useCount>>
    BY DEF ReleaseEnd
  <2>2. cache' = [cache EXCEPT ![t][i] = @ \cup {p}]
    BY <1>b, <1>c, <1>d DEF ReleaseEnd
  <2>3. SetCache(t, i, S)
    BY <1>s, <2>2 DEF SetCache
  <2>4. SetCall(t, k)
    BY <1>k DEF SetCall, ReleaseEnd
  <2>5. k.at = "idle" /\ Hold(k) = {} /\ Hold(memCall[t]) = {p}
    BY <1>b, <1>h, <1>k DEF Hold, NotInCall
  <2>6. p \in S /\ \A q \in Blocks : q # p => (q \in S <=> q \in cache[t][i])
    BY <1>s
  <2> QED  BY <2>1, <2>3, <2>4, <2>5, <2>6
<1>2. /\ cache' \in [MemThreads -> [Indices -> SUBSET Blocks]] /\ cache'[t][i] = S
      /\ \A s \in MemThreads : \A j \in Indices : s # t \/ j # i => cache'[s][j] = cache[s][j]
      /\ \A q \in Blocks : /\ q \in S => CachePlaces(q)' = CachePlaces(q) \cup {<<t, i>>}
                           /\ q \notin S => CachePlaces(q)' = CachePlaces(q) \ {<<t, i>>}
                           /\ q \in cache[t][i] <=> <<t, i>> \in CachePlaces(q)
                           /\ (q \in S <=> q \in cache[t][i]) => CachePlaces(q)' = CachePlaces(q)
  <2>1. MemTypes /\ t \in MemThreads /\ i \in Indices /\ S \in SUBSET Blocks
    BY <1>0
  <2>2. SetCache(t, i, S)
    BY <1>1
  <2> QED  BY <2>1, <2>2, CacheMoves
<1>3. /\ memCall' \in [MemThreads -> CallShapes] /\ memCall'[t] = k
      /\ \A s \in MemThreads : s # t => memCall'[s] = memCall[s]
      /\ \A q \in Blocks : /\ q \in Hold(k) => HandPlaces(q)' = HandPlaces(q) \cup {t}
                           /\ q \notin Hold(k) => HandPlaces(q)' = HandPlaces(q) \ {t}
                           /\ q \in Hold(memCall[t]) <=> t \in HandPlaces(q)
                           /\ (q \in Hold(k) <=> q \in Hold(memCall[t])) => HandPlaces(q)' = HandPlaces(q)
  BY <1>0, <1>1, CallMoves
<1>4. /\ room[p] # 0 /\ ~ InProgram(p) /\ PoolPlaces(p) = {} /\ p \notin cache[t][i]
      /\ CachePlaces(p)' = {<<t, i>>} /\ HandPlaces(p)' = {}
  <2>1. t \in HandPlaces(p)
    BY <1>0, <1>1, <1>3
  <2>2. /\ room[p] # 0 /\ ~ InProgram(p) /\ PoolPlaces(p) = {}
        /\ CachePlaces(p) = {} /\ HandPlaces(p) = {t}
    BY <1>0, <2>1, PlaceIs
  <2> QED  BY <1>0, <1>1, <1>2, <1>3, <2>2
<1>5. MemTypes'
  BY <1>1, <1>2, <1>3 DEF MemTypes
<1>6. HomePart'
  <2>1. \A s \in MemThreads : \A j \in Indices : \A q \in cache'[s][j] :
          room'[q] \in Classes /\ PoolIdx(room'[q]) = j
    <3> SUFFICES ASSUME NEW s \in MemThreads, NEW j \in Indices, NEW q \in cache'[s][j]
                 PROVE  room'[q] \in Classes /\ PoolIdx(room'[q]) = j
      OBVIOUS
    <3>1. q \in cache[s][j] \/ (q = p /\ j = i)
      BY <1>2, <1>s
    <3> QED  BY <1>0, <1>1, <1>d, <3>1 DEF HomePart
  <2>2. CallHome(memCall[t])'
    BY <1>1, <1>3 DEF CallHome
  <2>3. \A s \in MemThreads : s # t => CallHome(memCall[s])'
    BY <1>1, <1>3 DEF HomePart, CallHome
  <2> QED  BY <1>1, <2>1, <2>2, <2>3 DEF HomePart
<1>7. LimitPart'
  <2>1. /\ Cardinality(cache[t][i] \cup {p}) = Cardinality(cache[t][i]) + 1
        /\ Cardinality(cache[t][i]) \in Nat
    BY <1>c, <1>4, CountBlocks
  <2>2. Cardinality(cache[t][i]) + BATCH_SIZE <= MAX_LOCAL_CACHE
    <3>1. memCall[t].left = 0
          /\ Cardinality(cache[t][i]) + BATCH_SIZE <= MAX_LOCAL_CACHE + memCall[t].left
      BY <1>b, <1>d, <1>h DEF LimitPart, CallLimit
    <3> QED  BY <3>1, MemAssumption
  <2>3. \A j \in Indices : Cardinality(cache'[t][j]) <= MAX_LOCAL_CACHE
    <3> SUFFICES ASSUME NEW j \in Indices PROVE Cardinality(cache'[t][j]) <= MAX_LOCAL_CACHE
      OBVIOUS
    <3>1. CASE j # i
      BY <1>2, <3>1 DEF LimitPart
    <3>2. CASE j = i
      <4>1. Cardinality(cache'[t][j]) = Cardinality(cache[t][i]) + 1
        BY <1>2, <1>s, <2>1, <3>2
      <4> QED  BY <2>1, <2>2, <4>1, MemAssumption
    <3> QED  BY <3>1, <3>2
  <2>4. CallLimit(t)'
    BY <1>1, <1>3 DEF CallLimit
  <2>5. \A s \in MemThreads : s # t => cache'[s] = cache[s]
    BY <1>1 DEF MemTypes, SetCache
  <2> QED  BY <1>1, <1>3, <2>3, <2>4, <2>5, LimitMoves
<1>8. PlacePart'
  <2>1. OnePlace(p)'
    BY <1>0, <1>1, <1>4, Unmoved DEF OnePlace
  <2>2. \A q \in Blocks : q # p => CachePlaces(q)' = CachePlaces(q) /\ HandPlaces(q)' = HandPlaces(q)
    BY <1>1, <1>2, <1>3
  <2>3. \A u, v \in inUse' : u.block = v.block => u = v
    BY <1>1 DEF PlacePart
  <2> QED  BY <1>0, <1>1, <2>1, <2>2, <2>3, Unmoved, PlacesMove
<1>9. CountPart'
  <2>1. ASSUME NEW c \in Classes PROVE Moves(c)' = Moves(c)
    <3>1. Moves(c)' = Moves(c) \ {t} /\ t \notin Moves(c)
      BY <1>0, <1>1, <1>h, MovesMove
    <3> QED  BY <3>1
  <2> QED  BY <1>1, <2>1 DEF CountPart, MadeBlocks
<1> QED  BY <1>5, <1>6, <1>7, <1>8, <1>9

LEMMA MemStays == MemInv /\ UNCHANGED memVars => MemInv'
<1> SUFFICES ASSUME MemInv, UNCHANGED memVars PROVE MemInv'
  OBVIOUS
<1> USE DEF MemInv
<1>1. UNCHANGED <<header, room, inUse, cache, pool, allocCount, useCount, memCall>>
  BY DEF memVars
<1>2. PlacePart'
  BY <1>1, Unmoved DEF PlacePart, OnePlace
<1>3. MemTypes' /\ HomePart'
  BY <1>1 DEF MemTypes, HomePart, CallHome
<1>4. LimitPart' /\ CountPart'
  BY <1>1 DEF LimitPart, CallLimit, CountPart, MadeBlocks, Moves
<1> QED  BY <1>2, <1>3, <1>4

LEMMA MemSteps == MemInv /\ [MemNext]_memVars => MemInv'
<1> SUFFICES ASSUME MemInv, [MemNext]_memVars PROVE MemInv'
  OBVIOUS
<1>1. ASSUME NEW t \in MemThreads, NEW size \in AskedSizes,
             AllocLarge(t, size) \/ AllocCached(t, size) \/ PopListed(t, size) \/ PopNew(t, size)
      PROVE  MemInv'
  BY <1>1, AllocLargeKeeps, AllocCachedKeeps, PopListedKeeps, PopNewKeeps
<1>2. ASSUME NEW t \in MemThreads, NEW u \in inUse, Release(t, u) PROVE MemInv'
  BY <1>2, ReleaseLargeKeeps, ReleaseCachedKeeps, ReleaseFlushKeeps
<1>3. ASSUME NEW t \in MemThreads, PopEnd(t) \/ FlushPop(t) \/ FlushPush(t) \/ ReleaseEnd(t)
      PROVE  MemInv'
  BY <1>3, PopEndKeeps, FlushPopKeeps, FlushPushKeeps, ReleaseEndKeeps
<1> QED  BY <1>1, <1>2, <1>3, MemStays DEF MemNext

LEMMA MemAlways == MemSpec => []MemInv
BY MemInitially, MemSteps, PTL DEF MemSpec

(* Every block is in one place, in a caller's hands or in the list of its     *)
(* class, and as large as was asked; the counters of the pools agree with     *)
(* where the blocks are, whatever threads Allocate and Release interleave.    *)
THEOREM TheMemoryIsSound == MemSpec => []MemorySound
<1>1. MemInv => MemorySound
  <2> SUFFICES ASSUME MemInv PROVE MemorySound
    OBVIOUS
  <2> USE DEF MemInv
  <2>1. MemTypeOK
    <3>1. \A t \in MemThreads : memCall[t].at \in {"idle", "pop", "flush", "push", "last"}
      BY CallIs
    <3>2. Indices \subseteq 0..63
      BY ClassFacts DEF Indices
    <3>3. \A u \in inUse : u.block \in Blocks /\ u.asked \in AskedSizes
      BY DEF MemTypes
    <3> QED  BY <3>1, <3>2, <3>3 DEF MemTypes, LimitPart, MemTypeOK
  <2>2. BlockInOnePlace
    <3>1. ASSUME NEW p \in Blocks PROVE Cardinality(PlacesOf(p)) = IF room[p] = 0 THEN 0 ELSE 1
      <4>1. PlacesOf(p) = {<<"program">> : q \in {b \in {p} : InProgram(p)}}
                        \cup {<<"cache", c[1], c[2]>> : c \in CachePlaces(p)}
                        \cup {<<"pool", c>> : c \in PoolPlaces(p)}
                        \cup {<<"hand", t>> : t \in HandPlaces(p)}
        <5>1. {u.block : u \in inUse} \cap {p} = {b \in {p} : InProgram(p)}
          BY DEF InProgram
        <5> QED  BY <5>1 DEF PlacesOf, CachePlaces, PoolPlaces, HandPlaces
      <4>2. OnePlace(p)
        BY DEF PlacePart
      <4>3. room[p] = 0 => PlacesOf(p) = {}
        BY <4>1, <4>2 DEF OnePlace
      <4>4. ASSUME room[p] # 0 PROVE \E x : PlacesOf(p) = {x}
        <5>1. CASE InProgram(p) /\ CachePlaces(p) = {} /\ PoolPlaces(p) = {} /\ HandPlaces(p) = {}
          <6>1. PlacesOf(p) = {<<"program">>}
            BY <4>1, <5>1
          <6> QED  BY <6>1
        <5>2. ASSUME NEW d, CachePlaces(p) = {d}, ~ InProgram(p), PoolPlaces(p) = {}, HandPlaces(p) = {}
              PROVE  \E x : PlacesOf(p) = {x}
          <6>1. PlacesOf(p) = {<<"cache", d[1], d[2]>>}
            BY <4>1, <5>2
          <6> QED  BY <6>1
        <5>3. ASSUME NEW c, PoolPlaces(p) = {c}, ~ InProgram(p), CachePlaces(p) = {}, HandPlaces(p) = {}
              PROVE  \E x : PlacesOf(p) = {x}
          <6>1. PlacesOf(p) = {<<"pool", c>>}
            BY <4>1, <5>3
          <6> QED  BY <6>1
        <5>4. ASSUME NEW t, HandPlaces(p) = {t}, ~ InProgram(p), CachePlaces(p) = {}, PoolPlaces(p) = {}
              PROVE  \E x : PlacesOf(p) = {x}
          <6>1. PlacesOf(p) = {<<"hand", t>>}
            BY <4>1, <5>4
          <6> QED  BY <6>1
        <5> QED  BY <4>2, <4>4, <5>1, <5>2, <5>3, <5>4 DEF OnePlace
      <4> QED  BY <4>3, <4>4, FS_EmptySet, FS_Singleton
    <3>2. \A u, v \in inUse : u.block = v.block => u = v
      BY DEF PlacePart
    <3>3. \A p \in Blocks : Cardinality(PlacesOf(p)) = IF room[p] = 0 THEN 0 ELSE 1
      BY <3>1
    <3> QED  BY <3>2, <3>3 DEF BlockInOnePlace
  <2>3. BlockLargeEnough
    <3> SUFFICES ASSUME NEW u \in inUse PROVE room[u.block] >= u.asked
      BY DEF BlockLargeEnough
    <3>1. u.asked \in AskedSizes /\ room[u.block] = SizeFor(u.asked)
      BY DEF MemTypes, HomePart
    <3> PICK n \in AskedSizes : n = u.asked
      BY <3>1
    <3>2. n \in Nat /\ (n > MAX_ALLOC_SIZE \/ n <= MAX_ALLOC_SIZE)
      BY MemAssumption DEF MAX_ALLOC_SIZE
    <3>3. SizeFor(n) >= n
      BY <3>2, ClassFacts DEF SizeFor
    <3> QED  BY <3>1, <3>3
  <2>4. CountersExact
    <3>1. ASSUME NEW c \in Classes
          PROVE  {t \in MemThreads : memCall[t].at \in {"pop", "push"} /\ header[memCall[t].block] = c} = Moves(c)
      BY DEF Moves, MemTypes
    <3> QED  BY <3>1 DEF CountersExact, CountPart, MadeBlocks
  <2> QED  BY <2>1, <2>2, <2>3, <2>4 DEF MemorySound
<1> QED  BY <1>1, MemAlways, PTL
=============================================================================
