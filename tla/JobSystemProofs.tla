--------------------------- MODULE JobSystemProofs ---------------------------
(* Proofs about JobSystem for any number of queues, workers and producers,    *)
(* any batch size and any number of pushes.                                   *)
EXTENDS JobSystem, SequenceFacts, FiniteSetTheorems, TLAPS

USE Assumptions

-----------------------------------------------------------------------------
(* What each place in Push and in the worker loop says of the locals there.   *)
PushShape ==
  \A t \in Threads :
    /\ ppc[t] = "idle" <=> pq[t] = NoQueue
    /\ ppc[t] # "idle" => made[t] # 0

WorkShape ==
  \A w \in Workers :
    /\ wpc[w] \in ExecPlaces <=> wq[w] # NoQueue
    /\ wpc[w] \notin {"run", "job", "sub"} => taken[w] = 0
    /\ wpc[w] = "job" => list[w] # <<>>

LocalInv == TypeOK /\ PushShape /\ WorkShape

(* The first MaxExecute jobs of a queue, and the rest, are sequences of jobs  *)
(* whose lengths add up.                                                      *)
LEMMA BatchSplit ==
  ASSUME NEW s \in Seq(Jobs)
  PROVE  /\ BatchSize(s) \in Nat
         /\ SubSeq(s, 1, BatchSize(s)) \in Seq(Jobs)
         /\ SubSeq(s, BatchSize(s) + 1, Len(s)) \in Seq(Jobs)
         /\ Len(SubSeq(s, BatchSize(s) + 1, Len(s))) + BatchSize(s) = Len(s)
<1>1. BatchSize(s) \in Nat /\ BatchSize(s) <= Len(s)
  BY DEF BatchSize
<1>2. SubSeq(s, 1, BatchSize(s)) \in Seq(Jobs)
  BY <1>1
<1>3. SubSeq(s, BatchSize(s) + 1, Len(s)) \in Seq(Jobs)
  BY <1>1
<1>4. Len(SubSeq(s, BatchSize(s) + 1, Len(s))) + BatchSize(s) = Len(s)
  <2> DEFINE n == BatchSize(s)
  <2>1. n \in Nat /\ n <= Len(s) /\ Len(s) \in Nat
    BY <1>1
  <2> HIDE DEF n
  <2>2. Len(SubSeq(s, n + 1, Len(s))) = Len(s) - n
    BY <2>1
  <2> QED  BY <2>1, <2>2 DEF n
<1> QED  BY <1>1, <1>2, <1>3, <1>4

LEMMA LocalInit == Init => LocalInv
BY DEF Init, LocalInv, TypeOK, PushShape, WorkShape, Threads, ExecPlaces, Jobs

LEMMA LocalNext == LocalInv /\ [Next]_vars => LocalInv'
<1> SUFFICES ASSUME LocalInv, [Next]_vars PROVE LocalInv'
  OBVIOUS
<1> USE DEF LocalInv, TypeOK, PushShape, WorkShape, ExecPlaces
<1>1. ASSUME NEW t \in Threads, NEW q \in Queues, PushCount(t, q) PROVE LocalInv'
  <2>1. /\ jobCount' \in [Queues -> Int]
        /\ made' \in [Threads -> 0..MaxPush]
        /\ made'[t] # 0 /\ <<t, made'[t]>> \in Jobs
    BY <1>1 DEF PushCount, MayPush, Jobs
  <2>2. /\ ppc' \in [Threads -> {"idle", "insert", "insertFirst", "register"}]
        /\ pq' \in [Threads -> Queues \cup {NoQueue}]
    BY <1>1 DEF PushCount
  <2>3. PushShape'
    BY <1>1, <2>1, <2>2 DEF PushCount
  <2>4. raised' \in [Queues -> Jobs \cup {NoJob}]
    BY <1>1, <2>1 DEF PushCount
  <2> QED  BY <1>1, <2>1, <2>2, <2>3, <2>4 DEF PushCount, workVars, mainVars
<1>2. ASSUME NEW t \in Threads, PushInsert(t) PROVE LocalInv'
  <2>1. <<t, made[t]>> \in Jobs /\ pq[t] \in Queues
    BY <1>2 DEF PushInsert, Jobs
  <2>2. jobs' \in [Queues -> Seq(Jobs)]
    BY <1>2, <2>1 DEF PushInsert
  <2>3. PushShape'
    BY <1>2, <2>1 DEF PushInsert
  <2> QED  BY <1>2, <2>1, <2>2, <2>3 DEF PushInsert, workVars, mainVars
<1>3. ASSUME NEW t \in Threads, PushRegister(t) PROVE LocalInv'
  <2>1. pq[t] \in Queues
    BY <1>3 DEF PushRegister
  <2>2. globalQueue' \in Seq(Queues)
    BY <1>3, <2>1 DEF PushRegister
  <2>3. PushShape'
    BY <1>3 DEF PushRegister
  <2> QED  BY <1>3, <2>2, <2>3 DEF PushRegister, workVars, mainVars
<1>4. ASSUME NEW w \in Workers, LoopHead(w) PROVE LocalInv'
  <2>1. exited' \in SUBSET Threads
    BY <1>4 DEF LoopHead, Threads
  <2>2. wpc' \in [Workers -> {"loop", "dispatch", "pop"} \cup ExecPlaces] /\ WorkShape'
    BY <1>4 DEF LoopHead
  <2> QED  BY <1>4, <2>1, <2>2 DEF LoopHead, queueVars, pushVars
<1>5. ASSUME NEW w \in Workers, DispatchReturn(w) PROVE LocalInv'
  BY <1>5 DEF DispatchReturn, queueVars, pushVars, mainVars
<1>6. ASSUME NEW w \in Workers, Pop(w) PROVE LocalInv'
  <2>1. CASE globalQueue = <<>>
    BY <1>6, <2>1 DEF Pop, pushVars, mainVars
  <2>2. CASE globalQueue # <<>>
    <3>1. Head(globalQueue) \in Queues /\ Tail(globalQueue) \in Seq(Queues)
      BY <2>2
    <3>2. /\ wpc' = [wpc EXCEPT ![w] = "take"]
          /\ wq' = [wq EXCEPT ![w] = Head(globalQueue)]
          /\ globalQueue' = Tail(globalQueue)
          /\ wpc[w] = "pop"
          /\ UNCHANGED <<jobCount, jobs, ppc, pq, list, taken, mainVars, made, raised, done>>
      BY <1>6, <2>2 DEF Pop, pushVars
    <3>3. TypeOK'
      BY <3>1, <3>2 DEF mainVars
    <3>4. PushShape' /\ WorkShape'
      BY <3>1, <3>2
    <3> QED  BY <3>3, <3>4
  <2> QED  BY <2>1, <2>2
<1>7. ASSUME NEW w \in Workers, ExecuteTake(w) PROVE LocalInv'
  <2>1. wq[w] \in Queues
    BY <1>7 DEF ExecuteTake
  <2>2. /\ list' \in [Workers -> Seq(Jobs)]
        /\ taken' \in [Workers -> Nat]
        /\ jobs' \in [Queues -> Seq(Jobs)]
    BY <1>7, <2>1, BatchSplit DEF ExecuteTake
  <2> QED  BY <1>7, <2>1, <2>2 DEF ExecuteTake, pushVars, mainVars
<1>8. ASSUME NEW w \in Workers, JobBegin(w) PROVE LocalInv'
  BY <1>8 DEF JobBegin, queueVars, pushVars, mainVars
<1>9. ASSUME NEW w \in Workers, JobEnd(w) PROVE LocalInv'
  <2>1. wq[w] \in Queues /\ Head(list[w]) \in Jobs /\ Tail(list[w]) \in Seq(Jobs)
    BY <1>9 DEF JobEnd
  <2>2. done' \in [Queues -> Seq(Jobs)] /\ list' \in [Workers -> Seq(Jobs)]
    BY <1>9, <2>1 DEF JobEnd
  <2> QED  BY <1>9, <2>1, <2>2 DEF JobEnd, queueVars, pushVars, mainVars
<1>10. ASSUME NEW w \in Workers, ListDone(w) PROVE LocalInv'
  BY <1>10 DEF ListDone, queueVars, pushVars, mainVars
<1>11. ASSUME NEW w \in Workers, ExecuteSub(w) PROVE LocalInv'
  <2>1. wq[w] \in Queues /\ jobCount' \in [Queues -> Int]
    BY <1>11 DEF ExecuteSub
  <2> QED  BY <1>11, <2>1 DEF ExecuteSub, pushVars, mainVars
<1>12. ASSUME NEW w \in Workers, Requeue(w) PROVE LocalInv'
  BY <1>12 DEF Requeue, pushVars, mainVars
<1>13. ASSUME NEW p \in Producers, ProducerExit(p) PROVE LocalInv'
  <2>1. exited' \in SUBSET Threads
    BY <1>13 DEF ProducerExit, Threads
  <2> QED  BY <1>13, <2>1 DEF ProducerExit, queueVars, pushVars, workVars
<1>14. ASSUME NEW q \in Queues, ReleaseOwner(q) PROVE LocalInv'
  BY <1>14 DEF ReleaseOwner, queueVars, pushVars, workVars
<1>15. CASE Shutdown
  BY <1>15 DEF Shutdown, queueVars, pushVars, workVars
<1>16. CASE UNCHANGED vars
  BY <1>16 DEF vars, queueVars, pushVars, workVars, mainVars
<1> QED
  BY <1>1, <1>2, <1>3, <1>4, <1>5, <1>6, <1>7, <1>8, <1>9, <1>10, <1>11, <1>12,
     <1>13, <1>14, <1>15, <1>16 DEF Next, PushStep, WorkStep, Terminated

(* Every reachable state of the actor runtime has the declared types: a       *)
(* worker always executes a real queue and a batch of real jobs.              *)
THEOREM TypeCorrect == Spec => []TypeOK
<1>1. LocalInv => TypeOK
  BY DEF LocalInv
<1> QED  BY <1>1, LocalInit, LocalNext, PTL DEF Spec

-----------------------------------------------------------------------------
(* At most one of the three kinds of token of a queue, and one of that kind.  *)
AtMostOne(S, E, X) ==
  /\ \A t, u \in S : t = u
  /\ \A i, k \in E : i = k
  /\ \A w, v \in X : w = v
  /\ S = {} \/ E = {}
  /\ S = {} \/ X = {}
  /\ E = {} \/ X = {}

TokenInv(q) ==
  /\ AtMostOne(Schedulers(q), Entries(q), Executors(q))
  /\ (Schedulers(q) # {} \/ Entries(q) # {} \/ Executors(q) # {}) <=> jobCount[q] > 0

(* The count, first without and then with a worker's batch outstanding.       *)
CountInv(q) ==
  /\ Executors(q) = {} => jobCount[q] = Len(jobs[q]) + Cardinality(Inserting(q))
  /\ \A w \in Executors(q) :
       jobCount[q] = Len(jobs[q]) + Cardinality(Inserting(q)) + taken[w]

QueueInv == \A q \in Queues : TokenInv(q) /\ CountInv(q)

IInv == LocalInv /\ QueueInv

LEMMA InsertingFinite ==
  ASSUME NEW q PROVE IsFiniteSet(Inserting(q)) /\ Cardinality(Inserting(q)) \in Nat
<1>1. Inserting(q) \subseteq Threads
  BY DEF Inserting
<1> QED  BY <1>1, FS_Subset, FS_CardinalityType

(* Numbers a queue is described by; in particular the count is never          *)
(* negative, so Push finds either 0 or a scheduled queue.                     *)
LEMMA QueueNumbers ==
  ASSUME IInv, NEW q \in Queues
  PROVE  /\ jobCount[q] \in Nat /\ jobs[q] \in Seq(Jobs) /\ Len(jobs[q]) \in Nat
         /\ Cardinality(Inserting(q)) \in Nat
         /\ \A w \in Executors(q) : w \in Workers /\ taken[w] \in Nat
<1>1. /\ jobs[q] \in Seq(Jobs) /\ Len(jobs[q]) \in Nat
      /\ Cardinality(Inserting(q)) \in Nat
  BY InsertingFinite DEF IInv, LocalInv, TypeOK
<1>2. \A w \in Executors(q) : w \in Workers /\ taken[w] \in Nat
  BY DEF IInv, LocalInv, TypeOK, Executors
<1>3. jobCount[q] \in Nat
  BY <1>1, <1>2 DEF IInv, QueueInv, CountInv
<1> QED  BY <1>1, <1>2, <1>3

(* A queue that a step leaves alone keeps its invariant.                      *)
LEMMA Frame ==
  ASSUME IInv, NEW q \in Queues,
         Schedulers(q)' = Schedulers(q), Entries(q) = {} <=> Entries(q)' = {},
         \A i, k \in Entries(q)' : i = k, Executors(q)' = Executors(q),
         Inserting(q)' = Inserting(q),
         jobCount'[q] = jobCount[q], jobs'[q] = jobs[q],
         \A w \in Executors(q) : taken'[w] = taken[w]
  PROVE  TokenInv(q)' /\ CountInv(q)'
<1>1. TokenInv(q) /\ CountInv(q)
  BY DEF IInv, QueueInv
<1>2. TokenInv(q)'
  BY <1>1 DEF TokenInv, AtMostOne
<1>3. CountInv(q)'
  BY <1>1 DEF CountInv
<1> QED  BY <1>2, <1>3

LEMMA IInit == Init => IInv
<1> SUFFICES ASSUME Init PROVE IInv
  OBVIOUS
<1>1. LocalInv
  BY LocalInit
<1>2. ASSUME NEW q \in Queues PROVE TokenInv(q) /\ CountInv(q)
  <2>1. /\ Schedulers(q) = {} /\ Entries(q) = {} /\ Executors(q) = {} /\ Inserting(q) = {}
        /\ Len(jobs[q]) = 0 /\ jobCount[q] = 0
    BY DEF Init, Schedulers, Entries, Executors, Inserting, ExecPlaces
  <2>2. Cardinality({}) = 0
    BY FS_EmptySet
  <2> QED  BY <2>1, <2>2 DEF TokenInv, CountInv, AtMostOne
<1> QED  BY <1>1, <1>2 DEF IInv, QueueInv

(* Push, first step: a count of 0 means that nobody has p, so the new token   *)
(* is the only one; otherwise a token exists already and none is made.        *)
LEMMA PushCountKeeps ==
  ASSUME IInv, NEW t \in Threads, NEW p \in Queues, PushCount(t, p)
  PROVE  QueueInv'
<1>1. /\ ppc[t] = "idle" /\ pq' = [pq EXCEPT ![t] = p]
      /\ ppc' = [ppc EXCEPT ![t] = IF jobCount[p] = 0 THEN "insertFirst" ELSE "insert"]
      /\ jobCount' = [jobCount EXCEPT ![p] = @ + 1]
      /\ UNCHANGED <<jobs, globalQueue, wpc, wq, taken>>
  BY DEF PushCount, MayPush, workVars
<1>2. /\ ppc \in [Threads -> {"idle", "insert", "insertFirst", "register"}]
      /\ pq \in [Threads -> Queues \cup {NoQueue}]
      /\ jobCount \in [Queues -> Int]
  BY DEF IInv, LocalInv, TypeOK
<1>3. ASSUME NEW q \in Queues PROVE TokenInv(q)' /\ CountInv(q)'
  <2>1. /\ Entries(q)' = Entries(q) /\ Executors(q)' = Executors(q)
        /\ jobs'[q] = jobs[q] /\ taken' = taken
    BY <1>1 DEF Entries, Executors
  <2>2. TokenInv(q) /\ CountInv(q)
    BY DEF IInv, QueueInv
  <2> /\ jobCount[q] \in Nat /\ Len(jobs[q]) \in Nat /\ Cardinality(Inserting(q)) \in Nat
      /\ \A w \in Executors(q) : w \in Workers /\ taken[w] \in Nat
    BY QueueNumbers
  <2>3. CASE q = p
    <3>1. jobCount'[q] = jobCount[q] + 1
      BY <1>1, <1>2, <2>3
    <3>2. Inserting(q)' = Inserting(q) \cup {t} /\ t \notin Inserting(q)
      BY <1>1, <1>2, <2>3 DEF Inserting
    <3>3. Cardinality(Inserting(q)') = Cardinality(Inserting(q)) + 1
      <4>1. IsFiniteSet(Inserting(q))
        BY InsertingFinite
      <4> QED  BY <3>2, <4>1, FS_AddElement
    <3>4. Schedulers(q)' = IF jobCount[q] = 0 THEN Schedulers(q) \cup {t} ELSE Schedulers(q)
      BY <1>1, <1>2, <2>3 DEF Schedulers
    <3>5. TokenInv(q)'
      <4>1. CASE jobCount[q] = 0
        BY <2>1, <2>2, <3>1, <3>4, <4>1 DEF TokenInv, AtMostOne
      <4>2. CASE jobCount[q] # 0
        BY <2>1, <2>2, <3>1, <3>4, <4>2 DEF TokenInv, AtMostOne
      <4> QED  BY <4>1, <4>2
    <3>6. CountInv(q)'
      <4>1. CASE Executors(q) = {}
        BY <2>1, <2>2, <3>1, <3>3, <4>1 DEF CountInv
      <4>2. ASSUME NEW w \in Executors(q)
            PROVE  jobCount'[q] = Len(jobs'[q]) + Cardinality(Inserting(q)') + taken'[w]
        <5>1. taken'[w] = taken[w] /\ taken[w] \in Nat
          BY <2>1
        <5>2. jobCount[q] = Len(jobs[q]) + Cardinality(Inserting(q)) + taken[w]
          BY <2>2 DEF CountInv
        <5> QED  BY <2>1, <3>1, <3>3, <5>1, <5>2, SMTT(30)
      <4> QED  BY <2>1, <4>1, <4>2 DEF CountInv
    <3> QED  BY <3>5, <3>6
  <2>4. CASE q # p
    <3>1. jobCount'[q] = jobCount[q]
      BY <1>1, <1>2, <2>4
    <3>2. Inserting(q)' = Inserting(q) /\ Schedulers(q)' = Schedulers(q)
      BY <1>1, <1>2, <2>4 DEF Inserting, Schedulers
    <3> QED  BY <1>1, <2>1, <2>2, <3>1, <3>2, Frame DEF TokenInv, AtMostOne
  <2> QED  BY <2>3, <2>4
<1> QED  BY <1>3 DEF QueueInv

(* Push, second step: the job leaves the thread and enters the queue.         *)
LEMMA PushInsertKeeps ==
  ASSUME IInv, NEW t \in Threads, PushInsert(t)
  PROVE  QueueInv'
<1> DEFINE p == pq[t]
<1>1. /\ ppc[t] \in {"insert", "insertFirst"}
      /\ ppc' = [ppc EXCEPT ![t] = IF @ = "insertFirst" THEN "register" ELSE "idle"]
      /\ pq' = [pq EXCEPT ![t] = IF ppc[t] = "insertFirst" THEN @ ELSE NoQueue]
      /\ jobs' = [jobs EXCEPT ![p] = Append(@, <<t, made[t]>>)]
      /\ UNCHANGED <<jobCount, globalQueue, wpc, wq, taken>>
  BY DEF PushInsert, workVars
<1>2. /\ ppc \in [Threads -> {"idle", "insert", "insertFirst", "register"}]
      /\ pq \in [Threads -> Queues \cup {NoQueue}]
      /\ jobs \in [Queues -> Seq(Jobs)]
      /\ p \in Queues /\ p # NoQueue
      /\ <<t, made[t]>> \in Jobs
  BY <1>1 DEF IInv, LocalInv, TypeOK, PushShape, Jobs
<1> HIDE DEF p
<1>3. ASSUME NEW q \in Queues PROVE TokenInv(q)' /\ CountInv(q)'
  <2>1. /\ Entries(q)' = Entries(q) /\ Executors(q)' = Executors(q)
        /\ jobCount'[q] = jobCount[q] /\ taken' = taken
    BY <1>1 DEF Entries, Executors
  <2>2. TokenInv(q) /\ CountInv(q)
    BY DEF IInv, QueueInv
  <2>3. Schedulers(q)' = Schedulers(q)
    BY <1>1, <1>2 DEF Schedulers, p
  <2> /\ jobCount[q] \in Nat /\ Len(jobs[q]) \in Nat /\ Cardinality(Inserting(q)) \in Nat
      /\ \A w \in Executors(q) : w \in Workers /\ taken[w] \in Nat
    BY QueueNumbers
  <2>4. CASE q = p
    <3>1. Len(jobs'[q]) = Len(jobs[q]) + 1
      BY <1>1, <1>2, <2>4
    <3>2. Inserting(q)' = Inserting(q) \ {t} /\ t \in Inserting(q)
      BY <1>1, <1>2, <2>4 DEF Inserting, p
    <3>3. Cardinality(Inserting(q)') = Cardinality(Inserting(q)) - 1
      <4>1. IsFiniteSet(Inserting(q))
        BY InsertingFinite
      <4> QED  BY <3>2, <4>1, FS_RemoveElement, ZenonT(30)
    <3>4. TokenInv(q)'
      BY <2>1, <2>2, <2>3 DEF TokenInv, AtMostOne
    <3>5. CASE Executors(q) = {}
      BY <2>1, <2>2, <3>1, <3>3, <3>4, <3>5 DEF CountInv
    <3>6. ASSUME NEW w \in Executors(q)
          PROVE  jobCount'[q] = Len(jobs'[q]) + Cardinality(Inserting(q)') + taken'[w]
      <4>1. taken'[w] = taken[w] /\ taken[w] \in Nat
        BY <2>1
      <4>2. jobCount[q] = Len(jobs[q]) + Cardinality(Inserting(q)) + taken[w]
        BY <2>2 DEF CountInv
      <4> QED  BY <2>1, <3>1, <3>3, <4>1, <4>2, SMTT(30)
    <3> QED  BY <2>1, <3>4, <3>5, <3>6 DEF CountInv
  <2>5. CASE q # p
    <3>1. jobs'[q] = jobs[q]
      BY <1>1, <1>2, <2>5
    <3>2. Inserting(q)' = Inserting(q)
      BY <1>1, <1>2, <2>5 DEF Inserting, p
    <3> QED  BY <2>1, <2>2, <2>3, <3>1, <3>2, Frame DEF TokenInv, AtMostOne
  <2> QED  BY <2>4, <2>5
<1> QED  BY <1>3 DEF QueueInv

(* Appending p to the GlobalQueue adds one entry of p and none of another.    *)
LEMMA AppendEntries ==
  ASSUME globalQueue \in Seq(Queues), NEW p \in Queues,
         globalQueue' = Append(globalQueue, p), NEW q \in Queues
  PROVE  Entries(q)' = IF q = p THEN Entries(q) \cup {Len(globalQueue) + 1} ELSE Entries(q)
<1>1. /\ Len(globalQueue') = Len(globalQueue) + 1 /\ Len(globalQueue) \in Nat
      /\ \A i \in 1..Len(globalQueue) : globalQueue'[i] = globalQueue[i]
      /\ globalQueue'[Len(globalQueue) + 1] = p
  OBVIOUS
<1>2. 1..Len(globalQueue') = 1..Len(globalQueue) \cup {Len(globalQueue) + 1}
  BY <1>1
<1> QED  BY <1>1, <1>2 DEF Entries

(* Push, last step: the token moves from the thread to the GlobalQueue.       *)
LEMMA PushRegisterKeeps ==
  ASSUME IInv, NEW t \in Threads, PushRegister(t)
  PROVE  QueueInv'
<1> DEFINE p == pq[t]
<1>1. /\ ppc[t] = "register"
      /\ ppc' = [ppc EXCEPT ![t] = "idle"] /\ pq' = [pq EXCEPT ![t] = NoQueue]
      /\ globalQueue' = Append(globalQueue, p)
      /\ UNCHANGED <<jobCount, jobs, wpc, wq, taken>>
  BY DEF PushRegister, workVars
<1>2. /\ ppc \in [Threads -> {"idle", "insert", "insertFirst", "register"}]
      /\ pq \in [Threads -> Queues \cup {NoQueue}]
      /\ globalQueue \in Seq(Queues)
      /\ p \in Queues /\ p # NoQueue
  BY <1>1 DEF IInv, LocalInv, TypeOK, PushShape
<1> HIDE DEF p
<1>3. ASSUME NEW q \in Queues PROVE TokenInv(q)' /\ CountInv(q)'
  <2>1. /\ Executors(q)' = Executors(q) /\ Inserting(q)' = Inserting(q)
        /\ jobCount'[q] = jobCount[q] /\ jobs'[q] = jobs[q] /\ taken' = taken
    BY <1>1, <1>2 DEF Inserting, Executors
  <2>2. TokenInv(q) /\ CountInv(q)
    BY DEF IInv, QueueInv
  <2>3. CASE q = p
    <3>1. Schedulers(q)' = Schedulers(q) \ {t} /\ t \in Schedulers(q)
      BY <1>1, <1>2, <2>3 DEF Schedulers, p
    <3>2. Entries(q)' = Entries(q) \cup {Len(globalQueue) + 1}
      BY <1>1, <1>2, <2>3, AppendEntries
    <3>3. TokenInv(q)'
      BY <2>1, <2>2, <3>1, <3>2 DEF TokenInv, AtMostOne
    <3> QED  BY <2>1, <2>2, <3>3 DEF CountInv
  <2>4. CASE q # p
    <3>1. Schedulers(q)' = Schedulers(q)
      BY <1>1, <1>2, <2>4 DEF Schedulers, p
    <3>2. Entries(q)' = Entries(q)
      BY <1>1, <1>2, <2>4, AppendEntries
    <3> QED  BY <2>1, <2>2, <3>1, <3>2, Frame DEF TokenInv, AtMostOne
  <2> QED  BY <2>3, <2>4
<1> QED  BY <1>3 DEF QueueInv

(* The steps of a worker leave the threads' Push locals alone.                *)
LEMMA PushersAlone ==
  ASSUME UNCHANGED pushVars, NEW q
  PROVE  Schedulers(q)' = Schedulers(q) /\ Inserting(q)' = Inserting(q)
BY DEF pushVars, Schedulers, Inserting

(* Pop: the token moves from the GlobalQueue to the worker; the entries of    *)
(* the other queues move up by one.                                           *)
LEMMA PopKeeps ==
  ASSUME IInv, NEW w \in Workers, Pop(w), globalQueue # <<>>
  PROVE  QueueInv'
<1> DEFINE p == Head(globalQueue)
<1>1. /\ wpc[w] = "pop" /\ UNCHANGED <<jobCount, jobs, taken, pushVars>>
      /\ wpc' = [wpc EXCEPT ![w] = "take"] /\ wq' = [wq EXCEPT ![w] = p]
      /\ globalQueue' = Tail(globalQueue)
  BY DEF Pop
<1>2. /\ wpc \in [Workers -> {"loop", "dispatch", "pop"} \cup ExecPlaces]
      /\ wq \in [Workers -> Queues \cup {NoQueue}]
      /\ globalQueue \in Seq(Queues)
      /\ p \in Queues /\ p # NoQueue
      /\ taken[w] = 0
  <2>1. globalQueue \in Seq(Queues)
    BY DEF IInv, LocalInv, TypeOK
  <2>2. p \in Queues /\ p # NoQueue
    BY <2>1
  <2>3. taken[w] = 0
    BY <1>1 DEF IInv, LocalInv, WorkShape
  <2> QED  BY <2>1, <2>2, <2>3 DEF IInv, LocalInv, TypeOK
<1> HIDE DEF p
<1>3. /\ Len(globalQueue) \in Nat /\ Len(globalQueue) > 0 /\ globalQueue[1] = p
      /\ Len(globalQueue') = Len(globalQueue) - 1
      /\ \A i \in 1..Len(globalQueue') : globalQueue'[i] = globalQueue[i + 1]
  BY <1>1, <1>2 DEF p
<1>4. ASSUME NEW q \in Queues PROVE TokenInv(q)' /\ CountInv(q)'
  <2>1. /\ Schedulers(q)' = Schedulers(q) /\ Inserting(q)' = Inserting(q)
        /\ jobCount'[q] = jobCount[q] /\ jobs'[q] = jobs[q] /\ taken' = taken
    BY <1>1, PushersAlone
  <2>2. TokenInv(q) /\ CountInv(q)
    BY DEF IInv, QueueInv
  <2>3. \A i : i \in Entries(q)' <=> (i \in 1..(Len(globalQueue) - 1) /\ i + 1 \in Entries(q))
    BY <1>3 DEF Entries
  <2>4. \A i, k \in Entries(q) : i = k
    BY <2>2 DEF TokenInv, AtMostOne
  <2> /\ jobCount[q] \in Nat /\ Len(jobs[q]) \in Nat /\ Cardinality(Inserting(q)) \in Nat
    BY QueueNumbers
  <2>5. CASE q = p
    <3>1. 1 \in Entries(q)
      BY <1>3, <2>5 DEF Entries
    <3>2. Entries(q)' = {}
      BY <1>3, <2>3, <2>4, <3>1
    <3>3. Executors(q)' = Executors(q) \cup {w}
      BY <1>1, <1>2, <2>5 DEF Executors, ExecPlaces
    <3>4. TokenInv(q)'
      BY <2>1, <2>2, <3>1, <3>2, <3>3 DEF TokenInv, AtMostOne
    <3>5. Executors(q) = {}
      BY <2>2, <3>1 DEF TokenInv, AtMostOne
    <3>6. CountInv(q)'
      BY <1>2, <2>1, <2>2, <3>3, <3>5 DEF CountInv
    <3> QED  BY <3>4, <3>6
  <2>6. CASE q # p
    <3>1. Executors(q)' = Executors(q)
      BY <1>1, <1>2, <2>6 DEF Executors, ExecPlaces
    <3>2. Entries(q) = {} <=> Entries(q)' = {}
      <4>1. ASSUME NEW i \in Entries(q) PROVE Entries(q)' # {}
        <5>1. i \in 1..Len(globalQueue) /\ i # 1
          BY <1>3, <2>6 DEF Entries
        <5>2. i - 1 \in Entries(q)'
          BY <1>3, <2>3, <5>1
        <5> QED  BY <5>2
      <4> QED  BY <2>3, <4>1
    <3>3. \A i, k \in Entries(q)' : i = k
      BY <1>3, <2>3, <2>4
    <3> QED  BY <2>1, <3>1, <3>2, <3>3, Frame
  <2> QED  BY <2>5, <2>6
<1> QED  BY <1>4 DEF QueueInv

(* Inside Execute the worker is the only one that has the queue.              *)
LEMMA SoleExecutor ==
  ASSUME IInv, NEW w \in Workers, wpc[w] \in ExecPlaces
  PROVE  /\ wq[w] \in Queues
         /\ \A v \in Workers : wpc[v] \in ExecPlaces /\ wq[v] = wq[w] => v = w
         /\ Executors(wq[w]) = {w} /\ Schedulers(wq[w]) = {} /\ Entries(wq[w]) = {}
         /\ jobCount[wq[w]] > 0
<1>1. wq[w] \in Queues
  BY DEF IInv, LocalInv, TypeOK, WorkShape
<1>2. w \in Executors(wq[w])
  BY DEF Executors
<1>3. TokenInv(wq[w])
  BY <1>1 DEF IInv, QueueInv
<1>4. /\ Executors(wq[w]) = {w} /\ Schedulers(wq[w]) = {} /\ Entries(wq[w]) = {}
      /\ jobCount[wq[w]] > 0
  BY <1>2, <1>3 DEF TokenInv, AtMostOne
<1>5. \A v \in Workers : wpc[v] \in ExecPlaces /\ wq[v] = wq[w] => v = w
  BY <1>4 DEF Executors
<1> QED  BY <1>1, <1>4, <1>5

(* Taking a batch moves jobs from _jobs to the worker; the count stays.       *)
LEMMA TakeKeeps ==
  ASSUME IInv, NEW w \in Workers, ExecuteTake(w)
  PROVE  QueueInv'
<1> DEFINE p == wq[w]
           n == BatchSize(jobs[p])
<1>1. /\ wpc[w] = "take" /\ UNCHANGED <<jobCount, globalQueue, wq, pushVars>>
      /\ wpc' = [wpc EXCEPT ![w] = "run"]
      /\ taken' = [taken EXCEPT ![w] = n]
      /\ jobs' = [jobs EXCEPT ![p] = SubSeq(@, n + 1, Len(@))]
  BY DEF ExecuteTake
<1>2. /\ wpc \in [Workers -> {"loop", "dispatch", "pop"} \cup ExecPlaces]
      /\ taken \in [Workers -> Nat] /\ taken[w] = 0
      /\ jobs \in [Queues -> Seq(Jobs)]
  BY <1>1 DEF IInv, LocalInv, TypeOK, WorkShape
<1>3. p \in Queues /\ Executors(p) = {w}
  BY <1>1, SoleExecutor DEF ExecPlaces
<1>4. /\ n \in Nat /\ Len(SubSeq(jobs[p], n + 1, Len(jobs[p]))) + n = Len(jobs[p])
      /\ SubSeq(jobs[p], n + 1, Len(jobs[p])) \in Seq(Jobs)
  BY <1>2, <1>3, BatchSplit
<1> HIDE DEF p, n
<1>5. ASSUME NEW q \in Queues PROVE TokenInv(q)' /\ CountInv(q)'
  <2>1. /\ Schedulers(q)' = Schedulers(q) /\ Inserting(q)' = Inserting(q)
        /\ jobCount'[q] = jobCount[q] /\ Entries(q)' = Entries(q)
    BY <1>1, PushersAlone DEF Entries
  <2>2. Executors(q)' = Executors(q)
    BY <1>1, <1>2 DEF Executors, ExecPlaces
  <2>3. TokenInv(q) /\ CountInv(q)
    BY DEF IInv, QueueInv
  <2> /\ jobCount[q] \in Nat /\ Len(jobs[q]) \in Nat /\ Cardinality(Inserting(q)) \in Nat
    BY QueueNumbers
  <2>4. CASE q = p
    <3>1. taken'[w] = n /\ Len(jobs'[q]) + n = Len(jobs[q])
      BY <1>1, <1>2, <1>3, <1>4, <2>4
    <3>2. jobCount[q] = Len(jobs[q]) + Cardinality(Inserting(q)) + taken[w]
      BY <1>3, <2>3, <2>4 DEF CountInv
    <3>3. Len(jobs'[q]) \in Nat
      BY <1>1, <1>2, <1>3, <1>4, <2>4
    <3>4. jobCount'[q] = Len(jobs'[q]) + Cardinality(Inserting(q)') + taken'[w]
      BY <1>2, <1>4, <2>1, <3>1, <3>2, <3>3, SMTT(30)
    <3>5. TokenInv(q)'
      BY <2>1, <2>2, <2>3 DEF TokenInv, AtMostOne
    <3> QED  BY <1>3, <2>2, <2>4, <3>4, <3>5 DEF CountInv
  <2>5. CASE q # p
    <3>1. jobs'[q] = jobs[q]
      BY <1>1, <1>2, <2>5
    <3>2. \A v \in Executors(q) : taken'[v] = taken[v]
      BY <1>1, <1>2, <2>5 DEF Executors, p
    <3> QED  BY <2>1, <2>2, <2>3, <3>1, <3>2, Frame DEF TokenInv, AtMostOne
  <2> QED  BY <2>4, <2>5
<1> QED  BY <1>5 DEF QueueInv

(* The batch is subtracted: what remains are jobs queued or on their way in.  *)
(* The worker keeps the queue exactly if that is not nothing.                 *)
LEMMA SubKeeps ==
  ASSUME IInv, NEW w \in Workers, ExecuteSub(w)
  PROVE  QueueInv'
<1> DEFINE p == wq[w]
           remain == jobCount[p] - taken[w]
<1>1. /\ wpc[w] = "sub" /\ UNCHANGED <<jobs, globalQueue, pushVars>>
      /\ wpc' = [wpc EXCEPT ![w] = IF remain > 0 THEN "requeue" ELSE "pop"]
      /\ wq' = [wq EXCEPT ![w] = IF remain > 0 THEN @ ELSE NoQueue]
      /\ taken' = [taken EXCEPT ![w] = 0]
      /\ jobCount' = [jobCount EXCEPT ![p] = remain]
  BY DEF ExecuteSub
<1>2. /\ wpc \in [Workers -> {"loop", "dispatch", "pop"} \cup ExecPlaces]
      /\ wq \in [Workers -> Queues \cup {NoQueue}]
      /\ taken \in [Workers -> Nat]
      /\ jobCount \in [Queues -> Int]
  BY DEF IInv, LocalInv, TypeOK
<1>3. p \in Queues /\ Executors(p) = {w} /\ Schedulers(p) = {} /\ Entries(p) = {}
  BY <1>1, SoleExecutor DEF ExecPlaces
<1>4. /\ jobCount[p] \in Nat /\ Len(jobs[p]) \in Nat /\ Cardinality(Inserting(p)) \in Nat
      /\ jobCount[p] = Len(jobs[p]) + Cardinality(Inserting(p)) + taken[w]
  BY <1>3, QueueNumbers DEF IInv, QueueInv, CountInv
<1>5. remain \in Nat /\ remain = Len(jobs[p]) + Cardinality(Inserting(p))
  BY <1>2, <1>4
<1> HIDE DEF p, remain
<1>6. ASSUME NEW q \in Queues PROVE TokenInv(q)' /\ CountInv(q)'
  <2>1. /\ Schedulers(q)' = Schedulers(q) /\ Inserting(q)' = Inserting(q)
        /\ jobs'[q] = jobs[q] /\ Entries(q)' = Entries(q)
    BY <1>1, PushersAlone DEF Entries
  <2>2. TokenInv(q) /\ CountInv(q)
    BY DEF IInv, QueueInv
  <2>3. CASE q = p
    <3>1. jobCount'[q] = remain /\ taken'[w] = 0
      BY <1>1, <1>2, <2>3
    <3>2. Executors(q)' = IF remain > 0 THEN {w} ELSE {}
      <4>1. \A v \in Workers : v # w => ~ (wpc[v] \in ExecPlaces /\ wq[v] = q)
        BY <1>3, <2>3 DEF Executors
      <4> QED  BY <1>1, <1>2, <1>3, <1>5, <2>3, <4>1 DEF Executors, ExecPlaces, p
    <3>3. TokenInv(q)'
      BY <1>3, <1>5, <2>1, <2>3, <3>1, <3>2 DEF TokenInv, AtMostOne
    <3>4. CountInv(q)'
      BY <1>4, <1>5, <2>1, <2>3, <3>1, <3>2 DEF CountInv
    <3> QED  BY <3>3, <3>4
  <2>4. CASE q # p
    <3>1. jobCount'[q] = jobCount[q]
      BY <1>1, <1>2, <2>4
    <3>2. Executors(q)' = Executors(q)
      BY <1>1, <1>2, <2>4 DEF Executors, ExecPlaces, p
    <3>3. \A v \in Executors(q) : taken'[v] = taken[v]
      BY <1>1, <1>2, <2>4 DEF Executors, p
    <3> QED  BY <2>1, <2>2, <3>1, <3>2, <3>3, Frame DEF TokenInv, AtMostOne
  <2> QED  BY <2>3, <2>4
<1> QED  BY <1>6 DEF QueueInv

(* Requeue: the token moves from the worker back to the GlobalQueue.          *)
LEMMA RequeueKeeps ==
  ASSUME IInv, NEW w \in Workers, Requeue(w)
  PROVE  QueueInv'
<1> DEFINE p == wq[w]
<1>1. /\ wpc[w] = "requeue" /\ UNCHANGED <<jobCount, jobs, taken, pushVars>>
      /\ wpc' = [wpc EXCEPT ![w] = "pop"] /\ wq' = [wq EXCEPT ![w] = NoQueue]
      /\ globalQueue' = Append(globalQueue, p)
  BY DEF Requeue
<1>2. /\ wpc \in [Workers -> {"loop", "dispatch", "pop"} \cup ExecPlaces]
      /\ wq \in [Workers -> Queues \cup {NoQueue}]
      /\ taken[w] = 0 /\ globalQueue \in Seq(Queues)
  BY <1>1 DEF IInv, LocalInv, TypeOK, WorkShape
<1>3. /\ p \in Queues /\ Executors(p) = {w} /\ Schedulers(p) = {} /\ Entries(p) = {}
      /\ jobCount[p] > 0
  BY <1>1, SoleExecutor DEF ExecPlaces
<1> HIDE DEF p
<1>4. ASSUME NEW q \in Queues PROVE TokenInv(q)' /\ CountInv(q)'
  <2>1. /\ Schedulers(q)' = Schedulers(q) /\ Inserting(q)' = Inserting(q)
        /\ jobs'[q] = jobs[q] /\ jobCount'[q] = jobCount[q] /\ taken' = taken
    BY <1>1, PushersAlone
  <2>2. TokenInv(q) /\ CountInv(q)
    BY DEF IInv, QueueInv
  <2> /\ jobCount[q] \in Nat /\ Len(jobs[q]) \in Nat /\ Cardinality(Inserting(q)) \in Nat
    BY QueueNumbers
  <2>3. CASE q = p
    <3>1. Executors(q)' = {}
      <4>1. \A v \in Workers : v # w => ~ (wpc[v] \in ExecPlaces /\ wq[v] = q)
        BY <1>3, <2>3 DEF Executors
      <4> QED  BY <1>1, <1>2, <4>1 DEF Executors, ExecPlaces
    <3>2. Entries(q)' = {Len(globalQueue) + 1}
      BY <1>1, <1>2, <1>3, <2>3, AppendEntries
    <3>3. TokenInv(q)'
      BY <1>3, <2>1, <2>3, <3>1, <3>2 DEF TokenInv, AtMostOne
    <3>4. CountInv(q)'
      BY <1>2, <1>3, <2>1, <2>2, <2>3, <3>1 DEF CountInv
    <3> QED  BY <3>3, <3>4
  <2>4. CASE q # p
    <3>1. Executors(q)' = Executors(q)
      BY <1>1, <1>2, <2>4 DEF Executors, ExecPlaces, p
    <3>2. Entries(q)' = Entries(q)
      BY <1>1, <1>2, <1>3, <2>4, AppendEntries
    <3> QED  BY <2>1, <2>2, <3>1, <3>2, Frame DEF TokenInv, AtMostOne
  <2> QED  BY <2>3, <2>4
<1> QED  BY <1>4 DEF QueueInv

(* The other steps move no token and no job in or out of a queue.             *)
LEMMA OthersKeep ==
  ASSUME IInv, UNCHANGED <<queueVars, pushVars, wq, taken>>,
         \A q \in Queues : Executors(q)' = Executors(q)
  PROVE  QueueInv'
<1>1. ASSUME NEW q \in Queues PROVE TokenInv(q)' /\ CountInv(q)'
  <2>1. /\ Schedulers(q)' = Schedulers(q) /\ Inserting(q)' = Inserting(q)
        /\ jobs' = jobs /\ jobCount' = jobCount /\ taken' = taken
        /\ Entries(q)' = Entries(q)
    BY PushersAlone DEF queueVars, Entries
  <2>2. TokenInv(q)
    BY DEF IInv, QueueInv
  <2> QED  BY <2>1, <2>2, Frame DEF TokenInv, AtMostOne
<1> QED  BY <1>1 DEF QueueInv

LEMMA INext == IInv /\ [Next]_vars => IInv'
<1> SUFFICES ASSUME IInv, [Next]_vars PROVE IInv'
  OBVIOUS
<1>0. LocalInv'
  BY LocalNext DEF IInv
<1> USE DEF ExecPlaces
<1>1. ASSUME NEW t \in Threads, NEW q \in Queues, PushCount(t, q) PROVE QueueInv'
  BY <1>1, PushCountKeeps
<1>2. ASSUME NEW t \in Threads, PushStep(t) PROVE QueueInv'
  BY <1>2, PushInsertKeeps, PushRegisterKeeps DEF PushStep
<1>3. wpc \in [Workers -> {"loop", "dispatch", "pop"} \cup ExecPlaces]
  BY DEF IInv, LocalInv, TypeOK
<1>4. ASSUME NEW w \in Workers, WorkStep(w) PROVE QueueInv'
  <2>1. CASE ExecuteTake(w)
    BY <2>1, TakeKeeps
  <2>2. CASE ExecuteSub(w)
    BY <2>2, SubKeeps
  <2>3. CASE Requeue(w)
    BY <2>3, RequeueKeeps
  <2>4. CASE Pop(w) /\ globalQueue # <<>>
    BY <2>4, PopKeeps
  <2>5. CASE Pop(w) /\ globalQueue = <<>>
    <3>1. \A q \in Queues : Executors(q)' = Executors(q)
      BY <1>3, <2>5 DEF Pop, Executors
    <3> QED  BY <2>5, <3>1, OthersKeep DEF Pop, queueVars
  <2>6. CASE LoopHead(w)
    <3>1. \A q \in Queues : Executors(q)' = Executors(q)
      BY <1>3, <2>6 DEF LoopHead, Executors
    <3> QED  BY <2>6, <3>1, OthersKeep DEF LoopHead
  <2>7. CASE DispatchReturn(w)
    <3>1. \A q \in Queues : Executors(q)' = Executors(q)
      BY <1>3, <2>7 DEF DispatchReturn, Executors
    <3> QED  BY <2>7, <3>1, OthersKeep DEF DispatchReturn
  <2>8. CASE JobBegin(w)
    <3>1. \A q \in Queues : Executors(q)' = Executors(q)
      BY <1>3, <2>8 DEF JobBegin, Executors
    <3> QED  BY <2>8, <3>1, OthersKeep DEF JobBegin
  <2>9. CASE JobEnd(w)
    <3>1. \A q \in Queues : Executors(q)' = Executors(q)
      BY <1>3, <2>9 DEF JobEnd, Executors
    <3> QED  BY <2>9, <3>1, OthersKeep DEF JobEnd
  <2>10. CASE ListDone(w)
    <3>1. \A q \in Queues : Executors(q)' = Executors(q)
      BY <1>3, <2>10 DEF ListDone, Executors
    <3> QED  BY <2>10, <3>1, OthersKeep DEF ListDone
  <2> QED  BY <1>4, <2>1, <2>2, <2>3, <2>4, <2>5, <2>6, <2>7, <2>8, <2>9, <2>10 DEF WorkStep
<1>5. ASSUME UNCHANGED <<queueVars, pushVars, workVars>> PROVE QueueInv'
  <2>1. \A q \in Queues : Executors(q)' = Executors(q)
    BY <1>5 DEF workVars, Executors
  <2> QED  BY <1>5, <2>1, OthersKeep DEF workVars
<1>6. ASSUME NEW p \in Producers, ProducerExit(p) PROVE QueueInv'
  BY <1>5, <1>6 DEF ProducerExit
<1>7. ASSUME NEW q \in Queues, ReleaseOwner(q) PROVE QueueInv'
  BY <1>5, <1>7 DEF ReleaseOwner
<1>8. ASSUME Shutdown PROVE QueueInv'
  BY <1>5, <1>8 DEF Shutdown
<1>9. ASSUME UNCHANGED vars PROVE QueueInv'
  BY <1>5, <1>9 DEF vars
<1>10. QueueInv'
  BY <1>1, <1>2, <1>4, <1>6, <1>7, <1>8, <1>9 DEF Next, Terminated
<1> QED  BY <1>0, <1>10 DEF IInv

LEMMA Inductive == Spec => []IInv
BY IInit, INext, PTL DEF Spec

(* No two workers ever run jobs of one queue at the same time, however many   *)
(* threads push and execute: the state of a Room needs no lock.               *)
THEOREM ActorsAreSerial == Spec => []SerialExecution
<1>1. IInv => SerialExecution
  BY SoleExecutor DEF SerialExecution, ExecPlaces
<1> QED  BY <1>1, Inductive, PTL

(* A queue with work is scheduled, in one place; a queue without is nowhere:  *)
(* no wakeup is lost and none is doubled.                                     *)
THEOREM SchedulingIsExact == Spec => []ScheduledOnce
<1>1. ASSUME IInv, NEW q \in Queues
      PROVE  /\ \A x, y \in Tokens(q) : x = y
             /\ Tokens(q) # {} <=> jobCount[q] > 0
  <2>1. TokenInv(q)
    BY <1>1 DEF IInv, QueueInv
  <2>2. Tokens(q) # {} <=> (Schedulers(q) # {} \/ Entries(q) # {} \/ Executors(q) # {})
    BY DEF Tokens
  <2>3. \A x, y \in Tokens(q) : x = y
    BY <2>1 DEF Tokens, TokenInv, AtMostOne
  <2> QED  BY <2>1, <2>2, <2>3 DEF TokenInv
<1>2. IInv => ScheduledOnce
  BY <1>1 DEF ScheduledOnce
<1> QED  BY <1>2, Inductive, PTL

(* _jobCount is exact at every step: jobs being inserted, queued and taken.   *)
THEOREM CountIsExact == Spec => []CountExact
<1>1. ASSUME IInv, NEW q \in Queues, Executors(q) # {}
      PROVE  (CHOOSE w \in Executors(q) : TRUE) \in Executors(q)
  BY <1>1
<1>2. ASSUME IInv, NEW q \in Queues
      PROVE  jobCount[q] = Len(jobs[q]) + Cardinality(Inserting(q))
               + (IF Executors(q) = {} THEN 0 ELSE taken[CHOOSE w \in Executors(q) : TRUE])
  <2> DEFINE v == CHOOSE w \in Executors(q) : TRUE
  <2>1. CountInv(q)
    BY <1>2 DEF IInv, QueueInv
  <2>2. Len(jobs[q]) \in Nat /\ Cardinality(Inserting(q)) \in Nat
    BY <1>2, QueueNumbers
  <2>3. CASE Executors(q) = {}
    BY <2>1, <2>2, <2>3 DEF CountInv
  <2>4. CASE Executors(q) # {}
    <3>1. v \in Executors(q)
      BY <1>1, <1>2, <2>4
    <3> HIDE DEF v
    <3>2. jobCount[q] = Len(jobs[q]) + Cardinality(Inserting(q)) + taken[v]
      BY <2>1, <3>1 DEF CountInv
    <3> QED  BY <2>4, <3>2 DEF v
  <2> QED  BY <2>3, <2>4
<1>3. IInv => CountExact
  BY <1>2, Zenon DEF CountExact
<1> QED  BY <1>3, Inductive, PTL

(* Jobs left in a queue keep the queue alive: a token holds a shared_ptr.     *)
THEOREM PendingJobsAreSafe == Spec => []PendingKeepsAlive
<1>1. ASSUME IInv, NEW q \in Queues, jobs[q] # <<>>
      PROVE  q \in Elems(globalQueue) \/ Executors(q) # {} \/ Pushers(q) # {}
  <2>1. Len(jobs[q]) \in Nat /\ Len(jobs[q]) # 0 /\ Cardinality(Inserting(q)) \in Nat
    BY <1>1, QueueNumbers
  <2>2. jobCount[q] > 0 \/ Executors(q) # {}
    BY <1>1, <2>1 DEF IInv, QueueInv, CountInv
  <2>3. Schedulers(q) # {} \/ Entries(q) # {} \/ Executors(q) # {}
    BY <1>1, <2>2 DEF IInv, QueueInv, TokenInv
  <2> QED  BY <2>3 DEF Schedulers, Entries, Pushers, Elems
<1>2. IInv => PendingKeepsAlive
  BY <1>1 DEF PendingKeepsAlive
<1> QED  BY <1>2, Inductive, PTL

-----------------------------------------------------------------------------
(* Shutdown.  A queue in the GlobalQueue has a worker that will still pop it, *)
(* one that has not yet found the GlobalQueue empty, unless a producer's Push *)
(* put it there; the job of that Push then waits, or is about to.             *)
Awake == \E w \in Workers : wpc[w] # "loop"

DrainInv ==
  /\ \A w \in Workers : ppc[w] # "idle" => wpc[w] \in {"dispatch", "job"}
  /\ \A w \in Workers : w \in exited => wpc[w] = "loop"
  /\ \A t \in Producers : ppc[t] \in {"insertFirst", "register"} => raised[pq[t]] # NoJob
  /\ \A i \in 1..Len(globalQueue) : Awake \/ raised[globalQueue[i]] # NoJob

LEMMA DrainInit == Init => DrainInv
<1> SUFFICES ASSUME Init PROVE DrainInv
  OBVIOUS
<1>1. /\ \A t \in Threads : ppc[t] = "idle"
      /\ \A w \in Workers : w \in Threads /\ w \notin exited
      /\ 1..Len(globalQueue) = {}
  BY DEF Init, Threads
<1>2. \A t \in Producers : ppc[t] \notin {"insertFirst", "register"}
  BY <1>1 DEF Threads
<1> QED  BY <1>1, <1>2 DEF DrainInv

LEMMA DrainNext == IInv /\ DrainInv /\ [Next]_vars => DrainInv'
<1> SUFFICES ASSUME IInv, DrainInv, [Next]_vars PROVE DrainInv'
  OBVIOUS
<1>0. /\ wpc \in [Workers -> {"loop", "dispatch", "pop"} \cup ExecPlaces]
      /\ ppc \in [Threads -> {"idle", "insert", "insertFirst", "register"}]
      /\ pq \in [Threads -> Queues \cup {NoQueue}] /\ made \in [Threads -> 0..MaxPush]
      /\ globalQueue \in Seq(Queues) /\ raised \in [Queues -> Jobs \cup {NoJob}]
      /\ \A t \in Threads : ppc[t] # "idle" => pq[t] \in Queues
      /\ \A i \in 1..Len(globalQueue) : globalQueue[i] \in Queues
  BY DEF IInv, LocalInv, TypeOK, PushShape
<1>1. ASSUME NEW t \in Threads, NEW q \in Queues, PushCount(t, q) PROVE DrainInv'
  <2>1. /\ globalQueue' = globalQueue /\ wpc' = wpc /\ exited' = exited
        /\ t \in Workers => wpc[t] \in {"dispatch", "job"}
        /\ \A u \in Threads : u # t => ppc'[u] = ppc[u] /\ pq'[u] = pq[u]
        /\ ppc'[t] = (IF jobCount[q] = 0 THEN "insertFirst" ELSE "insert") /\ pq'[t] = q
    BY <1>0, <1>1 DEF PushCount, MayPush, workVars, mainVars
  <2>2. \A p \in Queues : raised[p] # NoJob => raised'[p] # NoJob
    <3>1. <<t, made'[t]>> # NoJob
      BY <1>0, <1>1 DEF PushCount, NoJob
    <3> QED  BY <1>0, <1>1, <3>1 DEF PushCount
  <2>3. t \in Producers /\ jobCount[q] = 0 => raised'[q] # NoJob
    <3>1. <<t, made'[t]>> # NoJob
      BY <1>0, <1>1 DEF PushCount, NoJob
    <3> QED  BY <1>0, <1>1, <3>1 DEF PushCount
  <2>4. \A u \in Producers : ppc'[u] \in {"insertFirst", "register"} => raised'[pq'[u]] # NoJob
    <3> SUFFICES ASSUME NEW u \in Producers, ppc'[u] \in {"insertFirst", "register"}
                 PROVE  raised'[pq'[u]] # NoJob
      OBVIOUS
    <3>1. CASE u = t
      BY <2>1, <2>3, <3>1
    <3>2. CASE u # t
      BY <1>0, <2>1, <2>2, <3>2 DEF DrainInv, Threads
    <3> QED  BY <3>1, <3>2
  <2>5. \A w \in Workers : ppc'[w] # "idle" => wpc'[w] \in {"dispatch", "job"}
    BY <2>1 DEF DrainInv, Threads
  <2> QED  BY <1>0, <2>1, <2>2, <2>4, <2>5 DEF DrainInv, Awake
<1>2. ASSUME NEW t \in Threads, PushInsert(t) PROVE DrainInv'
  <2>1. /\ UNCHANGED <<globalQueue, wpc, exited, raised>>
        /\ \A u \in Threads : u # t => ppc'[u] = ppc[u] /\ pq'[u] = pq[u]
        /\ ppc[t] # "idle"
        /\ ppc'[t] \in {"insertFirst", "register"} => ppc[t] = "insertFirst" /\ pq'[t] = pq[t]
    BY <1>0, <1>2 DEF PushInsert, workVars, mainVars
  <2> QED  BY <2>1 DEF DrainInv, Awake, Threads
<1>3. ASSUME NEW t \in Threads, PushRegister(t) PROVE DrainInv'
  <2>1. /\ ppc[t] = "register" /\ UNCHANGED <<wpc, exited, raised>>
        /\ \A u \in Threads : u # t => ppc'[u] = ppc[u] /\ pq'[u] = pq[u]
        /\ ppc'[t] = "idle" /\ globalQueue' = Append(globalQueue, pq[t]) /\ pq[t] \in Queues
    BY <1>0, <1>3 DEF PushRegister, workVars, mainVars
  <2>2. /\ Len(globalQueue') = Len(globalQueue) + 1 /\ Len(globalQueue) \in Nat
        /\ \A i \in 1..Len(globalQueue) : globalQueue'[i] = globalQueue[i]
        /\ globalQueue'[Len(globalQueue) + 1] = pq[t]
    BY <1>0, <2>1
  <2>3. Awake \/ raised[pq[t]] # NoJob
    BY <2>1 DEF DrainInv, Awake, Threads
  <2>4. \A i \in 1..Len(globalQueue') : Awake \/ raised[globalQueue'[i]] # NoJob
    BY <2>2, <2>3 DEF DrainInv
  <2> QED  BY <2>1, <2>4, SMTT(30) DEF DrainInv, Awake, Threads
<1>4. ASSUME NEW w \in Workers, LoopHead(w) PROVE DrainInv'
  <2>1. /\ UNCHANGED <<globalQueue, ppc, pq, raised>> /\ wpc[w] = "loop"
        /\ \A v \in Workers : v # w => wpc'[v] = wpc[v] /\ (v \in exited' <=> v \in exited)
        /\ \/ wpc'[w] = "dispatch" /\ exited' = exited /\ w \notin exited
           \/ wpc' = wpc
    BY <1>0, <1>4 DEF LoopHead, queueVars, pushVars
  <2>2. Awake => Awake'
    BY <2>1 DEF Awake
  <2>3. \A i \in 1..Len(globalQueue) : Awake' \/ raised[globalQueue[i]] # NoJob
    BY <2>2 DEF DrainInv
  <2> QED  BY <2>1, <2>3 DEF DrainInv
<1>5. ASSUME NEW w \in Workers, DispatchReturn(w) PROVE DrainInv'
  <2>1. /\ UNCHANGED <<globalQueue, ppc, pq, exited, raised>> /\ wpc[w] = "dispatch" /\ ppc[w] = "idle"
        /\ wpc'[w] = "pop" /\ \A v \in Workers : v # w => wpc'[v] = wpc[v]
    BY <1>0, <1>5 DEF DispatchReturn, queueVars, pushVars, mainVars
  <2> QED  BY <2>1 DEF DrainInv, Awake
<1>6. ASSUME NEW w \in Workers, Pop(w) PROVE DrainInv'
  <2>1. /\ UNCHANGED <<ppc, pq, exited, raised>> /\ wpc[w] = "pop" /\ ppc[w] = "idle"
        /\ \A v \in Workers : v # w => wpc'[v] = wpc[v]
    BY <1>0, <1>6 DEF Pop, pushVars, mainVars, DrainInv, Threads
  <2>2. CASE globalQueue = <<>>
    <3>1. wpc'[w] = "loop" /\ Len(globalQueue') = 0
      BY <1>0, <1>6, <2>2 DEF Pop
    <3> QED  BY <2>1, <3>1 DEF DrainInv
  <2>3. CASE globalQueue # <<>>
    <3>1. wpc'[w] = "take"
      BY <1>0, <1>6, <2>3 DEF Pop
    <3>2. Awake'
      BY <3>1 DEF Awake
    <3> QED  BY <2>1, <3>1, <3>2 DEF DrainInv
  <2> QED  BY <2>2, <2>3
<1>7. ASSUME NEW w \in Workers, ExecuteTake(w) \/ JobBegin(w) \/ ListDone(w) \/ ExecuteSub(w) \/ Requeue(w)
      PROVE  DrainInv'
  <2>1. /\ UNCHANGED <<ppc, pq, exited, raised>> /\ wpc[w] \in {"take", "run", "sub", "requeue"}
        /\ ppc[w] = "idle" /\ wpc'[w] \in {"job", "run", "sub", "requeue", "pop"}
        /\ \A v \in Workers : v # w => wpc'[v] = wpc[v]
    BY <1>0, <1>7 DEF ExecuteTake, JobBegin, ListDone, ExecuteSub, Requeue,
                      pushVars, mainVars, queueVars, DrainInv, Threads
  <2>2. Awake'
    BY <2>1 DEF Awake
  <2> QED  BY <2>1, <2>2 DEF DrainInv
<1>8. ASSUME NEW w \in Workers, JobEnd(w) PROVE DrainInv'
  <2>1. /\ UNCHANGED <<ppc, pq, exited>> /\ wpc[w] = "job" /\ ppc[w] = "idle" /\ wpc'[w] = "run"
        /\ \A v \in Workers : v # w => wpc'[v] = wpc[v]
        /\ \A q \in Queues : q # wq[w] => raised'[q] = raised[q]
    BY <1>0, <1>8 DEF JobEnd, pushVars, mainVars
  <2>2. Awake'
    BY <2>1 DEF Awake
  <2>3. Schedulers(wq[w]) = {}
    BY <2>1, SoleExecutor DEF ExecPlaces
  <2>4. \A t \in Producers : ppc[t] \in {"insertFirst", "register"} =>
          t \in Threads /\ pq[t] \in Queues /\ pq[t] # wq[w]
    BY <1>0, <2>3 DEF Schedulers, Threads
  <2>5. \A t \in Producers : ppc'[t] \in {"insertFirst", "register"} => raised'[pq'[t]] # NoJob
    BY <2>1, <2>4 DEF DrainInv
  <2> QED  BY <2>1, <2>2, <2>5 DEF DrainInv
<1>9. ASSUME NEW p \in Producers, ProducerExit(p) PROVE DrainInv'
  <2>1. UNCHANGED <<globalQueue, ppc, pq, wpc, raised>> /\ exited' = exited \cup {p} /\ p \notin Workers
    BY <1>9 DEF ProducerExit, queueVars, pushVars, workVars, Assumptions
  <2> QED  BY <2>1 DEF DrainInv, Awake
<1>10. ASSUME UNCHANGED <<queueVars, pushVars, workVars, exited, raised>> PROVE DrainInv'
  BY <1>10 DEF DrainInv, Awake, queueVars, pushVars, workVars
<1> QED
  BY <1>1, <1>2, <1>3, <1>4, <1>5, <1>6, <1>7, <1>8, <1>9, <1>10
     DEF Next, PushStep, WorkStep, ReleaseOwner, Shutdown, Terminated, vars, mainVars

(* Shutdown leaves work behind only where a producer scheduled it: when all   *)
(* workers have left, the count of a queue that still has some was taken from *)
(* 0 by the Push of a producer (the timer thread), whose job has not run.     *)
THEOREM ExitLosesOnlyBehindProducers == Spec => []ExitDrains
<1>1. IInv /\ DrainInv => ExitDrains
  <2> SUFFICES ASSUME IInv, DrainInv, Workers \subseteq exited, NEW q \in Queues, jobCount[q] > 0
               PROVE  raised[q] # NoJob
    BY DEF ExitDrains
  <2>1. \A w \in Workers : wpc[w] = "loop" /\ ppc[w] = "idle"
    <3>1. \A w \in Workers : wpc[w] = "loop" /\ w \in Threads
      BY DEF DrainInv, Threads
    <3>2. \A w \in Workers : ppc[w] = "idle"
      BY <3>1 DEF DrainInv
    <3> QED  BY <3>1, <3>2
  <2>2. Executors(q) = {}
    BY <2>1 DEF Executors, ExecPlaces
  <2>3. Schedulers(q) # {} \/ Entries(q) # {}
    BY <2>2 DEF IInv, QueueInv, TokenInv
  <2>4. CASE Schedulers(q) # {}
    <3>1. PICK t \in Threads : ppc[t] \in {"insertFirst", "register"} /\ pq[t] = q
      BY <2>4 DEF Schedulers
    <3>2. t \in Producers
      BY <2>1, <3>1 DEF Threads
    <3> QED  BY <3>1, <3>2 DEF DrainInv
  <2>5. CASE Entries(q) # {}
    <3>1. PICK i \in 1..Len(globalQueue) : globalQueue[i] = q
      BY <2>5 DEF Entries
    <3> QED  BY <2>1, <3>1 DEF DrainInv, Awake
  <2> QED  BY <2>3, <2>4, <2>5
<1>2. IInv /\ DrainInv /\ [Next]_vars => (IInv /\ DrainInv)'
  BY INext, DrainNext
<1> QED  BY <1>1, <1>2, IInit, DrainInit, PTL DEF Spec


-----------------------------------------------------------------------------
(* Refinement.  The jobs that were inserted before: by then their thread has  *)
(* made them, and is not about to insert them.  Between two batches a worker  *)
(* has no jobs.                                                               *)
Past == {j \in Jobs : /\ j[2] <= made[j[1]]
                      /\ ppc[j[1]] \in {"insert", "insertFirst"} => j[2] # made[j[1]]}

PastInv ==
  /\ \A w \in Workers : wpc[w] \notin {"run", "job"} => list[w] = <<>>
  /\ jobs \in [Queues -> Seq(Past)]
  /\ list \in [Workers -> Seq(Past)]
  /\ done \in [Queues -> Seq(Past)]

LEMMA PastInit == Init => PastInv
<1> SUFFICES ASSUME Init PROVE PastInv
  OBVIOUS
<1>1. <<>> \in Seq(Past)
  OBVIOUS
<1> QED  BY <1>1 DEF Init, PastInv

(* What is past stays past: a thread counts on only after its insertion.      *)
LEMMA PastGrows ==
  ASSUME LocalInv, [Next]_vars
  PROVE  Past \subseteq Past'
<1> SUFFICES ASSUME NEW j \in Jobs, j \in Past PROVE j \in Past'
  BY DEF Past
<1>1. j[1] \in Threads /\ j[2] \in 1..MaxPush
  BY DEF Jobs
<1>2. /\ made \in [Threads -> 0..MaxPush] /\ ppc \in [Threads -> {"idle", "insert", "insertFirst", "register"}]
  BY DEF LocalInv, TypeOK
<1>3. ASSUME NEW t \in Threads, NEW q \in Queues, PushCount(t, q) PROVE j \in Past'
  <2>1. made'[j[1]] = made[j[1]] + (IF j[1] = t THEN 1 ELSE 0)
    BY <1>1, <1>2, <1>3 DEF PushCount
  <2>2. j[1] # t => ppc'[j[1]] = ppc[j[1]]
    BY <1>1, <1>2, <1>3 DEF PushCount
  <2>3. made[j[1]] \in Nat /\ j[2] \in Nat
    BY <1>1, <1>2
  <2> QED  BY <2>1, <2>2, <2>3 DEF Past
<1>4. ASSUME made' = made, ppc'[j[1]] \in {"insert", "insertFirst"} => ppc[j[1]] \in {"insert", "insertFirst"}
      PROVE  j \in Past'
  BY <1>4 DEF Past
<1>5. ASSUME NEW t \in Threads, PushStep(t) PROVE j \in Past'
  <2>1. made' = made /\ (ppc'[j[1]] \in {"insert", "insertFirst"} => ppc[j[1]] \in {"insert", "insertFirst"})
    BY <1>1, <1>2, <1>5 DEF PushStep, PushInsert, PushRegister
  <2> QED  BY <1>4, <2>1
<1>6. ASSUME NEW w \in Workers, WorkStep(w) PROVE j \in Past'
  <2>1. made' = made /\ ppc' = ppc
    BY <1>6 DEF WorkStep, LoopHead, DispatchReturn, Pop, ExecuteTake, JobBegin, JobEnd, ListDone,
       ExecuteSub, Requeue, pushVars
  <2> QED  BY <1>4, <2>1
<1>7. ASSUME made' = made, ppc' = ppc PROVE j \in Past'
  BY <1>4, <1>7
<1> QED
  BY <1>3, <1>5, <1>6, <1>7
     DEF Next, ProducerExit, ReleaseOwner, Shutdown, Terminated, vars, pushVars

LEMMA PastNext == IInv /\ PastInv /\ [Next]_vars => PastInv'
<1> SUFFICES ASSUME IInv, PastInv, [Next]_vars PROVE PastInv'
  OBVIOUS
<1>0. /\ wpc \in [Workers -> {"loop", "dispatch", "pop"} \cup ExecPlaces]
      /\ ppc \in [Threads -> {"idle", "insert", "insertFirst", "register"}]
      /\ made \in [Threads -> 0..MaxPush]
      /\ \A t \in Threads : ppc[t] # "idle" => pq[t] \in Queues /\ made[t] # 0
      /\ \A w \in Workers : wpc[w] \in ExecPlaces => wq[w] \in Queues
  BY DEF IInv, LocalInv, TypeOK, PushShape, WorkShape
<1>1. Past \subseteq Past'
  BY PastGrows DEF IInv
<1>2. \A s : s \in Seq(Past) => s \in Seq(Past')
  <2> HIDE DEF Past
  <2> SUFFICES ASSUME NEW s \in Seq(Past) PROVE s \in Seq(Past')
    OBVIOUS
  <2>1. \A i \in 1..Len(s) : s[i] \in Past'
    BY <1>1, ElementOfSeq
  <2> QED  BY <2>1
<1>3. /\ jobs \in [Queues -> Seq(Past')] /\ list \in [Workers -> Seq(Past')]
      /\ done \in [Queues -> Seq(Past')]
  BY <1>2 DEF PastInv
<1>4. ASSUME jobs' = jobs, list' = list, done' = done,
             \A w \in Workers : wpc'[w] \notin {"run", "job"} => list[w] = <<>>
      PROVE  PastInv'
  BY <1>3, <1>4 DEF PastInv
<1>5. ASSUME NEW t \in Threads, PushInsert(t) PROVE PastInv'
  <2>1. /\ jobs' = [jobs EXCEPT ![pq[t]] = Append(@, <<t, made[t]>>)] /\ pq[t] \in Queues
        /\ list' = list /\ done' = done /\ wpc' = wpc /\ made' = made
        /\ ppc'[t] \notin {"insert", "insertFirst"}
    BY <1>0, <1>5 DEF PushInsert, workVars
  <2>2. <<t, made[t]>> \in Jobs /\ ppc[t] # "idle"
    BY <1>0, <1>5 DEF PushInsert, Jobs
  <2>3. <<t, made[t]>> \in Past'
    BY <1>0, <2>1, <2>2 DEF Past
  <2>4. jobs' \in [Queues -> Seq(Past')]
    <3>1. Append(jobs[pq[t]], <<t, made[t]>>) \in Seq(Past')
      BY <1>3, <2>1, <2>3, AppendProperties
    <3> QED  BY <1>3, <2>1, <3>1
  <2> QED  BY <1>3, <2>1, <2>4 DEF PastInv
<1>6. ASSUME NEW w \in Workers, ExecuteTake(w) PROVE PastInv'
  <2> DEFINE p == wq[w]
             n == BatchSize(jobs[p])
  <2>1. /\ p \in Queues /\ done' = done
        /\ list' = [list EXCEPT ![w] = SubSeq(jobs[p], 1, n)]
        /\ jobs' = [jobs EXCEPT ![p] = SubSeq(@, n + 1, Len(@))]
        /\ wpc' = [wpc EXCEPT ![w] = "run"]
    BY <1>0, <1>6 DEF ExecuteTake, ExecPlaces
  <2>2. jobs[p] \in Seq(Past')
    BY <1>3, <2>1
  <2>3. n \in 0..Len(jobs[p])
    BY <2>2 DEF BatchSize
  <2>4. SubSeq(jobs[p], 1, n) \in Seq(Past') /\ SubSeq(jobs[p], n + 1, Len(jobs[p])) \in Seq(Past')
    <3> HIDE DEF n, p
    <3> QED  BY <2>2, <2>3, CutSeq
  <2> HIDE DEF n, p
  <2>5. list' \in [Workers -> Seq(Past')] /\ jobs' \in [Queues -> Seq(Past')]
    BY <1>3, <2>1, <2>4
  <2>6. \A v \in Workers : wpc'[v] \notin {"run", "job"} => list'[v] = <<>>
    BY <1>0, <2>1 DEF PastInv
  <2> QED  BY <1>3, <2>1, <2>5, <2>6 DEF PastInv
<1>7. ASSUME NEW w \in Workers, JobEnd(w) PROVE PastInv'
  <2>1. /\ wq[w] \in Queues /\ jobs' = jobs /\ list[w] # <<>>
        /\ list' = [list EXCEPT ![w] = Tail(@)]
        /\ done' = [done EXCEPT ![wq[w]] = Append(@, Head(list[w]))]
        /\ wpc' = [wpc EXCEPT ![w] = "run"]
    BY <1>0, <1>7 DEF JobEnd, ExecPlaces, queueVars, IInv, LocalInv, WorkShape
  <2>2. Tail(list[w]) \in Seq(Past') /\ Head(list[w]) \in Past'
    BY <1>3, <2>1, HeadTailProperties
  <2>3. Append(done[wq[w]], Head(list[w])) \in Seq(Past')
    BY <1>3, <2>1, <2>2, AppendProperties
  <2>4. list' \in [Workers -> Seq(Past')] /\ done' \in [Queues -> Seq(Past')]
    BY <1>3, <2>1, <2>2, <2>3
  <2>5. \A v \in Workers : wpc'[v] \notin {"run", "job"} => list'[v] = <<>>
    BY <1>0, <2>1 DEF PastInv
  <2> QED  BY <1>3, <2>1, <2>4, <2>5 DEF PastInv
<1>8. ASSUME NEW w \in Workers, \/ LoopHead(w) \/ DispatchReturn(w) \/ Pop(w) \/ JobBegin(w)
                                \/ ListDone(w) \/ ExecuteSub(w) \/ Requeue(w)
      PROVE  PastInv'
  <2>1. /\ jobs' = jobs /\ list' = list /\ done' = done
        /\ \A v \in Workers : v # w => wpc'[v] = wpc[v]
        /\ \/ wpc[w] \notin {"run", "job"}
           \/ wpc'[w] = "job"
           \/ list[w] = <<>>
    BY <1>0, <1>8 DEF LoopHead, DispatchReturn, Pop, JobBegin, ListDone, ExecuteSub, Requeue, queueVars
  <2>2. \A v \in Workers : wpc'[v] \notin {"run", "job"} => list[v] = <<>>
    BY <2>1 DEF PastInv
  <2> QED  BY <1>4, <2>1, <2>2
<1>9. ASSUME jobs' = jobs, list' = list, done' = done, wpc' = wpc PROVE PastInv'
  BY <1>4, <1>9 DEF PastInv
<1>10. ASSUME NEW t \in Threads, NEW q \in Queues, PushCount(t, q) PROVE PastInv'
  BY <1>9, <1>10 DEF PushCount, workVars
<1>11. ASSUME NEW t \in Threads, PushRegister(t) PROVE PastInv'
  BY <1>9, <1>11 DEF PushRegister, workVars
<1> QED
  BY <1>5, <1>6, <1>7, <1>8, <1>9, <1>10, <1>11
     DEF Next, PushStep, WorkStep, ProducerExit, ReleaseOwner, Shutdown, Terminated, vars,
         queueVars, workVars

(* What one queue shows of its mailbox: nothing runs and nothing is taken     *)
(* while no worker has it; else what its worker has left of the batch.        *)
Running(q) == {x \in Workers : wpc[x] = "job" /\ wq[x] = q}
ActiveIn(q) == {Head(list[w]) : w \in Running(q)}
Waiting(q) == Batch(q) \o jobs[q]

LEMMA NoneHas ==
  ASSUME NEW q, Executors(q) = {}
  PROVE  Batch(q) = <<>> /\ ActiveIn(q) = {}
<1>1. Running(q) = {}
  BY DEF Running, Executors, ExecPlaces
<1> QED  BY <1>1 DEF Batch, ActiveIn

LEMMA NoneHasNext ==
  ASSUME NEW q, Executors(q)' = {}
  PROVE  Batch(q)' = <<>> /\ ActiveIn(q)' = {}
<1>1. Running(q)' = {}
  BY DEF Running, Executors, ExecPlaces
<1> QED  BY <1>1 DEF Batch, ActiveIn

LEMMA OneHas ==
  ASSUME NEW q, NEW w \in Workers, Executors(q) = {w}
  PROVE  /\ wpc[w] = "job" => Batch(q) = Tail(list[w]) /\ ActiveIn(q) = {Head(list[w])}
         /\ wpc[w] # "job" => Batch(q) = list[w] /\ ActiveIn(q) = {}
<1>1. (CHOOSE x \in Executors(q) : TRUE) = w /\ Executors(q) # {}
  OBVIOUS
<1>2. Batch(q) = IF wpc[w] = "job" THEN Tail(list[w]) ELSE list[w]
  BY <1>1 DEF Batch
<1>3. Running(q) = IF wpc[w] = "job" THEN {w} ELSE {}
  BY DEF Running, Executors, ExecPlaces
<1> QED  BY <1>2, <1>3 DEF ActiveIn

LEMMA OneHasNext ==
  ASSUME NEW q, NEW w \in Workers, Executors(q)' = {w}
  PROVE  /\ wpc'[w] = "job" => Batch(q)' = Tail(list'[w]) /\ ActiveIn(q)' = {Head(list'[w])}
         /\ wpc'[w] # "job" => Batch(q)' = list'[w] /\ ActiveIn(q)' = {}
<1>1. (CHOOSE x \in Executors(q)' : TRUE) = w /\ Executors(q)' # {}
  OBVIOUS
<1>2. Batch(q)' = IF wpc'[w] = "job" THEN Tail(list'[w]) ELSE list'[w]
  BY <1>1 DEF Batch
<1>3. Running(q)' = IF wpc'[w] = "job" THEN {w} ELSE {}
  BY DEF Running, Executors, ExecPlaces
<1> QED  BY <1>2, <1>3 DEF ActiveIn

(* A step that changes neither who has a queue nor what that worker has of    *)
(* it, and leaves its _jobs alone, is no step of its actor.                   *)
LEMMA ActorFrame ==
  ASSUME IInv, NEW q \in Queues, Executors(q)' = Executors(q), jobs'[q] = jobs[q],
         \A w \in Executors(q) : list'[w] = list[w] /\ (wpc'[w] = "job" <=> wpc[w] = "job")
  PROVE  Batch(q)' = Batch(q) /\ Waiting(q)' = Waiting(q) /\ ActiveIn(q)' = ActiveIn(q)
<1>1. CASE Executors(q) = {}
  <2>1. Batch(q)' = Batch(q) /\ ActiveIn(q)' = ActiveIn(q)
    BY <1>1, NoneHas, NoneHasNext
  <2> QED  BY <2>1 DEF Waiting
<1>2. CASE Executors(q) # {}
  <2>1. PICK w \in Executors(q) : TRUE
    BY <1>2
  <2>2. w \in Workers /\ Executors(q) = {w} /\ Executors(q)' = {w}
    BY <2>1 DEF Executors, IInv, QueueInv, TokenInv, AtMostOne
  <2>3. list'[w] = list[w] /\ (wpc'[w] = "job" <=> wpc[w] = "job")
    BY <2>1
  <2>4. Batch(q)' = Batch(q) /\ ActiveIn(q)' = ActiveIn(q)
    <3>1. /\ wpc[w] = "job" => Batch(q) = Tail(list[w]) /\ ActiveIn(q) = {Head(list[w])}
          /\ wpc[w] # "job" => Batch(q) = list[w] /\ ActiveIn(q) = {}
      BY <2>2, OneHas
    <3>2. /\ wpc'[w] = "job" => Batch(q)' = Tail(list'[w]) /\ ActiveIn(q)' = {Head(list'[w])}
          /\ wpc'[w] # "job" => Batch(q)' = list'[w] /\ ActiveIn(q)' = {}
      BY <2>2, OneHasNext
    <3> QED  BY <2>3, <3>1, <3>2
  <2> QED  BY <2>4 DEF Waiting
<1> QED  BY <1>1, <1>2

(* The mailboxes are sequences of jobs that were posted before.               *)
LEMMA MailboxPast ==
  ASSUME IInv, PastInv, NEW q \in Queues
  PROVE  /\ Batch(q) \in Seq(Past) /\ jobs[q] \in Seq(Past) /\ Waiting(q) \in Seq(Past)
         /\ ActiveIn(q) \subseteq Past
<1> HIDE DEF Past
<1>1. Batch(q) \in Seq(Past) /\ ActiveIn(q) \subseteq Past
  <2>1. CASE Executors(q) = {}
    <3>1. Batch(q) = <<>> /\ ActiveIn(q) = {}
      BY <2>1, NoneHas
    <3> QED  BY <3>1
  <2>2. CASE Executors(q) # {}
    <3>1. PICK w \in Executors(q) : TRUE
      BY <2>2
    <3>2. w \in Workers /\ Executors(q) = {w}
      BY <3>1 DEF Executors, IInv, QueueInv, TokenInv, AtMostOne
    <3>3. list[w] \in Seq(Past) /\ (wpc[w] = "job" => list[w] # <<>>)
      BY <3>2 DEF PastInv, IInv, LocalInv, WorkShape
    <3>4. wpc[w] = "job" => Tail(list[w]) \in Seq(Past) /\ Head(list[w]) \in Past
      BY <3>3, HeadTailProperties
    <3>5. /\ wpc[w] = "job" => Batch(q) = Tail(list[w]) /\ ActiveIn(q) = {Head(list[w])}
          /\ wpc[w] # "job" => Batch(q) = list[w] /\ ActiveIn(q) = {}
      BY <3>2, OneHas
    <3> QED  BY <3>3, <3>4, <3>5
  <2> QED  BY <2>1, <2>2
<1>2. jobs[q] \in Seq(Past)
  BY DEF PastInv
<1>3. Waiting(q) \in Seq(Past)
  BY <1>1, <1>2 DEF Waiting
<1> QED  BY <1>1, <1>2, <1>3

(* The steps that SerialActor does not see.                                   *)
Unseen == /\ \A q \in Queues : Waiting(q)' = Waiting(q) /\ ActiveIn(q)' = ActiveIn(q)
          /\ done' = done

LEMMA UnseenStutters == Unseen => UNCHANGED Actor!vars
<1> SUFFICES ASSUME Unseen PROVE UNCHANGED Actor!vars
  OBVIOUS
<1>1. ActorMailbox' = ActorMailbox
  BY DEF Unseen, ActorMailbox, Waiting
<1>2. ActorActive' = ActorActive
  BY DEF Unseen, ActorActive, ActiveIn, Running
<1> QED  BY <1>1, <1>2 DEF Unseen, Actor!vars

(* A worker that has no jobs may take or let go of a queue unseen.            *)
LEMMA HandOver ==
  ASSUME IInv, IInv', NEW w \in Workers, jobs' = jobs, list' = list, list[w] = <<>>,
         wpc[w] # "job", wpc'[w] # "job",
         \A v \in Workers \ {w} : wpc'[v] = wpc[v] /\ wq'[v] = wq[v]
  PROVE  \A q \in Queues : Waiting(q)' = Waiting(q) /\ ActiveIn(q)' = ActiveIn(q)
<1> SUFFICES ASSUME NEW q \in Queues
             PROVE  Waiting(q)' = Waiting(q) /\ ActiveIn(q)' = ActiveIn(q)
  OBVIOUS
<1>1. \A v \in Workers \ {w} : v \in Executors(q)' <=> v \in Executors(q)
  BY DEF Executors
<1>2. CASE w \notin Executors(q) /\ w \notin Executors(q)'
  <2>1. Executors(q)' = Executors(q)
    BY <1>1, <1>2 DEF Executors
  <2>2. \A v \in Executors(q) : list'[v] = list[v] /\ (wpc'[v] = "job" <=> wpc[v] = "job")
    BY <1>2 DEF Executors
  <2> QED  BY <2>1, <2>2, ActorFrame
<1>3. ASSUME w \in Executors(q) PROVE Batch(q) = <<>> /\ ActiveIn(q) = {}
  <2>1. Executors(q) = {w}
    BY <1>3 DEF IInv, QueueInv, TokenInv, AtMostOne
  <2> QED  BY <2>1, OneHas
<1>4. ASSUME w \in Executors(q)' PROVE Batch(q)' = <<>> /\ ActiveIn(q)' = {}
  <2>1. Executors(q)' = {w}
    BY <1>4 DEF IInv, QueueInv, TokenInv, AtMostOne
  <2> QED  BY <2>1, OneHasNext
<1>5. ASSUME w \in Executors(q) \/ w \in Executors(q)'
      PROVE  Batch(q) = <<>> /\ ActiveIn(q) = {} /\ Batch(q)' = <<>> /\ ActiveIn(q)' = {}
  <2>1. w \in Executors(q) \/ Executors(q) = {}
    <3>1. w \notin Executors(q) => Executors(q)' = {w}
      BY <1>5 DEF IInv, QueueInv, TokenInv, AtMostOne
    <3>2. w \notin Executors(q) => \A v \in Executors(q) : v \in Executors(q)' /\ v # w
      BY <1>1 DEF Executors
    <3> QED  BY <3>1, <3>2
  <2>2. w \in Executors(q)' \/ Executors(q)' = {}
    <3>1. w \notin Executors(q)' => Executors(q) = {w}
      BY <1>5 DEF IInv, QueueInv, TokenInv, AtMostOne
    <3>2. w \notin Executors(q)' => \A v \in Executors(q)' : v \in Executors(q) /\ v # w
      BY <1>1 DEF Executors
    <3> QED  BY <3>1, <3>2
  <2>3. Batch(q) = <<>> /\ ActiveIn(q) = {}
    BY <1>3, <2>1, NoneHas
  <2>4. Batch(q)' = <<>> /\ ActiveIn(q)' = {}
    BY <1>4, <2>2, NoneHasNext
  <2> QED  BY <2>3, <2>4
<1> QED  BY <1>2, <1>5 DEF Waiting

(* Taking a batch moves jobs inside the mailbox.                              *)
LEMMA TakeUnseen ==
  ASSUME IInv, IInv', PastInv, NEW w \in Workers, ExecuteTake(w)
  PROVE  Unseen
<1>1. PICK p \in Queues : p = wq[w]
  BY SoleExecutor DEF ExecuteTake, ExecPlaces
<1>2. PICK n : n = BatchSize(jobs[p])
  OBVIOUS
<1>3. /\ list \in [Workers -> Seq(Jobs)] /\ jobs \in [Queues -> Seq(Jobs)]
      /\ wpc \in [Workers -> {"loop", "dispatch", "pop"} \cup ExecPlaces]
  BY DEF IInv, LocalInv, TypeOK
<1>4. /\ list' = [list EXCEPT ![w] = SubSeq(jobs[p], 1, n)]
      /\ jobs' = [jobs EXCEPT ![p] = SubSeq(@, n + 1, Len(@))]
      /\ wpc[w] = "take" /\ wpc' = [wpc EXCEPT ![w] = "run"] /\ wq' = wq /\ done' = done
  BY <1>1, <1>2 DEF ExecuteTake
<1>5. Executors(p) = {w} /\ Executors(p)' = {w}
  <2>1. Executors(p) = {w}
    BY <1>1, <1>4, SoleExecutor DEF ExecPlaces
  <2>2. Executors(p)' = Executors(p)
    BY <1>3, <1>4 DEF Executors, ExecPlaces
  <2> QED  BY <2>1, <2>2
<1>6. Batch(p) = <<>> /\ ActiveIn(p) = {}
  <2>1. list[w] = <<>> /\ wpc[w] # "job"
    BY <1>4 DEF PastInv
  <2> QED  BY <1>5, <2>1, OneHas
<1>7. Batch(p)' = SubSeq(jobs[p], 1, n) /\ ActiveIn(p)' = {}
  <2>1. list'[w] = SubSeq(jobs[p], 1, n) /\ wpc'[w] # "job"
    BY <1>3, <1>4
  <2> QED  BY <1>5, <2>1, OneHasNext
<1>8. Waiting(p)' = Waiting(p)
  <2>1. jobs[p] \in Seq(Jobs)
    BY <1>3
  <2>2. n \in 0..Len(jobs[p])
    BY <1>2, <2>1 DEF BatchSize
  <2>3. jobs[p] = SubSeq(jobs[p], 1, n) \o SubSeq(jobs[p], n + 1, Len(jobs[p]))
    BY <2>1, <2>2, CutSeq
  <2>4. jobs'[p] = SubSeq(jobs[p], n + 1, Len(jobs[p]))
    BY <1>3, <1>4
  <2>5. <<>> \o jobs[p] = jobs[p]
    BY <2>1
  <2> QED  BY <1>6, <1>7, <2>3, <2>4, <2>5 DEF Waiting
<1>9. ASSUME NEW q \in Queues, q # p
      PROVE  Waiting(q)' = Waiting(q) /\ ActiveIn(q)' = ActiveIn(q)
  <2>1. Executors(q)' = Executors(q) /\ w \notin Executors(q)
    BY <1>1, <1>3, <1>4, <1>9 DEF Executors, ExecPlaces
  <2>2. jobs'[q] = jobs[q]
    BY <1>3, <1>4, <1>9
  <2>3. \A v \in Executors(q) : list'[v] = list[v] /\ (wpc'[v] = "job" <=> wpc[v] = "job")
    BY <1>3, <1>4, <2>1 DEF Executors
  <2> QED  BY <2>1, <2>2, <2>3, ActorFrame
<1>10. done' = done
  BY <1>4
<1> QED  BY <1>6, <1>7, <1>8, <1>9, <1>10 DEF Unseen

(* Counting, registering and everything a worker does between two jobs.       *)
LEMMA OthersUnseen ==
  ASSUME IInv, IInv', PastInv,
         \/ \E t \in Threads : PushRegister(t) \/ \E q \in Queues : PushCount(t, q)
         \/ \E w \in Workers : \/ LoopHead(w) \/ DispatchReturn(w) \/ Pop(w) \/ ListDone(w)
                               \/ ExecuteSub(w) \/ Requeue(w)
         \/ \E p \in Producers : ProducerExit(p)
         \/ \E q \in Queues : ReleaseOwner(q)
         \/ Shutdown
         \/ UNCHANGED vars
  PROVE  Unseen
<1>1. ASSUME UNCHANGED workVars, jobs' = jobs, done' = done PROVE Unseen
  <2>1. ASSUME NEW q \in Queues PROVE Waiting(q)' = Waiting(q) /\ ActiveIn(q)' = ActiveIn(q)
    <3>1. Executors(q)' = Executors(q)
      BY <1>1 DEF Executors, workVars
    <3>2. /\ jobs'[q] = jobs[q]
          /\ \A v \in Executors(q) : list'[v] = list[v] /\ (wpc'[v] = "job" <=> wpc[v] = "job")
      BY <1>1 DEF workVars
    <3> QED  BY <3>1, <3>2, ActorFrame
  <2> QED  BY <1>1, <2>1 DEF Unseen
<1>2. ASSUME NEW w \in Workers,
             \/ LoopHead(w) \/ DispatchReturn(w) \/ Pop(w) \/ ListDone(w)
             \/ ExecuteSub(w) \/ Requeue(w)
      PROVE  Unseen
  <2>1. /\ jobs' = jobs /\ list' = list /\ done' = done
        /\ \A v \in Workers \ {w} : wpc'[v] = wpc[v] /\ wq'[v] = wq[v]
        /\ wpc[w] # "job" /\ (wpc[w] = "run" => list[w] = <<>>)
    BY <1>2 DEF LoopHead, DispatchReturn, Pop, ListDone, ExecuteSub, Requeue, queueVars,
                IInv, LocalInv, TypeOK
  <2>2. wpc'[w] # "job"
    BY <1>2 DEF LoopHead, DispatchReturn, Pop, ListDone, ExecuteSub, Requeue,
                IInv, LocalInv, TypeOK
  <2>3. list[w] = <<>>
    BY <2>1 DEF PastInv
  <2>4. \A q \in Queues : Waiting(q)' = Waiting(q) /\ ActiveIn(q)' = ActiveIn(q)
    BY <2>1, <2>2, <2>3, HandOver
  <2> QED  BY <2>1, <2>4 DEF Unseen
<1>3. ASSUME NEW t \in Threads, NEW q \in Queues, PushCount(t, q) PROVE Unseen
  BY <1>1, <1>3 DEF PushCount
<1>4. ASSUME NEW t \in Threads, PushRegister(t) PROVE Unseen
  BY <1>1, <1>4 DEF PushRegister
<1>5. ASSUME \/ \E p \in Producers : ProducerExit(p)
             \/ \E q \in Queues : ReleaseOwner(q)
             \/ Shutdown
             \/ UNCHANGED vars
      PROVE  Unseen
  <2>1. UNCHANGED workVars /\ jobs' = jobs /\ done' = done
    BY <1>5 DEF ProducerExit, ReleaseOwner, Shutdown, vars, queueVars
  <2> QED  BY <1>1, <2>1
<1> QED  BY <1>2, <1>3, <1>4, <1>5

(* The insertion under _lock posts a job no mailbox has known.                *)
LEMMA InsertPosts ==
  ASSUME IInv, PastInv, NEW t \in Threads, PushInsert(t)
  PROVE  \E q \in Queues, j \in Jobs : Actor!Post(q, j)
<1>1. PICK p \in Queues : p = pq[t]
  BY DEF PushInsert, IInv, LocalInv, PushShape, TypeOK
<1>2. PICK j \in Jobs : j = <<t, made[t]>>
  <2>1. made[t] \in 1..MaxPush
    BY DEF PushInsert, IInv, LocalInv, PushShape, TypeOK
  <2> QED  BY <2>1 DEF Jobs
<1>3. /\ jobs' = [jobs EXCEPT ![p] = Append(@, j)]
      /\ wpc' = wpc /\ wq' = wq /\ list' = list /\ done' = done
      /\ jobs \in [Queues -> Seq(Jobs)]
  BY <1>1, <1>2 DEF PushInsert, workVars, IInv, LocalInv, TypeOK
<1>4. j \notin Past
  BY <1>2 DEF PushInsert, Past
<1>5. ~ Actor!Known(j)
  <2> HIDE DEF Past
  <2>1. ASSUME NEW s \in Seq(Past), j \in Actor!Elements(s) PROVE FALSE
    BY <1>4, <2>1, ElementOfSeq DEF Actor!Elements
  <2>2. ASSUME NEW q \in Queues
        PROVE  /\ ActorMailbox[q] \in Seq(Past) /\ ActorActive[q] \subseteq Past
               /\ done[q] \in Seq(Past)
    <3>1. Waiting(q) \in Seq(Past) /\ ActiveIn(q) \subseteq Past
      BY MailboxPast
    <3>2. done[q] \in Seq(Past)
      BY DEF PastInv
    <3> QED  BY <3>1, <3>2 DEF ActorMailbox, ActorActive, Waiting, ActiveIn, Running
  <2> QED  BY <1>4, <2>1, <2>2 DEF Actor!Known
<1>6. ASSUME NEW q \in Queues
      PROVE  Batch(q)' = Batch(q) /\ ActiveIn(q)' = ActiveIn(q)
  BY <1>3 DEF Batch, ActiveIn, Running, Executors
<1>7. Waiting(p)' = Append(Waiting(p), j)
  <2>1. Batch(p) \in Seq(Past) /\ jobs[p] \in Seq(Past)
    BY MailboxPast
  <2>2. Batch(p) \in Seq(Jobs) /\ jobs[p] \in Seq(Jobs)
    <3>1. Past \subseteq Jobs
      BY DEF Past
    <3> HIDE DEF Past
    <3> QED  BY <2>1, <3>1, ElementOfSeq
  <2>3. jobs'[p] = Append(jobs[p], j)
    BY <1>3
  <2>4. Batch(p) \o Append(jobs[p], j) = Append(Batch(p) \o jobs[p], j)
    BY <2>2
  <2> QED  BY <1>6, <2>3, <2>4 DEF Waiting
<1>8. \A q \in Queues : q # p => Waiting(q)' = Waiting(q)
  BY <1>3, <1>6 DEF Waiting
<1>9. ActorMailbox' = [ActorMailbox EXCEPT ![p] = Append(@, j)]
  BY <1>7, <1>8 DEF ActorMailbox, Waiting
<1>10. ActorActive' = ActorActive
  BY <1>6 DEF ActorActive, ActiveIn, Running
<1>11. Actor!Post(p, j)
  BY <1>3, <1>5, <1>9, <1>10 DEF Actor!Post
<1> QED  BY <1>11

(* A job begins: it leaves the front of the mailbox of an idle actor.         *)
LEMMA BeginBegins ==
  ASSUME IInv, PastInv, NEW w \in Workers, JobBegin(w)
  PROVE  \E q \in Queues : Actor!Begin(q)
<1>1. PICK p \in Queues : p = wq[w]
  BY SoleExecutor DEF JobBegin, ExecPlaces
<1>2. /\ wpc \in [Workers -> {"loop", "dispatch", "pop"} \cup ExecPlaces]
      /\ list[w] \in Seq(Jobs) /\ jobs[p] \in Seq(Jobs)
  BY DEF IInv, LocalInv, TypeOK
<1>3. /\ wpc[w] = "run" /\ list[w] # <<>> /\ wpc' = [wpc EXCEPT ![w] = "job"]
      /\ wq' = wq /\ list' = list /\ jobs' = jobs /\ done' = done
  BY DEF JobBegin, queueVars
<1>4. Executors(p) = {w} /\ Executors(p)' = {w}
  <2>1. Executors(p) = {w}
    BY <1>1, <1>3, SoleExecutor DEF ExecPlaces
  <2>2. Executors(p)' = Executors(p)
    BY <1>2, <1>3 DEF Executors, ExecPlaces
  <2> QED  BY <2>1, <2>2
<1>5. Batch(p) = list[w] /\ ActiveIn(p) = {}
  BY <1>3, <1>4, OneHas
<1>6. Batch(p)' = Tail(list[w]) /\ ActiveIn(p)' = {Head(list[w])}
  <2>1. wpc'[w] = "job" /\ list'[w] = list[w]
    BY <1>2, <1>3
  <2> QED  BY <1>4, <2>1, OneHasNext
<1>7. Waiting(p) # <<>> /\ Head(Waiting(p)) = Head(list[w]) /\ Waiting(p)' = Tail(Waiting(p))
  <2>1. /\ list[w] \o jobs[p] # <<>> /\ Head(list[w] \o jobs[p]) = Head(list[w])
        /\ Tail(list[w] \o jobs[p]) = Tail(list[w]) \o jobs[p]
    BY <1>2, <1>3, HeadOfConcat
  <2> QED  BY <1>3, <1>5, <1>6, <2>1 DEF Waiting
<1>8. ASSUME NEW q \in Queues, q # p
      PROVE  Waiting(q)' = Waiting(q) /\ ActiveIn(q)' = ActiveIn(q)
  <2>1. Executors(q)' = Executors(q) /\ w \notin Executors(q)
    BY <1>1, <1>2, <1>3, <1>8 DEF Executors, ExecPlaces
  <2>2. jobs'[q] = jobs[q]
    BY <1>3
  <2>3. \A v \in Executors(q) : list'[v] = list[v] /\ (wpc'[v] = "job" <=> wpc[v] = "job")
    BY <1>2, <1>3, <2>1 DEF Executors
  <2> QED  BY <2>1, <2>2, <2>3, ActorFrame
<1>9. ActorMailbox[p] = Waiting(p) /\ ActorActive[p] = ActiveIn(p)
  BY DEF ActorMailbox, ActorActive, Waiting, ActiveIn, Running
<1>10. ActorMailbox' = [ActorMailbox EXCEPT ![p] = Tail(@)]
  BY <1>7, <1>8 DEF ActorMailbox, Waiting
<1>11. ActorActive' = [ActorActive EXCEPT ![p] = {Head(ActorMailbox[p])}]
  <2>1. ActiveIn(p)' = {Head(ActorMailbox[p])}
    BY <1>6, <1>7, <1>9
  <2> QED  BY <1>8, <2>1 DEF ActorActive, ActiveIn, Running
<1>12. Actor!Begin(p)
  BY <1>3, <1>5, <1>7, <1>9, <1>10, <1>11 DEF Actor!Begin
<1> QED  BY <1>12

(* A job ends: it is served, and its actor idle again.                        *)
LEMMA EndEnds ==
  ASSUME IInv, PastInv, NEW w \in Workers, JobEnd(w)
  PROVE  \E q \in Queues, j \in Jobs : Actor!End(q, j)
<1>1. PICK p \in Queues : p = wq[w]
  BY SoleExecutor DEF JobEnd, ExecPlaces
<1>2. /\ wpc \in [Workers -> {"loop", "dispatch", "pop"} \cup ExecPlaces]
      /\ list \in [Workers -> Seq(Jobs)] /\ jobs[p] \in Seq(Jobs)
      /\ done \in [Queues -> Seq(Jobs)] /\ list[w] # <<>>
  BY DEF IInv, LocalInv, TypeOK, WorkShape, JobEnd
<1>3. PICK j \in Jobs : j = Head(list[w])
  BY <1>2, HeadTailProperties
<1>4. /\ wpc[w] = "job" /\ wpc' = [wpc EXCEPT ![w] = "run"]
      /\ list' = [list EXCEPT ![w] = Tail(@)]
      /\ wq' = wq /\ jobs' = jobs /\ done' = [done EXCEPT ![p] = Append(@, j)]
  BY <1>1, <1>3 DEF JobEnd, queueVars
<1>5. Executors(p) = {w} /\ Executors(p)' = {w}
  <2>1. Executors(p) = {w}
    BY <1>1, <1>4, SoleExecutor DEF ExecPlaces
  <2>2. Executors(p)' = Executors(p)
    BY <1>2, <1>4 DEF Executors, ExecPlaces
  <2> QED  BY <2>1, <2>2
<1>6. Batch(p) = Tail(list[w]) /\ ActiveIn(p) = {j}
  BY <1>3, <1>4, <1>5, OneHas
<1>7. Batch(p)' = Tail(list[w]) /\ ActiveIn(p)' = {}
  <2>1. wpc'[w] # "job" /\ list'[w] = Tail(list[w])
    BY <1>2, <1>4
  <2> QED  BY <1>5, <2>1, OneHasNext
<1>8. ASSUME NEW q \in Queues, q # p
      PROVE  Waiting(q)' = Waiting(q) /\ ActiveIn(q)' = ActiveIn(q)
  <2>1. Executors(q)' = Executors(q) /\ w \notin Executors(q)
    BY <1>1, <1>2, <1>4, <1>8 DEF Executors, ExecPlaces
  <2>2. jobs'[q] = jobs[q]
    BY <1>4
  <2>3. \A v \in Executors(q) : list'[v] = list[v] /\ (wpc'[v] = "job" <=> wpc[v] = "job")
    BY <1>2, <1>4, <2>1 DEF Executors
  <2> QED  BY <2>1, <2>2, <2>3, ActorFrame
<1>9. Waiting(p)' = Waiting(p)
  BY <1>4, <1>6, <1>7 DEF Waiting
<1>10. ActorMailbox' = ActorMailbox
  BY <1>8, <1>9 DEF ActorMailbox, Waiting
<1>11. ActorActive' = [ActorActive EXCEPT ![p] = {}]
  BY <1>7, <1>8 DEF ActorActive, ActiveIn, Running
<1>12. ActorActive[p] = {j}
  BY <1>6 DEF ActorActive, ActiveIn, Running
<1>13. Actor!End(p, j)
  BY <1>4, <1>10, <1>11, <1>12 DEF Actor!End
<1> QED  BY <1>13

LEMMA ActorInit == Init => Actor!Init
<1> SUFFICES ASSUME Init PROVE Actor!Init
  OBVIOUS
<1>1. ASSUME NEW q \in Queues PROVE Batch(q) = <<>> /\ ActiveIn(q) = {} /\ jobs[q] = <<>>
  <2>1. Executors(q) = {}
    BY DEF Init, Executors, ExecPlaces
  <2> QED  BY <2>1, NoneHas DEF Init
<1>2. ActorMailbox = [q \in Queues |-> <<>>]
  BY <1>1 DEF ActorMailbox
<1>3. ActorActive = [q \in Queues |-> {}]
  BY <1>1 DEF ActorActive, ActiveIn, Running
<1> QED  BY <1>2, <1>3 DEF Init, Actor!Init

(* Jobs of one queue run one at a time, each once, in the order in which they *)
(* were inserted, whatever threads push and whatever workers execute: the     *)
(* promise Room.h builds on.                                                  *)
THEOREM QueuesAreSerialActors == Spec => ImplementsSerialActor
<1>1. ASSUME IInv, IInv', PastInv, [Next]_vars PROVE [Actor!Next]_Actor!vars
  <2>1. ASSUME NEW t \in Threads, PushInsert(t) PROVE Actor!Next
    BY <1>1, <2>1, InsertPosts DEF Actor!Next
  <2>2. ASSUME NEW w \in Workers, JobBegin(w) PROVE Actor!Next
    BY <1>1, <2>2, BeginBegins DEF Actor!Next
  <2>3. ASSUME NEW w \in Workers, JobEnd(w) PROVE Actor!Next
    BY <1>1, <2>3, EndEnds DEF Actor!Next
  <2>4. ASSUME NEW w \in Workers, ExecuteTake(w) PROVE UNCHANGED Actor!vars
    BY <1>1, <2>4, TakeUnseen, UnseenStutters
  <2>5. ASSUME \/ \E t \in Threads : PushRegister(t) \/ \E q \in Queues : PushCount(t, q)
               \/ \E w \in Workers : \/ LoopHead(w) \/ DispatchReturn(w) \/ Pop(w) \/ ListDone(w)
                                     \/ ExecuteSub(w) \/ Requeue(w)
               \/ \E p \in Producers : ProducerExit(p)
               \/ \E q \in Queues : ReleaseOwner(q)
               \/ Shutdown
               \/ UNCHANGED vars
        PROVE  UNCHANGED Actor!vars
    <3>1. Unseen
      BY <1>1, <2>5, OthersUnseen
    <3> QED  BY <3>1, UnseenStutters
  <2> QED  BY <1>1, <2>1, <2>2, <2>3, <2>4, <2>5 DEF Next, PushStep, WorkStep, Terminated
<1>2. IInv /\ PastInv /\ [Next]_vars => PastInv'
  BY PastNext
<1>3. Spec => [](IInv /\ PastInv)
  BY <1>2, PastInit, Inductive, PTL DEF Spec
<1> QED  BY <1>1, <1>3, ActorInit, PTL DEF Spec, Actor!Spec, ImplementsSerialActor
=============================================================================
