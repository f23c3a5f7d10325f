------------------------------ MODULE JobSystem ------------------------------
(* The actor runtime of ServerEngine/Job: JobQueue::Push and                  *)
(* JobQueue::Execute, the GlobalQueue between them, and the worker threads of *)
(* ChatServer/Main.cpp that dispatch completions and drain the GlobalQueue.   *)
(* One atomic operation, or one section under a spin lock, is one step.       *)
EXTENDS Integers, Sequences, FiniteSets

CONSTANTS Queues,      \* JobQueue objects (the rooms)
          Workers,     \* worker threads of Main.cpp
          Producers,   \* other threads that call Push (the timer thread)
          MaxExecute,  \* maxExecuteCount of JobQueue::Execute (64)
          MaxPush,     \* bound: Push calls per thread
          NoQueue      \* nullptr

Threads == Workers \cup Producers

(* The n-th job thread t pushes: a job object is known by who made it, when.  *)
Jobs == Threads \X (1..MaxPush)
NoJob == <<NoQueue, 0>>

ASSUME Assumptions == /\ IsFiniteSet(Threads)
                      /\ Workers \cap Producers = {}
                      /\ MaxExecute \in Nat \ {0}
                      /\ MaxPush \in Nat
                      /\ NoQueue \notin Queues

VARIABLES jobCount,    \* _jobCount of each queue
          jobs,        \* _jobs of each queue
          globalQueue, \* GlobalQueue::_jobQueues
          ppc, pq,     \* a thread inside Push: its place and the queue
          wpc, wq, list, taken,  \* a worker: place, queue, rest of executeList, its size
          isRunning,   \* the flag Main clears at shutdown
          exited,      \* threads that have left their loop
          owned,       \* queues the application still holds a shared_ptr to
          made,        \* history: Push calls of each thread
          raised,      \* history: the producer's job whose Push took the count of a
                       \*   queue from 0, until that job has run
          done         \* history: the jobs each queue has executed, in order

queueVars == <<jobCount, jobs, globalQueue>>
pushVars == <<ppc, pq>>
workVars == <<wpc, wq, list, taken>>
mainVars == <<isRunning, exited, owned>>
vars == <<queueVars, pushVars, workVars, mainVars, made, raised, done>>

Elems(s) == {s[i] : i \in 1..Len(s)}

(* Places of a worker that has popped a queue and not let go of it.           *)
ExecPlaces == {"take", "run", "job", "sub", "requeue"}

TypeOK ==
  /\ jobCount \in [Queues -> Int]
  /\ jobs \in [Queues -> Seq(Jobs)]
  /\ globalQueue \in Seq(Queues)
  /\ ppc \in [Threads -> {"idle", "insert", "insertFirst", "register"}]
  /\ pq \in [Threads -> Queues \cup {NoQueue}]
  /\ wpc \in [Workers -> {"loop", "dispatch", "pop"} \cup ExecPlaces]
  /\ wq \in [Workers -> Queues \cup {NoQueue}]
  /\ list \in [Workers -> Seq(Jobs)]
  /\ taken \in [Workers -> Nat]
  /\ isRunning \in BOOLEAN
  /\ exited \in SUBSET Threads
  /\ owned \in SUBSET Queues
  /\ made \in [Threads -> 0..MaxPush]
  /\ raised \in [Queues -> Jobs \cup {NoJob}]
  /\ done \in [Queues -> Seq(Jobs)]

Init ==
  /\ jobCount = [q \in Queues |-> 0]
  /\ jobs = [q \in Queues |-> <<>>]
  /\ globalQueue = <<>>
  /\ ppc = [t \in Threads |-> "idle"]
  /\ pq = [t \in Threads |-> NoQueue]
  /\ wpc = [w \in Workers |-> "loop"]
  /\ wq = [w \in Workers |-> NoQueue]
  /\ list = [w \in Workers |-> <<>>]
  /\ taken = [w \in Workers |-> 0]
  /\ isRunning = TRUE
  /\ exited = {}
  /\ owned = Queues
  /\ made = [t \in Threads |-> 0]
  /\ raised = [q \in Queues |-> NoJob]
  /\ done = [q \in Queues |-> <<>>]

-----------------------------------------------------------------------------
(* JobQueue::Push.  A thread calls it from a packet handler (a worker inside  *)
(* Dispatch), from a job it is running (Room::LeaveAndEnter), or from         *)
(* JobTimer::Distribute (the timer thread), through a shared_ptr it holds.    *)
MayPush(t, q) ==
  /\ t \notin exited
  /\ ppc[t] = "idle"
  /\ made[t] < MaxPush
  /\ \/ t \in Producers /\ q \in owned
     \/ t \in Workers /\ wpc[t] = "dispatch" /\ q \in owned
     \/ t \in Workers /\ wpc[t] = "job" /\ (q \in owned \/ q = wq[t])

(* Mutant: every Push registers its queue, whatever the count was.            *)
PushCountAlwaysFirst(t, q) ==
  /\ MayPush(t, q)
  /\ jobCount' = [jobCount EXCEPT ![q] = @ + 1]
  /\ ppc' = [ppc EXCEPT ![t] = "insertFirst"]
  /\ pq' = [pq EXCEPT ![t] = q]
  /\ made' = [made EXCEPT ![t] = @ + 1]
  /\ raised' = IF t \in Producers /\ jobCount[q] = 0
               THEN [raised EXCEPT ![q] = <<t, made'[t]>>] ELSE raised
  /\ UNCHANGED <<jobs, globalQueue, workVars, mainVars, done>>

(* prevCount = _jobCount.fetch_add(1), before the job is in the queue.        *)
PushCount(t, q) ==
  /\ MayPush(t, q)
  /\ jobCount' = [jobCount EXCEPT ![q] = @ + 1]
  /\ ppc' = [ppc EXCEPT ![t] = IF jobCount[q] = 0 THEN "insertFirst" ELSE "insert"]
  /\ pq' = [pq EXCEPT ![t] = q]
  /\ made' = [made EXCEPT ![t] = @ + 1]
  /\ raised' = IF t \in Producers /\ jobCount[q] = 0
               THEN [raised EXCEPT ![q] = <<t, made'[t]>>] ELSE raised
  /\ UNCHANGED <<jobs, globalQueue, workVars, mainVars, done>>

(* Mutant: the job is put at the front of _jobs.                              *)
PushInsertFront(t) ==
  /\ ppc[t] \in {"insert", "insertFirst"}
  /\ jobs' = [jobs EXCEPT ![pq[t]] = <<<<t, made[t]>>>> \o @]
  /\ ppc' = [ppc EXCEPT ![t] = IF @ = "insertFirst" THEN "register" ELSE "idle"]
  /\ pq' = [pq EXCEPT ![t] = IF ppc[t] = "insertFirst" THEN @ ELSE NoQueue]
  /\ UNCHANGED <<jobCount, globalQueue, workVars, mainVars, made, raised, done>>

(* The job is appended under _lock; only a Push that found the count at 0     *)
(* goes on to register the queue.                                             *)
PushInsert(t) ==
  /\ ppc[t] \in {"insert", "insertFirst"}
  /\ jobs' = [jobs EXCEPT ![pq[t]] = Append(@, <<t, made[t]>>)]
  /\ ppc' = [ppc EXCEPT ![t] = IF @ = "insertFirst" THEN "register" ELSE "idle"]
  /\ pq' = [pq EXCEPT ![t] = IF ppc[t] = "insertFirst" THEN @ ELSE NoQueue]
  /\ UNCHANGED <<jobCount, globalQueue, workVars, mainVars, made, raised, done>>

(* Mutant: the reference that is registered has been moved from.              *)
PushRegisterMoved(t) ==
  /\ ppc[t] = "register"
  /\ globalQueue' = Append(globalQueue, NoQueue)
  /\ ppc' = [ppc EXCEPT ![t] = "idle"]
  /\ pq' = [pq EXCEPT ![t] = NoQueue]
  /\ UNCHANGED <<jobCount, jobs, workVars, mainVars, made, raised, done>>

(* GlobalQueue::Push(shared_from_this()).                                     *)
PushRegister(t) ==
  /\ ppc[t] = "register"
  /\ globalQueue' = Append(globalQueue, pq[t])
  /\ ppc' = [ppc EXCEPT ![t] = "idle"]
  /\ pq' = [pq EXCEPT ![t] = NoQueue]
  /\ UNCHANGED <<jobCount, jobs, workVars, mainVars, made, raised, done>>

-----------------------------------------------------------------------------
(* The worker loop of Main.cpp.                                               *)
LoopHead(w) ==
  /\ w \notin exited
  /\ wpc[w] = "loop"
  /\ IF isRunning THEN /\ wpc' = [wpc EXCEPT ![w] = "dispatch"]
                       /\ UNCHANGED exited
                  ELSE /\ exited' = exited \cup {w}
                       /\ UNCHANGED wpc
  /\ UNCHANGED <<queueVars, pushVars, wq, list, taken, isRunning, owned, made, raised, done>>

(* IocpCore::Dispatch(10) returns, its handler (if any) having finished.      *)
DispatchReturn(w) ==
  /\ wpc[w] = "dispatch"
  /\ ppc[w] = "idle"
  /\ wpc' = [wpc EXCEPT ![w] = "pop"]
  /\ UNCHANGED <<queueVars, pushVars, wq, list, taken, mainVars, made, raised, done>>

(* Mutant: the inner loop of the worker also stops when isRunning is false.   *)
PopWhileRunning(w) ==
  /\ wpc[w] = "pop"
  /\ IF globalQueue = <<>> \/ ~ isRunning
       THEN /\ wpc' = [wpc EXCEPT ![w] = "loop"]
            /\ UNCHANGED <<globalQueue, wq>>
       ELSE /\ wpc' = [wpc EXCEPT ![w] = "take"]
            /\ wq' = [wq EXCEPT ![w] = Head(globalQueue)]
            /\ globalQueue' = Tail(globalQueue)
  /\ UNCHANGED <<jobCount, jobs, pushVars, list, taken, mainVars, made, raised, done>>

(* GlobalQueue::Pop: nullptr ends the inner loop.                             *)
Pop(w) ==
  /\ wpc[w] = "pop"
  /\ IF globalQueue = <<>>
       THEN /\ wpc' = [wpc EXCEPT ![w] = "loop"]
            /\ UNCHANGED <<globalQueue, wq>>
       ELSE /\ wpc' = [wpc EXCEPT ![w] = "take"]
            /\ wq' = [wq EXCEPT ![w] = Head(globalQueue)]
            /\ globalQueue' = Tail(globalQueue)
  /\ UNCHANGED <<jobCount, jobs, pushVars, list, taken, mainVars, made, raised, done>>

(* JobQueue::Execute, first part: at most maxExecuteCount jobs leave _jobs    *)
(* under _lock.                                                               *)
BatchSize(s) == IF Len(s) < MaxExecute THEN Len(s) ELSE MaxExecute

ExecuteTake(w) ==
  /\ wpc[w] = "take"
  /\ LET q == wq[w]
         n == BatchSize(jobs[q])
     IN /\ list' = [list EXCEPT ![w] = SubSeq(jobs[q], 1, n)]
        /\ taken' = [taken EXCEPT ![w] = n]
        /\ jobs' = [jobs EXCEPT ![q] = SubSeq(@, n + 1, Len(@))]
  /\ wpc' = [wpc EXCEPT ![w] = "run"]
  /\ UNCHANGED <<jobCount, globalQueue, pushVars, wq, mainVars, made, raised, done>>

(* job->Execute() begins; the job may itself call Push while it runs.         *)
JobBegin(w) ==
  /\ wpc[w] = "run"
  /\ list[w] # <<>>
  /\ wpc' = [wpc EXCEPT ![w] = "job"]
  /\ UNCHANGED <<queueVars, pushVars, wq, list, taken, mainVars, made, raised, done>>

JobEnd(w) ==
  /\ wpc[w] = "job"
  /\ ppc[w] = "idle"
  /\ done' = [done EXCEPT ![wq[w]] = Append(@, Head(list[w]))]
  /\ list' = [list EXCEPT ![w] = Tail(@)]
  /\ raised' = [raised EXCEPT ![wq[w]] = IF @ = Head(list[w]) THEN NoJob ELSE @]
  /\ wpc' = [wpc EXCEPT ![w] = "run"]
  /\ UNCHANGED <<queueVars, pushVars, wq, taken, mainVars, made>>

ListDone(w) ==
  /\ wpc[w] = "run"
  /\ list[w] = <<>>
  /\ wpc' = [wpc EXCEPT ![w] = "sub"]
  /\ UNCHANGED <<queueVars, pushVars, wq, list, taken, mainVars, made, raised, done>>

SubAndGo(w, size, keep(_)) ==
  /\ wpc[w] = "sub"
  /\ LET remain == jobCount[wq[w]] - size
     IN /\ jobCount' = [jobCount EXCEPT ![wq[w]] = remain]
        /\ wpc' = [wpc EXCEPT ![w] = IF keep(remain) THEN "requeue" ELSE "pop"]
        /\ wq' = [wq EXCEPT ![w] = IF keep(remain) THEN @ ELSE NoQueue]
  /\ taken' = [taken EXCEPT ![w] = 0]
  /\ UNCHANGED <<jobs, globalQueue, pushVars, list, mainVars, made, raised, done>>

(* Mutants: the cap is subtracted instead of the size of the batch; a queue   *)
(* with nothing left is put back; a queue with jobs left is not put back.     *)
ExecuteSubCap(w) == SubAndGo(w, MaxExecute, LAMBDA n : n > 0)
ExecuteSubAlways(w) == SubAndGo(w, taken[w], LAMBDA n : n >= 0)
ExecuteSubNever(w) == SubAndGo(w, taken[w], LAMBDA n : FALSE)

(* remain = _jobCount.fetch_sub(executedCount) - executedCount.               *)
ExecuteSub(w) ==
  /\ wpc[w] = "sub"
  /\ LET remain == jobCount[wq[w]] - taken[w]
     IN /\ jobCount' = [jobCount EXCEPT ![wq[w]] = remain]
        /\ wpc' = [wpc EXCEPT ![w] = IF remain > 0 THEN "requeue" ELSE "pop"]
        /\ wq' = [wq EXCEPT ![w] = IF remain > 0 THEN @ ELSE NoQueue]
  /\ taken' = [taken EXCEPT ![w] = 0]
  /\ UNCHANGED <<jobs, globalQueue, pushVars, list, mainVars, made, raised, done>>

(* Jobs remain: the queue goes back to the end of the GlobalQueue.            *)
Requeue(w) ==
  /\ wpc[w] = "requeue"
  /\ globalQueue' = Append(globalQueue, wq[w])
  /\ wpc' = [wpc EXCEPT ![w] = "pop"]
  /\ wq' = [wq EXCEPT ![w] = NoQueue]
  /\ UNCHANGED <<jobCount, jobs, pushVars, list, taken, mainVars, made, raised, done>>

-----------------------------------------------------------------------------
(* Main clears isRunning; the timer thread leaves its loop when it sees that; *)
(* the application may drop its last shared_ptr to a queue.                   *)
Shutdown ==
  /\ isRunning
  /\ isRunning' = FALSE
  /\ UNCHANGED <<queueVars, pushVars, workVars, exited, owned, made, raised, done>>

ProducerExit(p) ==
  /\ ~ isRunning
  /\ p \notin exited
  /\ ppc[p] = "idle"
  /\ exited' = exited \cup {p}
  /\ UNCHANGED <<queueVars, pushVars, workVars, isRunning, owned, made, raised, done>>

ReleaseOwner(q) ==
  /\ q \in owned
  /\ owned' = owned \ {q}
  /\ UNCHANGED <<queueVars, pushVars, workVars, isRunning, exited, made, raised, done>>

Terminated == exited = Threads /\ UNCHANGED vars

PushStep(t) == PushInsert(t) \/ PushRegister(t)

WorkStep(w) == \/ LoopHead(w) \/ DispatchReturn(w) \/ Pop(w)
               \/ ExecuteTake(w) \/ JobBegin(w) \/ JobEnd(w) \/ ListDone(w)
               \/ ExecuteSub(w) \/ Requeue(w)

Next == \/ \E t \in Threads : PushStep(t) \/ \E q \in Queues : PushCount(t, q)
        \/ \E w \in Workers : WorkStep(w)
        \/ \E p \in Producers : ProducerExit(p)
        \/ \E q \in Queues : ReleaseOwner(q)
        \/ Shutdown
        \/ Terminated

Spec == Init /\ [][Next]_vars

(* The OS keeps scheduling every thread, Dispatch(10) times out and jobs      *)
(* return: a thread inside Push, and a worker inside its loop, go on.         *)
Fairness == /\ \A t \in Threads : WF_vars(PushStep(t))
            /\ \A w \in Workers : WF_vars(WorkStep(w))

FairSpec == Spec /\ Fairness

-----------------------------------------------------------------------------
(* The places that stand for "queue q is scheduled": a Push that found the    *)
(* count at 0 and has not registered q yet, an entry of the GlobalQueue, a    *)
(* worker inside Execute.  Each of them holds a shared_ptr to q.              *)
Schedulers(q) == {t \in Threads : ppc[t] \in {"insertFirst", "register"} /\ pq[t] = q}
Entries(q) == {i \in 1..Len(globalQueue) : globalQueue[i] = q}
Executors(q) == {w \in Workers : wpc[w] \in ExecPlaces /\ wq[w] = q}

Tokens(q) == {<<"push", t>> : t \in Schedulers(q)}
        \cup {<<"global", i>> : i \in Entries(q)}
        \cup {<<"worker", w>> : w \in Executors(q)}

(* Threads inside Push(q), whatever they found the count to be.               *)
Pushers(q) == {t \in Threads : ppc[t] # "idle" /\ pq[t] = q}

(* Threads between fetch_add and the insertion of their job into q.           *)
Inserting(q) == {t \in Threads : ppc[t] \in {"insert", "insertFirst"} /\ pq[t] = q}

(* No two workers are ever inside jobs of the same queue: a room's state      *)
(* needs no lock although any worker may run its jobs.                        *)
SerialExecution ==
  \A w1, w2 \in Workers :
    wpc[w1] = "job" /\ wpc[w2] = "job" /\ wq[w1] = wq[w2] => w1 = w2

(* _jobCount never disagrees with the work it counts: jobs about to be        *)
(* inserted, jobs queued, and the whole batch of the worker executing q up to *)
(* its fetch_sub.  The decision of Push and of Execute to schedule q rests on *)
(* this number.                                                               *)
CountExact ==
  \A q \in Queues :
    LET batch == IF Executors(q) = {} THEN 0 ELSE taken[CHOOSE w \in Executors(q) : TRUE]
    IN jobCount[q] = Len(jobs[q]) + Cardinality(Inserting(q)) + batch

(* A queue is scheduled at most once, and it is scheduled exactly while it    *)
(* has work: no wakeup is lost in the window between fetch_add and push, none *)
(* is doubled when Execute and Push race for the last job.                    *)
ScheduledOnce ==
  \A q \in Queues : /\ \A x, y \in Tokens(q) : x = y
                    /\ Tokens(q) # {} <=> jobCount[q] > 0

(* Jobs that wait in a queue whose owner let go of it are not destroyed with  *)
(* the queue: somebody still holds a shared_ptr until they have run.          *)
PendingKeepsAlive ==
  \A q \in Queues : jobs[q] # <<>> =>
    \/ q \in owned
    \/ q \in Elems(globalQueue)
    \/ Executors(q) # {}
    \/ Pushers(q) # {}

(* Shutdown: when every worker has left its loop, a queue with work left is   *)
(* one whose count the timer thread's Push took from 0, and that Push's job   *)
(* has not run.  Work scheduled by a worker has been run, whatever was pushed *)
(* behind it; a worker's job is lost only behind the timer thread's.          *)
ExitDrains ==
  Workers \subseteq exited =>
    \A q \in Queues : jobCount[q] > 0 => raised[q] # NoJob

(* Every job that was put into a queue is executed while the server runs,     *)
(* also the ones behind a full batch and behind other queues.                 *)
EveryJobRuns ==
  \A q \in Queues, j \in Jobs :
    j \in Elems(jobs[q]) ~> (j \in Elems(done[q]) \/ ~ isRunning)

-----------------------------------------------------------------------------
(* Refinement: the queues, their batches and the workers implement mailboxes  *)
(* that run one job at a time in posting order.                               *)
Batch(q) == IF Executors(q) = {} THEN <<>>
            ELSE LET w == CHOOSE x \in Executors(q) : TRUE
                 IN IF wpc[w] = "job" THEN Tail(list[w]) ELSE list[w]

ActorMailbox == [q \in Queues |-> Batch(q) \o jobs[q]]
ActorActive == [q \in Queues |->
                 {Head(list[w]) : w \in {x \in Workers : wpc[x] = "job" /\ wq[x] = q}}]

Actor == INSTANCE SerialActor WITH mailbox <- ActorMailbox,
                                   active <- ActorActive,
                                   served <- done

(* Jobs of one queue run one at a time, each once, in the order in which they *)
(* were inserted, whatever threads push and whatever workers execute.         *)
ImplementsSerialActor == Actor!Spec
=============================================================================
