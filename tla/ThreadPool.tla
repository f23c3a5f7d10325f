----------------------------- MODULE ThreadPool -----------------------------
(* ServerEngine/Thread/ThreadPool.cpp: a queue of tasks and the workers that  *)
(* wait for them on a condition variable.  Start and Stop are called by one   *)
(* thread, Enqueue by any.  A section under _queueLock is one step; a notify  *)
(* comes after its section.  A wait may end for no reason.                    *)
EXTENDS Integers, Sequences, FiniteSets

CONSTANTS PoolWorkers,   \* threads that a Start makes
          Producers,     \* threads that call Enqueue
          MaxTasks,      \* bound: tasks of a producer
          MaxStarts      \* bound: calls of Start

ASSUME PoolAssumption == /\ IsFiniteSet(PoolWorkers)
                         /\ MaxTasks \in Nat /\ MaxStarts \in Nat

VARIABLES
  stopping,      \* _stop
  queued,        \* _tasks
  worker,        \* where each thread of _workers is
  task,          \* the task of each worker
  busyThreads,   \* _busyThreads
  control,       \* where the thread is that starts and stops the pool
  producer,      \* where each producer is, and how often it called
  starts,        \* calls of Start so far
  accepted,      \* history: tasks pushed
  runs           \* history: how often each task ran

poolVars == <<stopping, queued, worker, task, busyThreads, control, producer, starts, accepted, runs>>

Tasks == Producers \X (1..MaxTasks)
NoTask == <<>>
Launched == {w \in PoolWorkers : worker[w] # "none"}

PoolTypeOK ==
  /\ stopping \in BOOLEAN /\ queued \in Seq(Tasks)
  /\ worker \in [PoolWorkers -> {"none", "test", "wait", "taken", "busy", "gone"}]
  /\ task \in [PoolWorkers -> Tasks \cup {NoTask}]
  /\ busyThreads \in 0..Cardinality(PoolWorkers)
  /\ control \in {"out", "launch", "notify", "join"}
  /\ producer \in [Producers -> [at : {"out", "notify"}, calls : 0..MaxTasks]]
  /\ starts \in 0..MaxStarts /\ accepted \subseteq Tasks /\ runs \in [Tasks -> Nat]

PoolInit ==
  /\ stopping = FALSE /\ queued = <<>> /\ busyThreads = 0 /\ control = "out" /\ starts = 0
  /\ worker = [w \in PoolWorkers |-> "none"] /\ task = [w \in PoolWorkers |-> NoTask]
  /\ producer = [p \in Producers |-> [at |-> "out", calls |-> 0]]
  /\ accepted = {} /\ runs = [t \in Tasks |-> 0]

(* Start does nothing while there are workers.                                *)
Start ==
  /\ control = "out" /\ starts < MaxStarts /\ Launched = {}
  /\ stopping' = FALSE /\ control' = "launch" /\ starts' = starts + 1
  /\ UNCHANGED <<queued, worker, task, busyThreads, producer, accepted, runs>>

Launch(w) ==
  /\ control = "launch" /\ worker[w] = "none"
  /\ worker' = [worker EXCEPT ![w] = "test"]
  /\ control' = IF Launched \cup {w} = PoolWorkers THEN "out" ELSE "launch"
  /\ UNCHANGED <<stopping, queued, task, busyThreads, producer, starts, accepted, runs>>

(* Stop does nothing when the pool is stopped.                                *)
Stop ==
  /\ control = "out" /\ ~ stopping
  /\ stopping' = TRUE /\ control' = "notify"
  /\ UNCHANGED <<queued, worker, task, busyThreads, producer, starts, accepted, runs>>

StopNotify ==
  /\ control = "notify"
  /\ control' = "join"
  /\ worker' = [w \in PoolWorkers |-> IF worker[w] = "wait" THEN "test" ELSE worker[w]]
  /\ UNCHANGED <<stopping, queued, task, busyThreads, producer, starts, accepted, runs>>

StopJoin ==
  /\ control = "join" /\ \A w \in Launched : worker[w] = "gone"
  /\ control' = "out"
  /\ worker' = [w \in PoolWorkers |-> "none"]
  /\ UNCHANGED <<stopping, queued, task, busyThreads, producer, starts, accepted, runs>>

(* Enqueue drops the task when the pool is stopped.                           *)
Enqueue(p) ==
  LET t == <<p, producer[p].calls + 1>>
  IN /\ producer[p].at = "out" /\ producer[p].calls < MaxTasks
     /\ IF stopping
          THEN /\ producer' = [producer EXCEPT ![p].calls = @ + 1]
               /\ UNCHANGED <<queued, accepted>>
          ELSE /\ producer' = [producer EXCEPT ![p].calls = @ + 1, ![p].at = "notify"]
               /\ queued' = Append(queued, t)
               /\ accepted' = accepted \cup {t}
     /\ UNCHANGED <<stopping, worker, task, busyThreads, control, starts, runs>>

(* Mutant: no worker is woken.                                                *)
NotifyNone(p) ==
  /\ producer[p].at = "notify"
  /\ producer' = [producer EXCEPT ![p].at = "out"]
  /\ UNCHANGED <<stopping, queued, worker, task, busyThreads, control, starts, accepted, runs>>

(* notify_one wakes one of the waiting workers, if there is one.              *)
NotifyOne(p) ==
  /\ producer[p].at = "notify"
  /\ producer' = [producer EXCEPT ![p].at = "out"]
  /\ \/ \E w \in PoolWorkers : worker[w] = "wait" /\ worker' = [worker EXCEPT ![w] = "test"]
     \/ (\A w \in PoolWorkers : worker[w] # "wait") /\ UNCHANGED worker
  /\ UNCHANGED <<stopping, queued, task, busyThreads, control, starts, accepted, runs>>

(* WorkerLoop, with the lock: nothing to do, so the worker waits, ...         *)
Wait(w) ==
  /\ worker[w] = "test" /\ ~ stopping /\ queued = <<>>
  /\ worker' = [worker EXCEPT ![w] = "wait"]
  /\ UNCHANGED <<stopping, queued, task, busyThreads, control, producer, starts, accepted, runs>>

WakeUp(w) ==
  /\ worker[w] = "wait"
  /\ worker' = [worker EXCEPT ![w] = "test"]
  /\ UNCHANGED <<stopping, queued, task, busyThreads, control, producer, starts, accepted, runs>>

(* Mutant: a worker leaves with tasks still queued.                           *)
LeaveAtOnce(w) ==
  /\ worker[w] = "test" /\ stopping
  /\ worker' = [worker EXCEPT ![w] = "gone"]
  /\ UNCHANGED <<stopping, queued, task, busyThreads, control, producer, starts, accepted, runs>>

(* ... it leaves, when the pool is stopped and no task is left, ...           *)
Leave(w) ==
  /\ worker[w] = "test" /\ stopping /\ queued = <<>>
  /\ worker' = [worker EXCEPT ![w] = "gone"]
  /\ UNCHANGED <<stopping, queued, task, busyThreads, control, producer, starts, accepted, runs>>

(* ... or it takes the first task ...                                         *)
TakeTask(w) ==
  /\ worker[w] = "test" /\ queued # <<>>
  /\ worker' = [worker EXCEPT ![w] = "taken"]
  /\ task' = [task EXCEPT ![w] = Head(queued)]
  /\ queued' = Tail(queued)
  /\ UNCHANGED <<stopping, busyThreads, control, producer, starts, accepted, runs>>

(* ... and runs it, counted as busy.                                          *)
RunTask(w) ==
  /\ worker[w] = "taken"
  /\ worker' = [worker EXCEPT ![w] = "busy"]
  /\ busyThreads' = busyThreads + 1
  /\ runs' = [runs EXCEPT ![task[w]] = @ + 1]
  /\ UNCHANGED <<stopping, queued, task, control, producer, starts, accepted>>

TaskDone(w) ==
  /\ worker[w] = "busy"
  /\ worker' = [worker EXCEPT ![w] = "test"]
  /\ task' = [task EXCEPT ![w] = NoTask]
  /\ busyThreads' = busyThreads - 1
  /\ UNCHANGED <<stopping, queued, control, producer, starts, accepted, runs>>

WorkerStep(w) == Wait(w) \/ Leave(w) \/ TakeTask(w) \/ RunTask(w) \/ TaskDone(w)
ControlStep == (\E w \in PoolWorkers : Launch(w)) \/ StopNotify \/ StopJoin

PoolNext ==
  \/ Start \/ Stop \/ ControlStep
  \/ \E p \in Producers : Enqueue(p) \/ NotifyOne(p)
  \/ \E w \in PoolWorkers : WorkerStep(w) \/ WakeUp(w)

-----------------------------------------------------------------------------
(* When Stop has joined its workers, every task that Enqueue accepted has run *)
(* once and no thread counts as busy.  The tasks accepted before the first    *)
(* Start wait for it.                                                         *)
StopDrains ==
  /\ PoolTypeOK
  /\ stopping /\ control = "out" /\ starts > 0
       => /\ queued = <<>> /\ busyThreads = 0
          /\ \A t \in Tasks : runs[t] = IF t \in accepted THEN 1 ELSE 0

(* A task queued while there are workers runs, whatever wakes them, and a     *)
(* Stop that began returns.                                                   *)
PoolProgress ==
  /\ \A t \in Tasks : (t \in accepted /\ Launched # {}) ~> (runs[t] = 1)
  /\ (control = "notify") ~> (control = "out")
=============================================================================
