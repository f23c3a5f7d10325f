------------------------------ MODULE MCEngine ------------------------------
(* The units of the engine that do not interact, for TLC: one of them runs in *)
(* each behaviour, the others stay as they begin.                             *)
EXTENDS RingBuffer, MemoryPools, JobTimer, ThreadPool, TokenBucket, TLC

VARIABLE unit

engineVars == <<unit, vars, memVars, timerVars, lockVars, poolVars, bucketVars>>

(* The ring buffer begins with any content in its own behaviours only.        *)
EngineInit ==
  /\ unit \in {"ring", "memory", "timer", "threads", "bucket"}
  /\ Init /\ MemInit /\ TimerInit /\ PoolInit /\ BucketInit
  /\ unit # "ring" => buffer = [i \in Cells |-> CHOOSE b \in Bytes : TRUE]

Ring == unit = "ring" /\ Next /\ UNCHANGED <<unit, memVars, timerVars, lockVars, poolVars, bucketVars>>
Memory == unit = "memory" /\ MemNext
          /\ UNCHANGED <<unit, vars, timerVars, lockVars, poolVars, bucketVars>>
InTimer(A) == unit = "timer" /\ A /\ UNCHANGED <<unit, vars, memVars, poolVars, bucketVars>>
InPool(A) == unit = "threads" /\ A
             /\ UNCHANGED <<unit, vars, memVars, timerVars, lockVars, bucketVars>>
Bucket == unit = "bucket" /\ BucketNext
          /\ UNCHANGED <<unit, vars, memVars, timerVars, lockVars, poolVars>>

EngineNext == Ring \/ Memory \/ InTimer(TimerNext) \/ InPool(PoolNext) \/ Bucket

(* Every thread inside a call of the timer or the pool goes on, the workers   *)
(* of both loop, and time passes.                                             *)
EngineFairness ==
  /\ \A d \in Distributors : WF_engineVars(InTimer(DistributorStep(d)))
  /\ \A r \in Reservers : WF_engineVars(InTimer(ReserverStep(r)))
  /\ WF_engineVars(InTimer(TimerTick))
  /\ \A w \in PoolWorkers : WF_engineVars(InPool(WorkerStep(w)))
  /\ WF_engineVars(InPool(ControlStep))
  /\ \A p \in Producers : WF_engineVars(InPool(NotifyOne(p)))

EngineSpec == EngineInit /\ [][EngineNext]_engineVars /\ EngineFairness
=============================================================================
