SPECIFICATION EngineSpec
CONSTANTS
  Capacity = 4
  Bytes = {0, 1}
  MemThreads = {m1, m2}
  Blocks = {b1, b2, b3, b4}
  AskedSizes = {1024, 1025, 4097}
  BATCH_SIZE = 2
  MAX_LOCAL_CACHE = 2
  LockThreads = {r1, d1, d2}
  Reservers = {r1}
  Distributors = {d1, d2}
  Owners = {q1}
  Delays = {0, 1}
  MaxReserve = 2
  MaxTick = 2
  PoolWorkers = {w1, w2}
  Producers = {p1, p2}
  MaxTasks = 1
  MaxStarts = 2
  BucketCapacity = 2
  RefillRate = 20
  Pauses = {30, 50}
  MaxTime = 150
INVARIANTS
  RingSound
  MemorySound
  OneOwner
  TimedOrder
  StopDrains
  RateBounded
PROPERTIES
  ImplementsFifo
  TimedJobsArrive
  PoolProgress
CHECK_DEADLOCK FALSE
