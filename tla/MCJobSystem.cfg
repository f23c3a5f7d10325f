SPECIFICATION FairSpec
CONSTANTS
  Queues = {q1, q2}
  Workers = {w1, w2}
  Producers = {p}
  MaxExecute = 2
  MaxPush = 1
  NoQueue = NoQueue
INVARIANTS TypeOK SerialExecution CountExact ScheduledOnce PendingKeepsAlive ExitDrains
PROPERTIES ImplementsSerialActor EveryJobRuns
