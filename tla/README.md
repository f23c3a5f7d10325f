# Verification of the IOCP chat server

TLA+ models of the C++ chat server in `src/Source`: a reusable engine (`ServerEngine`: IOCP
sessions, job queues, buffers, memory, locks) and the server on top of it (`ChatServer`: rooms,
client sessions, abuse monitor, dashboard). The models are checked with TLC on small instances;
theorems about them are proved with TLAPS for all values of the constants.

`PROJECT.json` lists components, runs, the source lines behind every definition, one mutant per
property, the hazards of the code and the theorems.

## The system

| Part | State it keeps | Operations | Interacts with |
|---|---|---|---|
| `JobQueue`, `GlobalQueue` (Job/) | `_jobCount` (atomic), `_jobs` (spin lock), global list of queues | `Push`, `Execute` | every worker; a `Room` is a `JobQueue` |
| Worker loop, timer thread (`ChatServer/Main.cpp`) | `isRunning` | `Dispatch(10)`, then pop and execute queues until none is left | IOCP, `GlobalQueue` |
| `JobTimer` | heap of due times, `_distributing` | `Reserve`, `Distribute` | pushes to job queues |
| `Session` (Network/) | `_connected`, send queue + `_isSending` + `_sendOffset`, ring buffer, four OVERLAPPED events with owners | `Send`, `RegisterSend`/`ProcessSend`, `RegisterRecv`/`ProcessRecv`, `Connect`, `Disconnect` | IOCP completions on any worker; senders on any thread |
| `PacketSession` | - | `OnRecv`: cuts the stream into packets | `ClientSession::OnRecvPacket` |
| `RingBuffer` (Buffer/) | cells, read and write position | `Write`, `Read`, `Peek`, spans, `Move...Pos`, `Clear` | receive path |
| `SendBuffer`, chunks; generated packets | thread-local chunk (open, used, bytes), buffers that refer to it | `Open`, `Close`, `MakeSendBuffer`, `Read`, dispatch by id | every sender of a packet; both ends of the wire |
| `Service`, `Listener` | set and count of sessions, 16 accept events | `Start`, `Stop`, `AddSession`, `ReleaseSession`, `ProcessAccept` | sessions |
| `Room`, `RoomManager` (Room/) | `_members`; map id -> room (read-write lock) | `Enter`, `Leave`, `LeaveAndEnter`, `HandleChat`; `GetOrCreateRoom` | run as jobs of the room |
| `ClientSession`, packet handlers | `_room` (weak pointer, no lock), rate limiter, heartbeat | one handler per packet, `OnConnected`, `OnDisconnected` | push jobs to rooms |
| `AbuseMonitor`, `TokenBucket` | log, counters; tokens and last refill | heartbeat check every second; `Consume` | disconnects sessions |
| Memory pools | lists by size class, a cache for each thread and class, headers, counters | `Alloc`, `Release` | objects and containers of all threads |
| `SpinLock`, `ThreadPool` | lock word; task queue, condition variable, `_stop` | `Lock`/`Unlock`; `Start`, `Enqueue`, `Stop` | the engine; tests |
| Statistics, dashboard, clients, packet generator | counters, console text, generated source | - | - |

What is hard here: the job queue is scheduled by an atomic count outside its lock; sessions are
used by all workers at once; completions may be partial and arrive on any thread; rooms have no
lock and rely on the job queue; `_room` of a session is read by packet handlers and written by
jobs of rooms and by the disconnection; a session may be closed between any two steps; queues
and buffers have limits. `PROJECT.json` "hazards" has the list with the lines.

What makes each part correct: a queue is executed by one worker at a time, in order, and no job is
lost; a client is a member of exactly the room it was told, and of none after it left; bytes are
sent once, in order; packets are handled whole, in order, as soon as they are complete; buffers
never overwrite unread data; limits hold.

## Modules

| Module | Models |
|---|---|
| `JobSystem` | `JobQueue::Push` and `Execute` step by step (count, insert, register; take a batch, run, subtract, requeue), `GlobalQueue`, the worker loop, shutdown, the references that keep a queue alive |
| `SerialActor` | what a room relies on: a mailbox served in order, one message at a time |
| `ChatRooms` | room packets, `RoomManager`, room jobs, disconnection. Each room has a mailbox served one job at a time: the guarantee of `SerialActor`, which `JobSystem` is shown to implement |
| `SessionSend` | `Send`, `RegisterSend`, WSASend, `ProcessSend`, for one session |
| `RingOps`, `RingBuffer`, `BoundedFifo` | the arithmetic of the ring buffer; its operations called in any order; the queue it promises to be |
| `RecvPath` | `RegisterRecv`, WSARecv, `ProcessRecv`, `OnRecv`, for one session |
| `SessionLife` | `Listener`, `ProcessConnect`, the receive chain as far as it keeps a session open, `Disconnect`, `ProcessDisconnect`, `Service`, the count of users, the heartbeat check of the timer thread, shutdown |
| `PacketCodec` | `BufferWriter`, `BufferReader`, the layout of the 15 packets, the two dispatchers |
| `SendBuffers` | `MakeSendBuffer` of every packet in the chunks of its thread, with the bytes in them |
| `SpinLock`, `JobTimer` | the lock, exchange by exchange; `Reserve` and `Distribute` over it |
| `ThreadPool` | `Start`, `Enqueue`, `Stop`, `WorkerLoop` and the condition variable |
| `TokenBucket` | `Reset` when the session is connected, `Consume` with its `Refill` |
| `MemoryPools` | `PoolAllocator` and `MemoryPool`: size classes, thread caches, batches, counters |
| `...Proofs` | the theorems about `JobSystem`, `ChatRooms`, `RecvPath`, `SessionLife`; `SendProofs` about `PacketCodec`, `SendBuffers`, `SessionSend`; `EngineProofs` about `RingBuffer`, `MemoryPools`, `SpinLock`, `JobTimer`, `ThreadPool`, `TokenBucket` |
| `SequenceFacts`, `RingFacts` | lemmas the proofs share, about sequences and about `RingOps` |
| `MC...` | instances for TLC |

How state and actions correspond to the code:

* **JobSystem.** `jobCount`, `jobs`, `globalQueue` are the fields of the same name. A thread inside
  `Push` is at `ppc` with queue `pq`; a worker is at `wpc` with queue `wq`, the rest of its
  `executeList` in `list` and the size of it in `taken`. Sections under a lock and atomic
  operations are one step; everything between is interleaved. A worker may push while it dispatches
  a completion or runs a job; producers are other threads (the timer thread). `owned` is the set of
  queues the application still references. `made`, `done` and `raised` are history: `raised[q]` is the
  job whose `Push` took the count of q from 0, if a producer made it and it has not run yet.
* **ChatRooms.** A handler goes through `handler[s].at`: look for the room, create it, read `_room`,
  push the job. `Leave` is two steps because the test of `_room` and its reset are not atomic with
  `OnDisconnected`, which is three. The data race on the weak pointer `_room` is modelled as reads
  that return the old or the new room; damage to its reference count is not modelled. `view` and
  `awaiting` are what the client was told and what it waits for. `Pipelined` tells a client that
  waits for each answer from one that does not.
* **SessionSend.** `event` holds the buffers of the outstanding WSASend, `kernel` its state. A
  buffer is a pair of sender and number; a byte is a pair of buffer and index. WSASend is accepted,
  fails for good, or fails with a "recoverable" code; a completion takes any number of bytes,
  0 for a broken connection. The history `accepted` and `wire` state the stream properties.
* **RingBuffer / RecvPath.** Positions are the source's; `Store`, `Load`, `GetWriteSpan`,
  `GetReadSpan` follow the two-part copies of the code. A byte of the stream is a pair of packet and
  index; the size field of packet k is `sent[k]`. Handlers of packets are abstracted to accepting or
  rejecting (rate limit, parse error: `Disconnect`).
* **SessionLife.** A session object goes through `accept` (made, waiting in AcceptEx, and the calls
  of `ProcessConnect` one by one), `recv` (its receive) and `disc` (DisconnectEx: posted, failed,
  `OnDisconnected` called, released), which advance independently once they have started.
  `sessions`, `sessionCount` and `ccu` are `Service::_sessions`, `_sessionCount` and
  `ServerStats::_currentCcu`. The timer thread reads the time, takes the snapshot, looks at each
  session and disconnects as separate steps. Clearing `isRunning` and closing the listener are one
  step; `Service::Stop` is the next. Why a packet floods or a send fails is left open.
* **PacketCodec / SendBuffers.** A packet is an id and a sequence of field values. `Layouts` are the
  fields in the order of the generated `Read` and `MakeSendBuffer`; widths are the source's, the
  number of values of a byte (`Byte`) is a constant. `Serialize` writes field by field and stops
  where `MakeSendBuffer` returns `nullptr`; `HandlePacket` reads header, case and fields. A chunk has
  `open`, `used` and its bytes `mem`; a buffer refers to a part of a chunk, and a chunk is used anew
  only when neither a thread nor a buffer refers to it.
* **SpinLock / JobTimer.** `lockAt` is where a thread is in `Lock`: waiting while it reads, retrying
  after it saw the lock free. `reserving` and `distribution` are the calls in progress; the heap is
  the set `items`, of which `Due` gives any item with the least time. The server has one timer
  thread; the model lets two distribute, which `_distributing` is there for. `alive` are the queues
  that a `weak_ptr` can still lock. `after` (the jobs already taken when a job entered the heap) and
  `pushed` are history.
* **ThreadPool.** Sections under `_queueLock` are steps, and so is each notify after them. A worker
  is at its test, waiting, or with a task; `notify_one` moves one waiting worker, if there is one.
* **TokenBucket.** Times are in milliseconds and the code's 50 and 1000 are kept. The only bucket is
  a member of `ClientSession`: `OnConnected` resets it, and the receive chain of the session, which
  handles one packet after the other, calls `Consume`. So a call is one step, and none comes before
  the `Reset`; `open` says that it has been. `grants` and `lastCall` are history.
* **MemoryPools.** Caches and lists are sets of blocks. `room` is what a block really has, `header`
  what its header says; `memCall` is a `Pop` or a flush in progress. Blocks are released by any thread.
* **Sound invariants.** `RoomsSound`, `QueueSound`, `RecvSound`, `LifeSound`, `ChunksSound`,
  `RingSound` and `MemorySound` join the type invariant of a module with its smaller named parts.

## Runs

| Run | Instance | Shows |
|---|---|---|
| `job_system` | 2 queues, 2 workers, 1 timer thread, 1 push each, batches of 2, fair threads | one executor at a time, exact count, scheduled exactly while there is work, kept alive, an actor in order; every job runs, also when queues compete; when all workers have left, work is only in queues whose count the timer thread took from 0 by a job that has not run |
| `chat_rooms` | 2 clients, 3 rooms, 2 ids (one not created yet) | membership, room pointer and what the client was told agree; requests are answered |
| `ghost_member` (violation) | as above | a session that disconnects before its `Enter` has run stays a member for ever |
| `pipelined_rooms` (violation) | a client that does not wait | a session becomes a member of two rooms |
| `session_send` | 2 senders, 3 buffers each, queue limit 3, gather limit 2 | the stream is intact under any partial completion, one send at a time, nothing forgotten |
| `recv_path` | 6 cells, header of 2, 4 packets of size 1 (malformed), 2, 3, 6 (too large) | packets whole and in order, no byte lost, handled when complete |
| `partial_packet` (violation) | well-formed packets only | a partial packet disconnects the session |
| `session_life` | 2 sessions, 1 accept event, timeout of 1 tick of 3 | a session is closed once and released for good, counters agree with the set, only silent sessions are cut and all of them are |
| `fresh_heartbeat` (violation) | 1 session | a new connection can be cut before its first heartbeat |
| `packet_buffers` | 2 threads, 3 chunks; one makes any packet with fields that are empty, fit or just do not, the other fills chunks | a buffer holds its packet while anybody refers to it; it is read back as written; cut anywhere, it is refused; the assert fails on a thread only after an overflow of the same thread |
| `oversized_packet` (violation) | the packets of `Room::Enter` | a list that does not fit leaves the chunk open, and the next packet fails the assert |
| `engine` | in each behaviour one of: ring buffer (4 cells, 2 values); memory (2 threads, 4 blocks, 3 sizes, caches of 2); timer (1 reserver with 2 jobs, 2 distributors, 2 ticks); thread pool (2 workers, 2 producers, 2 starts); rate limiter (capacity 2, rate 20, 150 ms) | the ring is a queue of 3 bytes and its spans are exactly the free room; a block is in one place and large enough, counters are exact; the lock has one owner; timed jobs come once, not early, in order, and at last; `Stop` leaves no accepted task and returns; the limiter bounds every window of time and never refuses a client that leaves 50 ms between its packets |

Bounds. The limits of the code (64 jobs, 64 buffers, 500 queued buffers, 4096 bytes) are constants
and small, so that they are reached: more jobs than a batch, more buffers than a gather, a full send
queue, a packet larger than the buffer, positions that wrap several times. Two workers and one
producer give every pair of racing threads on one queue; a third contender for a queue would wait
behind the same count. `MaxPush`, `MaxSend`, `MaxPackets` and the requests of a client bound the
number of operations and nothing else, `MaxTime` the clock: in `SessionLife` three ticks are enough for a session to be
fresh, on the limit and over it. `Wrap` stands for 2^64, so that a negative age is a huge one. `MaxRequests` gives one busy and one brief client.
With five byte values a buffer of 23 bytes stands to the largest 16-bit size, 24, as 4096 does to
65535, so that sizes and overflows meet their limits. The sizes asked of the memory are on both sides of a boundary of
classes and above the largest class; caches of 2 and batches of 2 are filled and flushed. In 150 ms
the limiter meets intervals below 50 ms, of 50 ms, of a token and a part that is dropped, and of
more tokens than it holds. The units of the `engine` run
share no state, so one of them runs in each behaviour.

Fairness. A thread inside `Push`, `Send`, a handler or a job goes on: threads are preemptive and no
lock is held across a wait. Workers keep looping because `Dispatch(10)` times out. The network
eventually completes an outstanding send (possibly broken) and delivers bytes that were sent. Nothing
is assumed about clients, about shutdown or about disconnections. Workers
and the timer thread of `SessionLife` are fair only while the server runs; afterwards they may stop
at any step. In the `engine` run every thread inside a call of the timer or the pool goes on, the
workers and the timer thread loop, and time passes; a spurious wake-up is never assumed. Runs with
`CHECK_DEADLOCK FALSE` end when the clients have used up their requests and everything is served.

## Findings

* **A partial packet disconnects** (`partial_packet`). `OnRecv` returns 0 when the first packet is
  incomplete; `MoveReadPos(0)` fails and `ProcessRecv` disconnects, although the comments say the
  rest is waited for.
* **Ghost members** (`ghost_member`). `OnDisconnected` reads `_room` once; an `Enter` still queued
  inserts the closed session afterwards. `GhostOnlyWhileEntering` shows that this is the only way.
* **Two rooms at once** (`pipelined_rooms`). Handlers decide by a `_room` that earlier requests have
  not updated yet. A client that waits for its answers is safe (`OneRoomAtATime` in `chat_rooms`).
* **A new connection may be cut** (`fresh_heartbeat`). The constructor starts the heartbeat when the
  session begins to wait in AcceptEx, so the grace for a heartbeat of 0 never applies, and a check
  between `AddSession` and `OnConnected` sees a time that may be long past.
* **A packet that does not fit stops the server** (`oversized_packet`). `MakeSendBuffer` returns
  `nullptr` and leaves the chunk of its thread open; the next `Open` asserts. `Room::Enter` makes a
  notice right after the list of members. `ChunksSound` shows that this is the only way.
* A session whose accept is in progress when `Stop` runs is added to the stopped service and stays
  connected; `OnlyLateAcceptsSurvive` shows that this is the only way. A session whose DisconnectEx
  fails is never released; `ClosingCompletes` covers the others. When AcceptEx is cancelled its accept
  event is lost; nothing registers it again.
* After a "recoverable" error of WSASend nothing is ever sent again on that session; `NoLostSend`
  and `AcceptedIsSent` name this state (`stalled`) as their only exception besides disconnection.

## Proofs

Every invariant and action property of the passing runs is proved, and so are both refinements. `PROJECT.json` "theorems" lists the theorems. They hold for any number of threads,
queues, sessions, rooms, buffers and blocks, any limits, sizes and times.

| Module | Theorem (property) |
|---|---|
| `JobSystemProofs` | `TypeCorrect` (`TypeOK`), `ActorsAreSerial` (`SerialExecution`), `CountIsExact` (`CountExact`), `SchedulingIsExact` (`ScheduledOnce`), `PendingJobsAreSafe` (`PendingKeepsAlive`), `ExitLosesOnlyBehindProducers` (`ExitDrains`), `QueuesAreSerialActors` (`ImplementsSerialActor`) |
| `ChatRoomsProofs` | `RoomsAreSound` (`RoomsSound`); for clients that wait for their answers `OneRoomOnly` (`OneRoomAtATime`), `BroadcastsAreExpected` (`MembersWereTold`), `RoomAndMembersAgree` (`RoomMatchesMembers`), `GhostsEnterLate` (`GhostOnlyWhileEntering`) |
| `SendProofs` | `ChunksAreSound` (`ChunksSound`), `BuffersHoldPackets` (`BufferHoldsPacket`), `CutPacketsRefused` (`CutPacketRefused`); `SendsAreSerial` (`OneSendAtATime`), `QueuedIsSent` (`NoLostSend`), `QueueIsSound` (`QueueSound`), `BytesAreIntact` (`StreamIntact`) |
| `RecvPathProofs` | `PacketsArriveWhole` (`FramingIntact`), `NothingIsLostOrLeft` (`RecvSound`) |
| `SessionLifeProofs` | `LifeIsSound` (`LifeSound`), `CountsAreRight` (`CountsAgree`), `StopLeavesLateAccepts` (`OnlyLateAcceptsSurvive`), `OnlyTheSilentAreCut` (`SilentBeforeCut`, an action property) |
| `EngineProofs` | `TheLockExcludes` (`OneOwner`), `TimedJobsAreOrdered` (`TimedOrder`), `TheRateBounds` (`RateBounded`), `TheStoppedPoolIsDrained` (`StopDrains`), `TheRingIsSound` (`RingSound`), `TheRingIsAQueue` (`ImplementsFifo`), `TheMemoryIsSound` (`MemorySound`) |
| `SequenceFacts`, `RingFacts` | lemmas: cutting, joining and flattening sequences; the arithmetic of ring positions and what copies in two parts read and write |

Assumptions are those the modules state (`ASSUME`), no other: finite sets and sizes in `Nat`, the names
for "none" outside the sets they stand in for, a positive batch, a capacity of at least one cell, `LockThreads` the union of the threads of the timer, a batch of blocks no larger than a cache; for packets, what their
types and `MakeSendBuffer` give: a byte has more than one value, a buffer has room for a header and its
size is a 16-bit number, ids are 16-bit numbers, every field holds a value of its type, a string is
shorter than its 16-bit length can say. Nothing is assumed of the number of items of a list: a packet
whose count would not fit into 16 bits does not fit into its buffer either. The theorems of
`EngineProofs` are about the specification of each unit (`TimerSpec`, `BucketSpec`, `PoolSpec`,
`MemSpec`, and `Spec` of `RingBuffer`); the `engine` run checks the same units one at a time. In
`SendProofs` the specification of the chunks is `ChunkSpec`, that of the send queue `Spec`. Four
theorems of `ChatRoomsProofs` have the hypothesis `~ Pipelined`, the kind of client the `chat_rooms`
run has too: without it `OneRoomAtATime` is false, which is what `pipelined_rooms` shows.

No property of a run is inductive alone. The invariants that are, each checked with TLC before it was
proved, and the reason for their parts:

* **Job system** (`IInv`). A queue is "scheduled" by a token: a `Push` that found the count at 0 and
  has not registered the queue, an entry of the `GlobalQueue`, or a worker inside `Execute`. That two
  workers cannot execute one queue needs that there is one token at most (`TokenInv`), which needs that
  `Push` makes a token only at count 0, which needs that the count is exact (`CountInv`), which needs
  the single executor. `LocalInv` is the shape of the threads. `DrainInv` adds, for `ExitDrains`, that
  a worker pushes only inside its loop, and that while no worker is inside an iteration of its loop (`Awake` is false),
  a queue in the `GlobalQueue` is one that `raised` names. `raised` is what the shutdown can cost: a
  `Push` of the timer thread that found 0 keeps the queue from the workers until it registers it, so
  if they leave before, the jobs they pushed behind it are left too. No other job of a worker is. `PastInv` adds, for the refinement, that a job in a queue, in a
  batch or done has been made and inserted; then each step of `JobSystem` is a `Send`, a step of the
  actor or a stutter under the mapping that makes mailbox = rest of the batch followed by `_jobs`.
* **Rooms** (`RoomsInv`). `Shapes` says what jobs and handlers carry where. For a client that waits,
  `OneMove`: until `OnDisconnected` has looked at `_room`, a session has one move under way, with
  the handler, in one mailbox or in a `Leave`; `Placed`: a move finds the room pointer as it was when the
  move began, so `_room` and `_members` agree except between the halves of `Leave`; `Departing`: after
  that look a session is a member only where a `Leave` is bound to come, unless it was entering.
* **Sending** (`SendInv`). `Turn`: whoever is in `RegisterSend`, or the system, holds the one right to send,
  `_isSending` says so, and nobody waits in the queue without it. `Limits` bounds queue and event
  together, because a failed WSASend puts the event back. `Stream`: the bytes WSASend was given are
  those of the event from `_sendOffset` on, and the offset lies in the first buffer.
* **Packets.** No invariant, but the round trip for every field, item, list and layout. `WriteFieldsIs`
  and `ReadFieldsIs` give the functions by which the codec goes from field to field (`WriteItemIs`,
  `WriteListIs`, `ReadItemIs`, `ReadListIs` those of items and lists); `NumberOfDigits` is the round
  trip of a number. Reader and writer then go on in lockstep: if B is the packet up to a cut, the
  reader is where the writer was, or it has failed because that place is beyond the cut (`Tracks`),
  and what it read is what was written (`BytesBack` to `FieldsBack`, `PacketBack`). Uncut and cut
  packets are the two cases of one lemma. The writer puts the size into the header last, so what it
  wrote is compared from the header on (`At`), and `HeaderBack` and `SizeBack` are about the header.
* **Chunks** (`ChunkInv`). A chunk has one thread at most (`OwnChunks`); a packet in the making has its chunk
  open and room for a whole buffer (`RoomForPacket`), since `Open` looked; it is written behind the
  used part (`WrittenIsThere`), where no buffer is; so every buffer keeps its bytes (`BuffersHold`),
  and a chunk given to another thread has no buffer left in it. `OpenAfterOverflow`: only
  `MakeSendBuffer` that returned `nullptr` leaves a chunk open.
* **Receiving** (`RecvInv`). `StreamPart` is the heart: the unread bytes followed by those in the network
  are packets sent, from the begin of the first one not handled to the end of the last, stated byte by byte (`IsStream`) so that
  no sum over packets is needed. `ChainPart` ties the posted spans to the positions; `LeftPart`: a
  complete packet is not in the buffer when the next receive is posted; `SeenPart`: what was handled.
* **Life of sessions** (`LifeInv`). `Place`: `accept` and `disc` of a session determine `_connected`
  and the calls it got; `Members`: what the set holds before and after `Stop` empties it;
  `Timers`: the check works on sessions that were in the set; `Counts`: each counter is the difference of
  two cardinalities, since different threads move it.
* **Timer** (`TimerInv`). Where a thread is in `Reserve` or `Distribute` and whether it owns the lock
  (`TimerPlaces`); a job is in the heap once or taken once (`HeapPart`); a job due earlier was taken
  earlier unless it was reserved later (`OrderPart`).
* **Rate limiter** (`BucketInv`). `PaidPart`: what was let through since any grant, with what the
  bucket holds now, is paid for by a full bucket and the time that has been credited, up to
  `_lastRefillTick`; the grant may be up to 50 ms younger than the last credit, which is the extra
  interval of the bound. A slow client is not refused because the last credit is no later than its last
  call (`lastRefillTick <= lastCall.at`), so after 50 ms another is due.
* **Thread pool** (`PoolInv`). A task is queued, held by one worker, or ran once (`TaskPart`), the
  counter of busy threads is exact (`BusyPart`), and `Stop` returns only when every worker has left (`ControlPart`).
* **Ring buffer.** The content is `Load` of `DataSize` cells; `LoadAfterStore` and `Segment` turn the copies in two
  parts into positions modulo the capacity. With the mapping content = queue each operation is the
  same operation of `BoundedFifo`, with the same result.
* **Memory** (`MemInv`). A block is in one place (`PlacePart`); wherever it is, it has the size of the
  class of that place (`HomePart`), which needs that classes have different indices (`ClassFacts`); a
  flush has made the room it needs (`LimitPart`); the counters differ from made and listed blocks by
  the calls that are moving one (`CountPart`).

The library's induction theorems cannot be instantiated by the installed provers; where a lemma needs
induction (`FlattenType`, `FlattenConcat`, every loop of the codec), `SequenceFacts` derives it for one set of numbers at a time from the least
element of that set (`InductionSet`).

Only model-checked: liveness (`EveryJobRuns`, `RequestsAnswered`, `AcceptedIsSent`, `PacketsHandled`,
`ZombiesAreCut`, `ClosingCompletes`, `TimedJobsArrive`, `PoolProgress`), which needs fairness and
ENABLED.

## Not modelled

See "components" in `PROJECT.json`. Out of scope: console output, the packet generator (its output is
modelled), socket options, crash dumps, the latency figures of the stress client.
Without a caller: `JobQueue::Clear`, `pushOnly`, `JobTimer::Clear`, `SpinLock::TryLock`,
`SendBufferManager::Push`, `ThreadManager`, `RoomManager::RemoveRoom`.
Memory safety of the racing `weak_ptr` is outside the model. `TokenBucket` rounds the credit of an
interval down and uses the interval up, so a client may get less than the rate (packets every 99 ms
get 10 tokens a second of 20); `RateBounded` says that it is never refused if it leaves 50 ms. That
the server is fair to a queue that always has work is not checked: the runs bound the pushes. What
the end of the process leaves undone after `Stop` (completions, `PoolAllocator::Clear`) has no
property. Strings of 65536 bytes and more, whose length would be
cut, cannot reach a packet of the server. Blocks in the cache of a thread that ends are not given
back; the server's threads end with the process.

## Plan

1. Done: job system, rooms, sending, ring buffer, receiving, the life of sessions.
2. Done: packets and send buffers, memory pools, spin lock and timer, thread pool, rate limiter.
3. Done: proofs of every invariant and action property above; both refinements.
4. Left to model: the clients' side (`RegisterConnect`, reconnecting, the stress client's loop) and
   the owners of the I/O events.
