----------------------------- MODULE MemoryPools -----------------------------
(* ServerEngine/Memory: PoolAllocator, which hands out blocks of the size     *)
(* class that holds the size asked for, with a cache for every thread and     *)
(* class, and MemoryPool, the interlocked list of the free blocks of a class. *)
(* Caches and lists are sets: which of its blocks they give does not matter.  *)
(* A block may be released by another thread than the one that took it.       *)
EXTENDS Integers, FiniteSets

CONSTANTS MemThreads,
          Blocks,             \* addresses _aligned_malloc may return
          AskedSizes,         \* sizes that are asked for
          BATCH_SIZE, MAX_LOCAL_CACHE

ASSUME MemAssumption == /\ IsFiniteSet(Blocks) /\ IsFiniteSet(MemThreads)
                        /\ AskedSizes \subseteq Nat \ {0}
                        /\ BATCH_SIZE \in Nat \ {0} /\ MAX_LOCAL_CACHE \in Nat
                        /\ BATCH_SIZE <= MAX_LOCAL_CACHE

VARIABLES
  header,     \* allocSize in the header; 0 while the address is not allocated
  room,       \* bytes the block really has behind its header
  inUse,      \* blocks the program has, with the size it asked for
  cache,      \* LMemoryCache: blocks by thread and index
  pool,       \* blocks in the list of each class
  allocCount, useCount,
  memCall     \* Pop or Release in progress: its block, and how many are still to be flushed

memVars == <<header, room, inUse, cache, pool, allocCount, useCount, memCall>>

MAX_ALLOC_SIZE == 4096

(* The size of the pool that _poolTable holds for a size: steps of 32, 128    *)
(* and 256 bytes.                                                             *)
RoundUp(size, step) == ((size + step - 1) \div step) * step
PoolSize(size) == IF size <= 1024 THEN RoundUp(size, 32)
                  ELSE IF size <= 2048 THEN RoundUp(size, 128)
                  ELSE RoundUp(size, 256)

Classes == {PoolSize(size) : size \in {s \in AskedSizes : s <= MAX_ALLOC_SIZE}}

(* Mutant: the middle classes begin at the index of the last small one.       *)
PoolIdxOverlap(size) == IF size <= 1024 THEN size \div 32 - 1
                        ELSE IF size <= 2048 THEN 31 + (size - 1024) \div 128 - 1
                        ELSE 40 + (size - 2048) \div 256 - 1

PoolIdx(size) == IF size <= 1024 THEN size \div 32 - 1
                 ELSE IF size <= 2048 THEN 32 + (size - 1024) \div 128 - 1
                 ELSE 40 + (size - 2048) \div 256 - 1

Indices == {PoolIdx(size) : size \in Classes}
NotInCall == [at |-> "idle"]

MemTypeOK ==
  /\ header \in [Blocks -> Nat] /\ room \in [Blocks -> Nat]
  /\ \A u \in inUse : u.block \in Blocks /\ u.asked \in AskedSizes
  /\ Indices \subseteq 0..63
  /\ cache \in [MemThreads -> [Indices -> SUBSET Blocks]]
  /\ pool \in [Classes -> SUBSET Blocks]
  /\ allocCount \in [Classes -> Nat] /\ useCount \in [Classes -> Int]
  /\ \A t \in MemThreads : memCall[t].at \in {"idle", "pop", "flush", "push", "last"}
  /\ \A t \in MemThreads, i \in Indices : Cardinality(cache[t][i]) <= MAX_LOCAL_CACHE

MemInit ==
  /\ header = [p \in Blocks |-> 0] /\ room = [p \in Blocks |-> 0]
  /\ inUse = {}
  /\ cache = [t \in MemThreads |-> [i \in Indices |-> {}]]
  /\ pool = [c \in Classes |-> {}]
  /\ allocCount = [c \in Classes |-> 0] /\ useCount = [c \in Classes |-> 0]
  /\ memCall = [t \in MemThreads |-> NotInCall]

Take(p, size, asked) ==
  /\ header' = [header EXCEPT ![p] = size]
  /\ inUse' = inUse \cup {[block |-> p, asked |-> asked]}

(* PoolAllocator::Alloc: more than 4096 bytes come from the system, ...       *)
AllocLarge(t, size) ==
  /\ memCall[t] = NotInCall /\ size > MAX_ALLOC_SIZE
  /\ \E p \in {q \in Blocks : room[q] = 0} :
       Take(p, size, size) /\ room' = [room EXCEPT ![p] = size]
  /\ UNCHANGED <<cache, pool, allocCount, useCount, memCall>>

(* ... the others from the cache of the thread, ...                           *)
AllocCached(t, size) ==
  /\ memCall[t] = NotInCall /\ size <= MAX_ALLOC_SIZE
  /\ LET class == PoolSize(size)
         i == PoolIdx(class)
     IN \E p \in cache[t][i] : /\ Take(p, class, size)
                               /\ cache' = [cache EXCEPT ![t][i] = @ \ {p}]
  /\ UNCHANGED <<room, pool, allocCount, useCount, memCall>>

(* ... or from the list of the class (MemoryPool::Pop), ...                   *)
PopListed(t, size) ==
  /\ memCall[t] = NotInCall /\ size <= MAX_ALLOC_SIZE
  /\ LET class == PoolSize(size)
     IN /\ cache[t][PoolIdx(class)] = {}
        /\ \E p \in pool[class] :
             /\ pool' = [pool EXCEPT ![class] = @ \ {p}]
             /\ memCall' = [memCall EXCEPT ![t] = [at |-> "pop", block |-> p, asked |-> size]]
  /\ UNCHANGED <<header, room, inUse, cache, allocCount, useCount>>

(* ... which makes a new block when it is empty ...                           *)
PopNew(t, size) ==
  /\ memCall[t] = NotInCall /\ size <= MAX_ALLOC_SIZE
  /\ LET class == PoolSize(size)
     IN /\ cache[t][PoolIdx(class)] = {} /\ pool[class] = {}
        /\ \E p \in {q \in Blocks : room[q] = 0} :
             /\ room' = [room EXCEPT ![p] = class]
             /\ header' = [header EXCEPT ![p] = class]
             /\ memCall' = [memCall EXCEPT ![t] = [at |-> "pop", block |-> p, asked |-> size]]
        /\ allocCount' = [allocCount EXCEPT ![class] = @ + 1]
  /\ UNCHANGED <<inUse, cache, pool, useCount>>

(* ... and counts the block before it returns it.                             *)
PopEnd(t) ==
  /\ memCall[t].at = "pop"
  /\ LET class == PoolSize(memCall[t].asked)
     IN /\ useCount' = [useCount EXCEPT ![class] = @ + 1]
        /\ Take(memCall[t].block, class, memCall[t].asked)
  /\ memCall' = [memCall EXCEPT ![t] = NotInCall]
  /\ UNCHANGED <<room, cache, pool, allocCount>>

(* PoolAllocator::Release: a large block goes back to the system, any other   *)
(* into the cache of the thread, unless the cache is full.                    *)
Release(t, u) ==
  LET p == u.block
      i == PoolIdx(header[p])
  IN /\ memCall[t] = NotInCall /\ u \in inUse
     /\ inUse' = inUse \ {u}
     /\ IF header[p] > MAX_ALLOC_SIZE
          THEN /\ header' = [header EXCEPT ![p] = 0] /\ room' = [room EXCEPT ![p] = 0]
               /\ UNCHANGED <<cache, memCall>>
          ELSE /\ IF Cardinality(cache[t][i]) < MAX_LOCAL_CACHE
                    THEN cache' = [cache EXCEPT ![t][i] = @ \cup {p}] /\ UNCHANGED memCall
                    ELSE /\ memCall' = [memCall EXCEPT ![t] = [at |-> "flush", block |-> p,
                                                                   left |-> BATCH_SIZE]]
                         /\ UNCHANGED cache
               /\ UNCHANGED <<header, room>>
     /\ UNCHANGED <<pool, allocCount, useCount>>

(* One turn of the flush: a cached block is taken and counted as unused ...   *)
FlushPop(t) ==
  /\ memCall[t].at = "flush"
  /\ LET class == header[memCall[t].block]
         i == PoolIdx(class)
     IN \E p \in cache[t][i] :
          /\ cache' = [cache EXCEPT ![t][i] = @ \ {p}]
          /\ useCount' = [useCount EXCEPT ![class] = @ - 1]
          /\ memCall' = [memCall EXCEPT ![t] = [at |-> "push", block |-> @.block,
                                                    left |-> @.left - 1, flushed |-> p]]
  /\ UNCHANGED <<header, room, inUse, pool, allocCount>>

(* ... and pushed on the list of the released block's class.                  *)
FlushPush(t) ==
  /\ memCall[t].at = "push"
  /\ pool' = [pool EXCEPT ![header[memCall[t].block]] = @ \cup {memCall[t].flushed}]
  /\ memCall' = [memCall EXCEPT ![t] = [at |-> IF @.left = 0 THEN "last" ELSE "flush",
                                            block |-> @.block, left |-> @.left]]
  /\ UNCHANGED <<header, room, inUse, cache, allocCount, useCount>>

(* The released block goes into the cache after all.                          *)
ReleaseEnd(t) ==
  /\ memCall[t].at = "last"
  /\ LET p == memCall[t].block
     IN cache' = [cache EXCEPT ![t][PoolIdx(header[p])] = @ \cup {p}]
  /\ memCall' = [memCall EXCEPT ![t] = NotInCall]
  /\ UNCHANGED <<header, room, inUse, pool, allocCount, useCount>>

MemNext ==
  \E t \in MemThreads :
    \/ \E size \in AskedSizes : \/ AllocLarge(t, size) \/ AllocCached(t, size)
                                \/ PopListed(t, size) \/ PopNew(t, size)
    \/ \E u \in inUse : Release(t, u)
    \/ PopEnd(t) \/ FlushPop(t) \/ FlushPush(t) \/ ReleaseEnd(t)

-----------------------------------------------------------------------------
(* The blocks that thread t has in its hands inside Pop or Release.           *)
Held(t) == IF memCall[t].at = "idle" THEN {}
           ELSE IF memCall[t].at = "push" THEN {memCall[t].block, memCall[t].flushed}
           ELSE {memCall[t].block}

(* The places of a block: with the program, in a cache, in a list, in the     *)
(* hands of a call.                                                           *)
PlacesOf(p) ==
  {<<"program">> : q \in {u.block : u \in inUse} \cap {p}}
    \cup {<<"cache", d[1], d[2]>> : d \in {c \in MemThreads \X Indices : p \in cache[c[1]][c[2]]}}
    \cup {<<"pool", c>> : c \in {d \in Classes : p \in pool[d]}}
    \cup {<<"hand", t>> : t \in {s \in MemThreads : p \in Held(s)}}

(* No block is in two places: given to the program once at most, in one cache *)
(* or in one list, or in the hands of one Release.  No block is lost either.  *)
BlockInOnePlace ==
  /\ \A u, v \in inUse : u.block = v.block => u = v
  /\ \A p \in Blocks : Cardinality(PlacesOf(p)) = IF room[p] = 0 THEN 0 ELSE 1

(* A block is as large as what was asked for, whichever path it took through  *)
(* caches and lists since it was made.                                        *)
BlockLargeEnough == \A u \in inUse : room[u.block] >= u.asked

(* The two counters of a class are exact: blocks made, and blocks that are    *)
(* not in the list, those in caches included, up to a pop or push in progress.*)
CountersExact ==
  \A c \in Classes :
    LET made == {p \in Blocks : room[p] = c}
        moving == {t \in MemThreads : /\ memCall[t].at \in {"pop", "push"}
                                      /\ header[memCall[t].block] = c}
    IN /\ allocCount[c] = Cardinality(made)
       /\ useCount[c] = allocCount[c] - Cardinality(pool[c]) - Cardinality(moving)

(* The memory is sound: every block in one place, large enough and counted,   *)
(* and no cache beyond its limit, whichever threads take and release it.      *)
MemorySound == MemTypeOK /\ BlockInOnePlace /\ BlockLargeEnough /\ CountersExact
=============================================================================
