----------------------------- MODULE SendBuffers -----------------------------
(* ServerEngine/Buffer/SendBuffer.cpp and the MakeSendBuffer of every packet: *)
(* each thread writes its packets into its own chunk, one behind the other,   *)
(* while the network still reads the packets written before.  A chunk lives   *)
(* as long as its thread or a buffer in it refers to it.  Nobody calls        *)
(* SendBufferManager::Push, so Pop always makes a new chunk.                  *)
EXTENDS PacketCodec

CONSTANTS Makers,
          Chunks, NoChunk,   \* addresses of chunks; nullptr
          ChunkSize,         \* CHUNK_SIZE
          Packets,           \* packets a thread may make: Packets[t]
          MaxMake            \* bound: packets a thread makes

ASSUME ChunkAssumption == /\ NoChunk \notin Chunks
                          /\ ChunkSize \in Nat /\ AllocSize <= ChunkSize
                          /\ \A t \in Makers : /\ MaxMake[t] \in Nat
                                               /\ \A p \in Packets[t] : IsPacket(p.id, p.val)

VARIABLES
  chunk,      \* open, used and the bytes of every chunk
  local,      \* LSendBufferChunk of every thread
  making,     \* MakeSendBuffer in progress: nothing, opened, or written
  buffers,    \* closed buffers somebody still holds
  begun,      \* packets begun, by thread
  overflowed, \* history: threads whose MakeSendBuffer returned nullptr
  crashed     \* threads whose ASSERT_CRASH failed: the server has stopped

chunkVars == <<chunk, local, making, buffers, begun, overflowed, crashed>>

Nothing == [at |-> "idle"]
FreshChunk == [open |-> FALSE, used |-> 0, mem |-> [i \in 1..ChunkSize |-> 0]]

ChunkTypeOK ==
  /\ \A c \in Chunks : /\ chunk[c].open \in BOOLEAN /\ chunk[c].used \in 0..ChunkSize
                       /\ chunk[c].mem \in [1..ChunkSize -> 0..(Byte - 1)]
  /\ local \in [Makers -> Chunks \cup {NoChunk}]
  /\ \A t \in Makers : making[t].at \in {"idle", "opened", "written"}
  /\ \A b \in buffers : /\ b.owner \in Chunks /\ b.by \in Makers
                        /\ b.start + b.size <= ChunkSize
  /\ begun \in [Makers -> Nat] /\ overflowed \subseteq Makers /\ crashed \subseteq Makers

ChunkInit ==
  /\ chunk = [c \in Chunks |-> FreshChunk]
  /\ local = [t \in Makers |-> NoChunk]
  /\ making = [t \in Makers |-> Nothing]
  /\ buffers = {} /\ begun = [t \in Makers |-> 0]
  /\ overflowed = {} /\ crashed = {}

ChunkFree(c) == ChunkSize - chunk[c].used

(* Chunks with an owner.  A new chunk is at any other address.                *)
Referenced == {local[t] : t \in Makers} \cup {b.owner : b \in buffers}

(* Mutant: a full chunk is used again from its beginning.                     *)
PopSame(t) == IF local[t] = NoChunk THEN Chunks \ Referenced ELSE {local[t]}

(* SendBufferManager::Pop.                                                    *)
Pop(t) == Chunks \ Referenced

(* SendBufferManager::Open: a new chunk for a thread that has none or too     *)
(* little room; the asserts that the chunk is not open.                       *)
Open(t, p) ==
  /\ making[t] = Nothing /\ begun[t] < MaxMake[t] /\ crashed = {}
  /\ begun' = [begun EXCEPT ![t] = @ + 1]
  /\ IF local[t] # NoChunk /\ chunk[local[t]].open
       THEN /\ crashed' = {t}
            /\ UNCHANGED <<chunk, local, making>>
       ELSE \E c \in IF local[t] = NoChunk \/ ChunkFree(local[t]) < AllocSize
                       THEN Pop(t) ELSE {local[t]} :
              /\ local' = [local EXCEPT ![t] = c]
              /\ chunk' = [chunk EXCEPT ![c] = [(IF c = local[t] /\ ChunkFree(c) >= AllocSize
                                                   THEN chunk[c] ELSE FreshChunk) EXCEPT !.open = TRUE]]
              /\ making' = [making EXCEPT ![t] = [at |-> "opened", packet |-> p]]
              /\ UNCHANGED crashed
  /\ UNCHANGED <<buffers, overflowed>>

(* The fields go into the chunk; when one has no room MakeSendBuffer returns  *)
(* nullptr, and nobody closes the chunk.                                      *)
WritePacket(t) ==
  /\ making[t].at = "opened" /\ crashed = {}
  /\ LET p == making[t].packet
         w == Serialize(p.id, p.val)
         at == chunk[local[t]].used
     IN /\ chunk' = [chunk EXCEPT ![local[t]].mem =
                       [i \in 1..ChunkSize |-> IF i > at /\ i <= at + Len(w.bytes)
                                                 THEN w.bytes[i - at] ELSE @[i]]]
        /\ making' = [making EXCEPT ![t] = IF w.ok THEN [at |-> "written", packet |-> p,
                                                         size |-> Number(SubSeq(w.bytes, 1, 2))]
                                                   ELSE Nothing]
        /\ overflowed' = IF w.ok THEN overflowed ELSE overflowed \cup {t}
  /\ UNCHANGED <<local, buffers, begun, crashed>>

(* Mutant: the chunk stays open.                                              *)
CloseStaysOpen(t) ==
  /\ making[t].at = "written" /\ crashed = {}
  /\ chunk' = [chunk EXCEPT ![local[t]].used = @ + making[t].size]
  /\ buffers' = buffers \cup {[owner |-> local[t], start |-> chunk[local[t]].used, by |-> t,
                               size |-> making[t].size, packet |-> making[t].packet]}
  /\ making' = [making EXCEPT ![t] = Nothing]
  /\ UNCHANGED <<local, begun, overflowed, crashed>>

(* SendBufferManager::Close; the caller of MakeSendBuffer has the buffer.     *)
Close(t) ==
  /\ making[t].at = "written" /\ crashed = {}
  /\ chunk' = [chunk EXCEPT ![local[t]].open = FALSE, ![local[t]].used = @ + making[t].size]
  /\ buffers' = buffers \cup {[owner |-> local[t], start |-> chunk[local[t]].used, by |-> t,
                               size |-> making[t].size, packet |-> making[t].packet]}
  /\ making' = [making EXCEPT ![t] = Nothing]
  /\ UNCHANGED <<local, begun, overflowed, crashed>>

(* The last reference to a buffer goes: it was sent to every session, or the  *)
(* sessions that held it are closed.                                          *)
Release(b) ==
  /\ crashed = {}
  /\ buffers' = buffers \ {b}
  /\ UNCHANGED <<chunk, local, making, begun, overflowed, crashed>>

ChunkNext == \/ \E t \in Makers : \/ \E p \in Packets[t] : Open(t, p)
                                  \/ WritePacket(t) \/ Close(t)
             \/ \E b \in buffers : Release(b)

ChunkSpec == ChunkInit /\ [][ChunkNext]_chunkVars

-----------------------------------------------------------------------------
BytesOf(b) == SubSeq(chunk[b.owner].mem, b.start + 1, b.start + b.size)
Cases(b) == IF b.packet.id \in ServerCases THEN ServerCases ELSE ClientCases

(* As long as anybody holds a buffer, its bytes are the packet that was made: *)
(* the receiver's dispatcher reads the same id and the same fields from them, *)
(* and the header gives their number.  Whatever the thread writes behind it   *)
(* and wherever a chunk is used again, nothing overwrites it.                 *)
BufferHoldsPacket ==
  \A b \in buffers : /\ HandlePacket(Cases(b), BytesOf(b))
                          = [ok |-> TRUE, id |-> b.packet.id, val |-> b.packet.val]
                     /\ Number(SubSeq(BytesOf(b), 1, 2)) = b.size

(* A packet that is cut anywhere is refused by the dispatcher; no field is    *)
(* read from beyond the end.                                                  *)
CutPacketRefused ==
  \A b \in buffers : \A n \in 0..(b.size - 1) :
    ~ HandlePacket(Cases(b), SubSeq(BytesOf(b), 1, n)).ok

(* The asserts on the chunk can fail only after a packet did not fit into its *)
(* buffer on the same thread.                                                 *)
CrashOnlyAfterOverflow == crashed \subseteq overflowed

(* The chunks are sound: buffers inside their chunk, and no failing assert    *)
(* without a packet of that thread that did not fit.                          *)
ChunksSound == ChunkTypeOK /\ CrashOnlyAfterOverflow

(* ASSERT_CRASH(LSendBufferChunk->IsOpen() == false) holds at every Open.     *)
ChunkClosedAtOpen == crashed = {}
=============================================================================
