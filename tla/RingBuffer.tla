----------------------------- MODULE RingBuffer -----------------------------
(* ServerEngine/Buffer/RingBuffer.cpp: one buffer used by one thread at a     *)
(* time, called in any order.  out records the last call: its name, its size  *)
(* argument, the bool it returned and the bytes it copied out.                *)
EXTENDS RingOps

CONSTANT Bytes

VARIABLES buffer, readPos, writePos, out

vars == <<buffer, readPos, writePos, out>>

Outcome(op, size, ok, data) == [op |-> op, size |-> size, ok |-> ok, data |-> data]

(* The positions stay inside the buffer.                                      *)
TypeOK ==
  /\ buffer \in [Cells -> Bytes]
  /\ readPos \in Cells /\ writePos \in Cells
  /\ out.op \in {"new", "write", "offer", "extend", "peek", "read", "move", "view", "clear"}
  /\ out.size \in 0..Capacity /\ out.ok \in BOOLEAN /\ out.data \in Seq(Bytes)

(* The memory comes from the pool with whatever it held.                      *)
Init ==
  /\ buffer \in [Cells -> Bytes]
  /\ readPos = 0 /\ writePos = 0
  /\ out = Outcome("new", 0, TRUE, <<>>)

Fits(size) == size > 0 /\ size <= FreeSize(readPos, writePos)
Holds(size) == size > 0 /\ size <= DataSize(readPos, writePos)

Write(data) ==
  LET size == Len(data)
  IN /\ IF Fits(size)
          THEN /\ buffer' = Store(buffer, writePos, data)
               /\ writePos' = IF writePos + size <= Capacity THEN Advance(writePos, size)
                                                             ELSE size - (Capacity - writePos)
          ELSE UNCHANGED <<buffer, writePos>>
     /\ out' = Outcome("write", size, Fits(size), <<>>)
     /\ UNCHANGED readPos

(* GetWriteSpan, bytes written to the spans from outside, MoveWritePos.       *)
Receive(maxBytes, data) ==
  LET spans == GetWriteSpan(readPos, writePos, maxBytes)
  IN /\ Len(data) <= SpanTotal(spans) /\ Fits(Len(data))
     /\ buffer' = Scatter(buffer, spans, data)
     /\ writePos' = Advance(writePos, Len(data))
     /\ out' = Outcome("offer", SpanTotal(spans), TRUE, <<>>)
     /\ UNCHANGED readPos

(* MoveWritePos refuses a size there is no room for, and 0.                   *)
MoveTooFar(size) ==
  /\ ~ Fits(size)
  /\ out' = Outcome("extend", size, FALSE, <<>>)
  /\ UNCHANGED <<buffer, readPos, writePos>>

Peek(size) ==
  /\ out' = Outcome("peek", size, Holds(size),
                    IF Holds(size) THEN Load(buffer, readPos, size) ELSE <<>>)
  /\ UNCHANGED <<buffer, readPos, writePos>>

(* Peek, then MoveReadPos.                                                    *)
Read(size) ==
  /\ out' = Outcome("read", size, Holds(size),
                    IF Holds(size) THEN Load(buffer, readPos, size) ELSE <<>>)
  /\ readPos' = IF Holds(size) THEN Advance(readPos, size) ELSE readPos
  /\ UNCHANGED <<buffer, writePos>>

MoveReadPos(size) ==
  /\ out' = Outcome("move", size, Holds(size), <<>>)
  /\ readPos' = IF Holds(size) THEN Advance(readPos, size) ELSE readPos
  /\ UNCHANGED <<buffer, writePos>>

(* GetReadSpan and a look at the cells it names.                              *)
View(maxBytes) ==
  /\ out' = Outcome("view", maxBytes, TRUE, Gather(buffer, GetReadSpan(readPos, writePos, maxBytes)))
  /\ UNCHANGED <<buffer, readPos, writePos>>

Clear ==
  /\ readPos' = 0 /\ writePos' = 0
  /\ out' = Outcome("clear", 0, TRUE, <<>>)
  /\ UNCHANGED buffer

Next == \/ \E n \in 0..Capacity : \/ \E data \in [1..n -> Bytes] :
                                       Write(data) \/ \E max \in 0..(Capacity - 1) : Receive(max, data)
                                  \/ MoveTooFar(n) \/ Peek(n) \/ Read(n) \/ MoveReadPos(n) \/ View(n)
        \/ Clear

Spec == Init /\ [][Next]_vars

-----------------------------------------------------------------------------
(* The two spans of GetWriteSpan never touch a cell with unread data and      *)
(* offer all the room there is.                                               *)
SpansAvoidData ==
  \A max \in 0..Capacity :
    LET spans == GetWriteSpan(readPos, writePos, max)
        unread == {Advance(readPos, k) : k \in 0..(DataSize(readPos, writePos) - 1)}
    IN /\ SpanCells(spans) \cap unread = {}
       /\ SpanTotal(spans) = Limited(FreeSize(readPos, writePos), max)
       /\ writePos \notin unread

(* The buffer is sound: its positions are inside it and its spans avoid what  *)
(* is unread.                                                                 *)
RingSound == TypeOK /\ SpansAvoidData

(* The queue: the unread cells in order.                                      *)
Content == [k \in 1..DataSize(readPos, writePos) |-> buffer[Advance(readPos, k - 1)]]

Fifo == INSTANCE BoundedFifo WITH Limit <- Capacity - 1, content <- Content

(* Whatever the order of calls and wherever the positions wrap, the buffer is *)
(* a first-in first-out queue of Capacity - 1 bytes, and a call fails exactly *)
(* when its size does not fit.                                                *)
ImplementsFifo == Fifo!Spec
=============================================================================
