------------------------------ MODULE RingOps ------------------------------
(* The arithmetic of ServerEngine/Buffer/RingBuffer.cpp: Capacity cells, a    *)
(* position r to read from and a position w to write to.  One cell always     *)
(* stays free, so that r = w means empty.                                     *)
EXTENDS Integers, Sequences

CONSTANT Capacity

ASSUME CapacityAssumption == Capacity \in Nat \ {0}

Cells == 0..(Capacity - 1)

LeastOf(a, b) == IF a < b THEN a ELSE b

(* GetDataSize and GetFreeSize.                                               *)
DataSize(r, w) == IF w >= r THEN w - r ELSE Capacity - r + w

FreeSize(r, w) == Capacity - 1 - DataSize(r, w)

(* Mutant: the position is not wrapped.                                       *)
AdvanceUnwrapped(pos, size) == pos + size

(* MoveReadPos and MoveWritePos, when they succeed.                           *)
Advance(pos, size) == (pos + size) % Capacity

(* memcpy of data to the cells from at on, and of size cells from at on.      *)
CopyIn(buf, at, data) ==
  [i \in Cells |-> IF i \in at..(at + Len(data) - 1) THEN data[i - at + 1] ELSE buf[i]]
CopyOut(buf, at, size) == [i \in 1..size |-> buf[at + i - 1]]

(* Write: the part that does not fit before the end goes to the beginning.    *)
Store(buf, w, data) ==
  LET first == LeastOf(Capacity - w, Len(data))
  IN CopyIn(CopyIn(buf, w, SubSeq(data, 1, first)), 0, SubSeq(data, first + 1, Len(data)))

(* Mutant: the second part is read from the same place as the first.          *)
LoadUnwrapped(buf, r, size) ==
  LET first == LeastOf(Capacity - r, size)
  IN CopyOut(buf, r, first) \o CopyOut(buf, r, size - first)

(* Peek.                                                                      *)
Load(buf, r, size) ==
  LET first == LeastOf(Capacity - r, size)
  IN CopyOut(buf, r, first) \o CopyOut(buf, 0, size - first)

(* WSABUFs as pairs of first cell and length, the empty ones left out;        *)
(* maxBytes = 0 means no limit.                                               *)
Span(first, n) == IF n > 0 THEN <<<<first, n>>>> ELSE <<>>
Limited(size, maxBytes) == IF maxBytes > 0 THEN LeastOf(size, maxBytes) ELSE size
SpanCells(s) == UNION {s[i][1]..(s[i][1] + s[i][2] - 1) : i \in DOMAIN s}

(* GetWriteSpan: the free cells, in the order in which they are to be filled. *)
GetWriteSpan(r, w, maxBytes) ==
  LET free == Limited(FreeSize(r, w), maxBytes)
      tail == LeastOf(Capacity - w - (IF r = 0 THEN 1 ELSE 0), free)
  IN IF free <= 0 THEN <<>>
     ELSE IF w >= r THEN Span(w, tail) \o Span(0, LeastOf(r - 1, free - tail))
     ELSE Span(w, LeastOf(r - w - 1, free))

(* GetReadSpan: the cells with data, in the order in which they were filled.  *)
GetReadSpan(r, w, maxBytes) ==
  LET size == Limited(DataSize(r, w), maxBytes)
      tail == LeastOf(Capacity - r, size)
  IN IF size <= 0 THEN <<>>
     ELSE IF w >= r THEN <<<<r, size>>>>
     ELSE Span(r, tail) \o Span(0, LeastOf(w, size - tail))

(* What WSARecv does with the spans: fill them one after the other.           *)
Scatter(buf, spans, data) ==
  LET first == IF spans = <<>> THEN 0 ELSE LeastOf(spans[1][2], Len(data))
      rest == SubSeq(data, first + 1, Len(data))
  IN IF first = 0 THEN buf
     ELSE LET filled == CopyIn(buf, spans[1][1], SubSeq(data, 1, first))
          IN IF rest = <<>> THEN filled ELSE CopyIn(filled, spans[2][1], rest)

Gather(buf, spans) ==
  IF spans = <<>> THEN <<>>
  ELSE CopyOut(buf, spans[1][1], spans[1][2])
         \o (IF Len(spans) = 2 THEN CopyOut(buf, spans[2][1], spans[2][2]) ELSE <<>>)

SpanTotal(s) == IF s = <<>> THEN 0 ELSE s[1][2] + (IF Len(s) = 2 THEN s[2][2] ELSE 0)
=============================================================================
