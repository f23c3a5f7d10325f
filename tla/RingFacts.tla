------------------------------ MODULE RingFacts ------------------------------
(* What the arithmetic of RingOps comes to in ring coordinates: the k-th cell *)
(* from a position is Advance(position, k).                                   *)
EXTENDS RingOps, SequenceFacts

(* A position moves on, or begins again at the end of the buffer.             *)
LEMMA AdvanceIs ==
  ASSUME NEW p \in Cells, NEW n \in 0..Capacity
  PROVE  /\ Advance(p, n) \in Cells
         /\ Advance(p, n) = IF p + n < Capacity THEN p + n ELSE p + n - Capacity
<1>1. Capacity \in Nat \ {0} /\ p \in Nat /\ n \in Nat /\ p < Capacity /\ n <= Capacity
  BY CapacityAssumption DEF Cells
<1>2. CASE p + n < Capacity
  <2>1. (p + n) % Capacity = p + n
    BY <1>1, <1>2
  <2> QED  BY <1>1, <1>2, <2>1 DEF Advance, Cells
<1>3. CASE p + n >= Capacity
  <2>1. (p + n) % Capacity = p + n - Capacity
    BY <1>1, <1>3
  <2> QED  BY <1>1, <1>3, <2>1 DEF Advance, Cells
<1> QED  BY <1>1, <1>2, <1>3

LEMMA SizesAre ==
  ASSUME NEW r \in Cells, NEW w \in Cells
  PROVE  /\ DataSize(r, w) \in 0..(Capacity - 1) /\ FreeSize(r, w) \in 0..(Capacity - 1)
         /\ DataSize(r, w) + FreeSize(r, w) = Capacity - 1
         /\ Advance(r, DataSize(r, w)) = w
         /\ Capacity \in Nat \ {0} /\ r \in Nat /\ w \in Nat /\ r < Capacity /\ w < Capacity
<1>1. Capacity \in Nat \ {0} /\ r \in Nat /\ w \in Nat /\ r < Capacity /\ w < Capacity
  BY CapacityAssumption DEF Cells
<1>2. DataSize(r, w) \in 0..(Capacity - 1) /\ DataSize(r, w) \in 0..Capacity
  BY <1>1 DEF DataSize
<1>3. Advance(r, DataSize(r, w)) = w
  BY <1>1, <1>2, AdvanceIs DEF DataSize
<1>4. FreeSize(r, w) \in 0..(Capacity - 1) /\ DataSize(r, w) + FreeSize(r, w) = Capacity - 1
  BY <1>1, <1>2 DEF FreeSize
<1> QED  BY <1>1, <1>2, <1>3, <1>4

(* Two moves are one.                                                         *)
LEMMA AdvanceTwice ==
  ASSUME NEW p \in Cells, NEW m \in Nat, NEW n \in Nat, m + n <= Capacity
  PROVE  Advance(Advance(p, m), n) = Advance(p, m + n)
<1>1. /\ Capacity \in Nat \ {0} /\ p \in Nat /\ p < Capacity
      /\ m \in 0..Capacity /\ n \in 0..Capacity /\ m + n \in 0..Capacity
  BY CapacityAssumption DEF Cells
<1>2. PICK q \in Cells : q = Advance(p, m)
  BY <1>1, AdvanceIs
<1>3. q = IF p + m < Capacity THEN p + m ELSE p + m - Capacity
  BY <1>1, <1>2, AdvanceIs
<1>4. Advance(q, n) = IF q + n < Capacity THEN q + n ELSE q + n - Capacity
  BY <1>1, AdvanceIs
<1>5. Advance(p, m + n) = IF p + (m + n) < Capacity THEN p + (m + n) ELSE p + (m + n) - Capacity
  BY <1>1, AdvanceIs
<1> QED  BY <1>1, <1>2, <1>3, <1>4, <1>5 DEF Cells

(* The cells of a ring are told apart by their distance from any position,    *)
(* and each has one.                                                          *)
LEMMA Distance ==
  ASSUME NEW p \in Cells
  PROVE  /\ \A k, l \in 0..(Capacity - 1) : Advance(p, k) = Advance(p, l) => k = l
         /\ \A c \in Cells : \E k \in 0..(Capacity - 1) : c = Advance(p, k)
<1>1. Capacity \in Nat \ {0} /\ p \in Nat /\ p < Capacity
  BY CapacityAssumption DEF Cells
<1>2. ASSUME NEW k \in 0..(Capacity - 1), NEW l \in 0..(Capacity - 1), Advance(p, k) = Advance(p, l)
      PROVE  k = l
  <2>1. k \in 0..Capacity /\ l \in 0..Capacity
    BY <1>1
  <2>2. /\ Advance(p, k) = IF p + k < Capacity THEN p + k ELSE p + k - Capacity
        /\ Advance(p, l) = IF p + l < Capacity THEN p + l ELSE p + l - Capacity
    BY <2>1, AdvanceIs
  <2>3. k \in Nat /\ l \in Nat /\ k < Capacity /\ l < Capacity
    BY <1>1
  <2>4. (IF p + k < Capacity THEN p + k ELSE p + k - Capacity)
          = (IF p + l < Capacity THEN p + l ELSE p + l - Capacity)
    BY <1>2, <2>2
  <2> QED  BY <1>1, <2>3, <2>4
<1>3. ASSUME NEW c \in Cells PROVE \E k \in 0..(Capacity - 1) : c = Advance(p, k)
  <2>1. c = Advance(p, DataSize(p, c)) /\ DataSize(p, c) \in 0..(Capacity - 1)
    BY SizesAre
  <2> QED  BY <2>1
<1> QED  BY <1>2, <1>3

(* Writing lengthens what is unread, reading shortens it.                     *)
LEMMA SizesMove ==
  ASSUME NEW r \in Cells, NEW w \in Cells, NEW n \in Nat
  PROVE  /\ n <= FreeSize(r, w) => DataSize(r, Advance(w, n)) = DataSize(r, w) + n
         /\ n <= DataSize(r, w) => DataSize(Advance(r, n), w) = DataSize(r, w) - n
<1>1. /\ Capacity \in Nat \ {0} /\ r \in Nat /\ w \in Nat /\ r < Capacity /\ w < Capacity
      /\ DataSize(r, w) \in 0..(Capacity - 1)
  BY SizesAre
<1>2. ASSUME n <= FreeSize(r, w) PROVE DataSize(r, Advance(w, n)) = DataSize(r, w) + n
  <2>1. n \in 0..Capacity
    BY <1>1, <1>2 DEF FreeSize
  <2>2. Advance(w, n) = IF w + n < Capacity THEN w + n ELSE w + n - Capacity
    BY <2>1, AdvanceIs
  <2> QED  BY <1>1, <1>2, <2>2 DEF DataSize, FreeSize
<1>3. ASSUME n <= DataSize(r, w) PROVE DataSize(Advance(r, n), w) = DataSize(r, w) - n
  <2>1. n \in 0..Capacity
    BY <1>1, <1>3
  <2>2. Advance(r, n) = IF r + n < Capacity THEN r + n ELSE r + n - Capacity
    BY <2>1, AdvanceIs
  <2> QED  BY <1>1, <1>3, <2>2 DEF DataSize
<1> QED  BY <1>2, <1>3

(* Load copies the cells in their order from r on.                            *)
LEMMA LoadIs ==
  ASSUME NEW S, NEW buf \in [Cells -> S], NEW r \in Cells, NEW n \in 0..Capacity
  PROVE  Load(buf, r, n) = [k \in 1..n |-> buf[Advance(r, k - 1)]]
<1> DEFINE first == LeastOf(Capacity - r, n)
           a == CopyOut(buf, r, first)
           b == CopyOut(buf, 0, n - first)
           u == [k \in 1..n |-> buf[Advance(r, k - 1)]]
<1>1. Capacity \in Nat \ {0} /\ r \in Nat /\ r < Capacity /\ n \in Nat /\ n <= Capacity
  BY CapacityAssumption DEF Cells
<1>2. /\ first \in Nat /\ n - first \in Nat /\ r + first <= Capacity /\ n - first <= Capacity
      /\ first <= n /\ (n - first > 0 => r + first = Capacity)
  BY <1>1 DEF LeastOf
<1> HIDE DEF first
<1>3. ASSUME NEW k \in 1..n
      PROVE  /\ k - 1 \in 0..Capacity /\ Advance(r, k - 1) \in Cells
             /\ Advance(r, k - 1) = IF k <= first THEN r + k - 1 ELSE k - first - 1
  <2>1. k - 1 \in 0..Capacity /\ k \in Nat
    BY <1>1
  <2>2. Advance(r, k - 1) = IF r + (k - 1) < Capacity THEN r + (k - 1) ELSE r + (k - 1) - Capacity
    BY <2>1, AdvanceIs
  <2>3. CASE k <= first
    BY <1>1, <1>2, <2>1, <2>2, <2>3, AdvanceIs
  <2>4. CASE k > first
    <3>1. r + first = Capacity
      BY <1>1, <1>2, <2>1, <2>4
    <3> QED  BY <1>1, <1>2, <2>1, <2>2, <2>4, <3>1, AdvanceIs
  <2> QED  BY <1>2, <2>1, <2>3, <2>4
<1>4. u \in Seq(S) /\ Len(u) = n
  <2>1. \A k \in 1..n : buf[Advance(r, k - 1)] \in S
    BY <1>3
  <2> QED  BY <1>1, <2>1
<1>5. /\ a = [k \in 1..first |-> buf[r + k - 1]]
      /\ b = [k \in 1..(n - first) |-> buf[0 + k - 1]]
  BY DEF CopyOut
<1>6. a \in Seq(S) /\ Len(a) = first
  <2>1. \A k \in 1..first : r + k - 1 \in Cells
    BY <1>1, <1>2 DEF Cells
  <2> QED  BY <1>2, <1>5, <2>1
<1>7. b \in Seq(S) /\ Len(b) = n - first
  <2>1. \A k \in 1..(n - first) : 0 + k - 1 \in Cells
    BY <1>1, <1>2 DEF Cells
  <2>2. PICK m \in Nat : m = n - first
    BY <1>2
  <2>3. \A k \in 1..m : buf[0 + k - 1] \in S
    BY <2>1, <2>2
  <2> QED  BY <1>5, <2>2, <2>3
<1>8. \A k \in 1..Len(a) : u[k] = a[k]
  BY <1>1, <1>2, <1>3, <1>5, <1>6
<1>9. \A k \in 1..Len(b) : u[Len(a) + k] = b[k]
  <2>1. ASSUME NEW k \in 1..Len(b) PROVE u[Len(a) + k] = b[k]
    <3>1. first + k \in 1..n /\ ~ (first + k <= first) /\ (first + k) - first - 1 = 0 + k - 1
      BY <1>2, <1>7, <2>1
    <3>2. Advance(r, (first + k) - 1) = 0 + k - 1
      BY <1>3, <3>1
    <3> QED  BY <1>5, <1>6, <1>7, <3>1, <3>2
  <2> QED  BY <2>1
<1>10. Len(u) = Len(a) + Len(b)
  BY <1>1, <1>2, <1>4, <1>6, <1>7
<1> HIDE DEF a, b, u
<1>11. u = a \o b
  BY <1>4, <1>6, <1>7, <1>8, <1>9, <1>10, ConcatIs
<1>12. Load(buf, r, n) = a \o b
  BY DEF Load, a, b, first
<1> QED  BY <1>11, <1>12 DEF u

(* Store fills the cells in their order from w on and leaves the others.      *)
LEMMA StoreIs ==
  ASSUME NEW S, NEW buf \in [Cells -> S], NEW w \in Cells, NEW data \in Seq(S),
         Len(data) <= Capacity
  PROVE  /\ Store(buf, w, data) \in [Cells -> S]
         /\ \A k \in 0..(Capacity - 1) :
              Store(buf, w, data)[Advance(w, k)]
                = IF k < Len(data) THEN data[k + 1] ELSE buf[Advance(w, k)]
<1> DEFINE n == Len(data)
           first == LeastOf(Capacity - w, n)
           a == SubSeq(data, 1, first)
           b == SubSeq(data, first + 1, n)
           half == CopyIn(buf, w, a)
           full == CopyIn(half, 0, b)
<1>1. Capacity \in Nat \ {0} /\ w \in Nat /\ w < Capacity /\ n \in Nat /\ n <= Capacity
  BY CapacityAssumption DEF Cells
<1>2. /\ first \in 0..n /\ n - first \in Nat /\ w + first <= Capacity
      /\ (n - first > 0 => w + first = Capacity)
  BY <1>1 DEF LeastOf
<1>3. Store(buf, w, data) = full
  BY DEF Store
<1> HIDE DEF first
<1>4. /\ a \in Seq(S) /\ b \in Seq(S) /\ Len(a) = first /\ Len(b) = n - first
      /\ \A i \in 1..first : a[i] = data[i]
      /\ \A i \in 1..(n - first) : b[i] = data[first + i]
  BY <1>2, CutSeq
<1> HIDE DEF a, b
<1>5. \A c \in Cells : half[c] = IF c \in w..(w + first - 1) THEN a[c - w + 1] ELSE buf[c]
  BY <1>4 DEF CopyIn
<1>6. \A c \in Cells : full[c] = IF c \in 0..(0 + (n - first) - 1) THEN b[c - 0 + 1] ELSE half[c]
  BY <1>4 DEF CopyIn
<1>7. \A c \in Cells : half[c] \in S
  <2>1. ASSUME NEW c \in Cells PROVE half[c] \in S
    <3>1. CASE c \in w..(w + first - 1)
      <4>1. c - w + 1 \in 1..Len(a)
        BY <1>1, <1>2, <1>4, <3>1
      <4> QED  BY <1>4, <1>5, <3>1, <4>1
    <3> QED  BY <1>5, <3>1
  <2> QED  BY <2>1
<1>8. full \in [Cells -> S]
  <2>1. ASSUME NEW c \in Cells PROVE full[c] \in S
    <3>1. CASE c \in 0..(0 + (n - first) - 1)
      <4>1. c - 0 + 1 \in 1..Len(b)
        BY <1>1, <1>2, <1>4, <3>1
      <4> QED  BY <1>4, <1>6, <3>1, <4>1
    <3> QED  BY <1>6, <1>7, <3>1
  <2>2. full = [c \in Cells |-> full[c]]
    BY DEF CopyIn
  <2> QED  BY <2>1, <2>2
<1> HIDE DEF half, full
<1>9. ASSUME NEW k \in 0..(Capacity - 1)
      PROVE  full[Advance(w, k)] = IF k < n THEN data[k + 1] ELSE buf[Advance(w, k)]
  <2>1. k \in 0..Capacity /\ k \in Nat /\ k < Capacity
    BY <1>1
  <2>2. PICK c \in Cells : c = Advance(w, k)
    BY <2>1, AdvanceIs
  <2>3. c = IF w + k < Capacity THEN w + k ELSE w + k - Capacity
    BY <2>1, <2>2, AdvanceIs
  <2>4. c \in Nat /\ c < Capacity /\ first \in Nat /\ first <= n
    BY <1>1, <1>2 DEF Cells
  <2>5. CASE w + k < Capacity /\ k < n
    <3>1. k < first /\ c = w + k
      BY <1>1, <1>2, <2>1, <2>3, <2>5 DEF first, LeastOf
    <3>2. c \in w..(w + first - 1) /\ c - w + 1 = k + 1 /\ k + 1 \in 1..first
      BY <1>1, <2>1, <2>4, <3>1
    <3>3. ~ (c \in 0..(0 + (n - first) - 1))
      BY <1>1, <1>2, <2>1, <2>4, <3>1
    <3>4. full[c] = a[k + 1]
      BY <1>5, <1>6, <3>2, <3>3
    <3> QED  BY <1>4, <2>2, <2>5, <3>2, <3>4
  <2>6. CASE w + k < Capacity /\ ~ (k < n)
    <3>1. c = w + k /\ ~ (c \in w..(w + first - 1)) /\ ~ (c \in 0..(0 + (n - first) - 1))
      BY <1>1, <1>2, <2>1, <2>3, <2>4, <2>6
    <3> QED  BY <1>5, <1>6, <2>2, <2>6, <3>1
  <2>7. CASE ~ (w + k < Capacity) /\ k < n
    <3>1. c = w + k - Capacity /\ first = Capacity - w
      BY <1>1, <1>2, <2>1, <2>3, <2>7 DEF first, LeastOf
    <3>2. /\ c \in 0..(0 + (n - first) - 1) /\ c - 0 + 1 \in 1..(n - first)
          /\ first + (c - 0 + 1) = k + 1
      BY <1>1, <2>1, <2>4, <2>7, <3>1
    <3>3. full[c] = b[c - 0 + 1] /\ b[c - 0 + 1] = data[k + 1]
      BY <1>4, <1>6, <3>2
    <3> QED  BY <2>2, <2>7, <3>3
  <2>8. CASE ~ (w + k < Capacity) /\ ~ (k < n)
    <3>1. /\ c = w + k - Capacity /\ ~ (c \in w..(w + first - 1))
          /\ ~ (c \in 0..(0 + (n - first) - 1))
      BY <1>1, <1>2, <2>1, <2>3, <2>4, <2>8 DEF first, LeastOf
    <3> QED  BY <1>5, <1>6, <2>2, <2>8, <3>1
  <2> QED  BY <2>5, <2>6, <2>7, <2>8
<1> QED  BY <1>3, <1>8, <1>9

(* What the spans of a ring segment of T cells from p on look like.           *)
Segment(s, p, T) ==
  \/ T = 0 /\ s = <<>>
  \/ T > 0 /\ p + T <= Capacity /\ s = <<<<p, T>>>>
  \/ p + T > Capacity /\ s = <<<<p, Capacity - p>>, <<0, T - (Capacity - p)>>>>

LEMMA SegmentIs ==
  ASSUME NEW p \in Cells, NEW T \in 0..Capacity, NEW s, Segment(s, p, T)
  PROVE  /\ SpanTotal(s) = T /\ Len(s) <= 2
         /\ (s = <<>> <=> T = 0)
         /\ SpanCells(s) = {Advance(p, k) : k \in 0..(T - 1)}
<1>1. Capacity \in Nat \ {0} /\ p \in Nat /\ p < Capacity /\ T \in Nat /\ T <= Capacity
  BY CapacityAssumption DEF Cells
<1>2. ASSUME NEW k \in 0..(T - 1)
      PROVE  Advance(p, k) = IF p + k < Capacity THEN p + k ELSE p + k - Capacity
  <2>1. k \in 0..Capacity
    BY <1>1
  <2> QED  BY <2>1, AdvanceIs
<1>3. CASE T = 0 /\ s = <<>>
  <2>1. SpanCells(s) = {} /\ 0..(T - 1) = {}
    BY <1>3 DEF SpanCells
  <2> QED  BY <1>3, <2>1 DEF SpanTotal
<1>4. CASE T > 0 /\ p + T <= Capacity /\ s = <<<<p, T>>>>
  <2>1. Len(s) = 1 /\ s # <<>> /\ s[1] = <<p, T>> /\ DOMAIN s = {1}
    BY <1>4
  <2>2. SpanCells(s) = p..(p + T - 1)
    <3>1. {s[i][1]..(s[i][1] + s[i][2] - 1) : i \in DOMAIN s} = {s[1][1]..(s[1][1] + s[1][2] - 1)}
      BY <2>1
    <3>2. s[1][1] = p /\ s[1][2] = T
      BY <2>1
    <3> QED  BY <3>1, <3>2 DEF SpanCells
  <2>3. ASSUME NEW k \in 0..(T - 1) PROVE Advance(p, k) = p + k
    BY <1>1, <1>2, <1>4
  <2>4. {Advance(p, k) : k \in 0..(T - 1)} = {p + k : k \in 0..(T - 1)}
    BY <2>3
  <2>5. p..(p + T - 1) = {p + k : k \in 0..(T - 1)}
    <3>1. ASSUME NEW c \in p..(p + T - 1) PROVE c - p \in 0..(T - 1) /\ c = p + (c - p)
      BY <1>1
    <3>2. ASSUME NEW k \in 0..(T - 1) PROVE p + k \in p..(p + T - 1)
      BY <1>1
    <3> QED  BY <3>1, <3>2
  <2>6. SpanTotal(s) = T
    BY <1>1, <2>1 DEF SpanTotal
  <2>7. SpanCells(s) = {Advance(p, k) : k \in 0..(T - 1)}
    BY <2>2, <2>4, <2>5
  <2> QED  BY <1>1, <1>4, <2>1, <2>6, <2>7
<1>5. CASE p + T > Capacity /\ s = <<<<p, Capacity - p>>, <<0, T - (Capacity - p)>>>>
  <2>1. /\ Len(s) = 2 /\ s # <<>> /\ s[1] = <<p, Capacity - p>> /\ DOMAIN s = {1, 2}
        /\ s[2] = <<0, T - (Capacity - p)>>
    BY <1>5
  <2>2. SpanCells(s) = (p..(p + (Capacity - p) - 1)) \cup (0..(0 + (T - (Capacity - p)) - 1))
    <3>1. {s[i][1]..(s[i][1] + s[i][2] - 1) : i \in DOMAIN s}
            = {s[1][1]..(s[1][1] + s[1][2] - 1), s[2][1]..(s[2][1] + s[2][2] - 1)}
      BY <2>1
    <3>2. s[1][1] = p /\ s[1][2] = Capacity - p /\ s[2][1] = 0 /\ s[2][2] = T - (Capacity - p)
      BY <2>1
    <3> QED  BY <3>1, <3>2 DEF SpanCells
  <2>3. SpanTotal(s) = T
    BY <1>1, <2>1 DEF SpanTotal
  <2>4. ASSUME NEW c \in SpanCells(s) PROVE \E k \in 0..(T - 1) : c = Advance(p, k)
    <3>1. CASE c \in p..(p + (Capacity - p) - 1)
      <4>1. c - p \in 0..(T - 1) /\ p + (c - p) < Capacity /\ p + (c - p) = c
        BY <1>1, <1>5, <3>1
      <4> QED  BY <1>2, <4>1
    <3>2. CASE c \in 0..(0 + (T - (Capacity - p)) - 1)
      <4>1. /\ c + (Capacity - p) \in 0..(T - 1) /\ ~ (p + (c + (Capacity - p)) < Capacity)
            /\ p + (c + (Capacity - p)) - Capacity = c
        BY <1>1, <1>5, <3>2
      <4> QED  BY <1>2, <4>1
    <3> QED  BY <2>2, <3>1, <3>2
  <2>5. ASSUME NEW k \in 0..(T - 1) PROVE Advance(p, k) \in SpanCells(s)
    <3>1. CASE p + k < Capacity
      <4>1. p + k \in p..(p + (Capacity - p) - 1)
        BY <1>1, <3>1
      <4> QED  BY <1>2, <2>2, <3>1, <4>1
    <3>2. CASE ~ (p + k < Capacity)
      <4>1. p + k - Capacity \in 0..(0 + (T - (Capacity - p)) - 1)
        BY <1>1, <3>2
      <4> QED  BY <1>2, <2>2, <3>2, <4>1
    <3> QED  BY <3>1, <3>2
  <2>6. SpanCells(s) = {Advance(p, k) : k \in 0..(T - 1)}
    BY <2>4, <2>5
  <2> QED  BY <1>1, <1>5, <2>1, <2>3, <2>6
<1> QED  BY <1>3, <1>4, <1>5 DEF Segment

LEMMA LimitIs ==
  ASSUME NEW n \in Nat, NEW max \in Nat
  PROVE  /\ Limited(n, max) \in Nat /\ Limited(n, max) <= n
         /\ Limited(n, max) = IF max > 0 /\ max < n THEN max ELSE n
BY DEF Limited, LeastOf

LEMMA SmallConcats == \A x, y : <<x>> \o <<y>> = <<x, y>> /\ <<x>> \o <<>> = <<x>>
<1> SUFFICES ASSUME NEW x, NEW y PROVE <<x>> \o <<y>> = <<x, y>> /\ <<x>> \o <<>> = <<x>>
  OBVIOUS
<1>1. <<x>> \in Seq({x, y}) /\ <<y>> \in Seq({x, y}) /\ <<x, y>> \in Seq({x, y})
  OBVIOUS
<1>2. /\ Len(<<x, y>>) = Len(<<x>>) + Len(<<y>>)
      /\ \A i \in 1..Len(<<x>>) : <<x, y>>[i] = <<x>>[i]
      /\ \A i \in 1..Len(<<y>>) : <<x, y>>[Len(<<x>>) + i] = <<y>>[i]
  <2>1. Len(<<x>>) = 1 /\ Len(<<y>>) = 1 /\ Len(<<x, y>>) = 2
    OBVIOUS
  <2>2. <<x>>[1] = x /\ <<y>>[1] = y /\ <<x, y>>[1] = x /\ <<x, y>>[1 + 1] = y
    OBVIOUS
  <2>3. ASSUME NEW i \in 1..Len(<<x>>) PROVE <<x, y>>[i] = <<x>>[i]
    <3>1. i = 1
      BY <2>1
    <3> QED  BY <2>2, <3>1
  <2>4. ASSUME NEW i \in 1..Len(<<y>>) PROVE <<x, y>>[Len(<<x>>) + i] = <<y>>[i]
    <3>1. i = 1 /\ Len(<<x>>) + i = 1 + 1
      BY <2>1
    <3> QED  BY <2>2, <3>1
  <2> QED  BY <2>1, <2>3, <2>4
<1>3. <<x, y>> = <<x>> \o <<y>>
  BY <1>1, <1>2, ConcatIs
<1> QED  BY <1>1, <1>3, ConcatEmptySeq

(* GetWriteSpan gives the free cells behind the write position, ...           *)
LEMMA WriteSpanIs ==
  ASSUME NEW r \in Cells, NEW w \in Cells, NEW max \in Nat
  PROVE  Segment(GetWriteSpan(r, w, max), w, Limited(FreeSize(r, w), max))
<1> DEFINE free == Limited(FreeSize(r, w), max)
           tail == LeastOf(Capacity - w - (IF r = 0 THEN 1 ELSE 0), free)
<1>1. /\ Capacity \in Nat \ {0} /\ r \in Nat /\ w \in Nat /\ r < Capacity /\ w < Capacity
      /\ FreeSize(r, w) \in Nat
  BY SizesAre
<1>2. free \in Nat /\ free <= FreeSize(r, w)
  BY <1>1, LimitIs
<1> HIDE DEF free
<1>3. CASE free = 0
  <2>1. GetWriteSpan(r, w, max) = <<>>
    BY <1>3 DEF GetWriteSpan, free
  <2> QED  BY <1>3, <2>1 DEF Segment, free
<1>4. CASE free > 0 /\ w >= r
  <2>1. FreeSize(r, w) = Capacity - 1 - (w - r)
    BY <1>4 DEF FreeSize, DataSize
  <2>2. GetWriteSpan(r, w, max) = Span(w, tail) \o Span(0, LeastOf(r - 1, free - tail))
    BY <1>2, <1>4 DEF GetWriteSpan, free
  <2>3. CASE w + free <= Capacity
    <3>1. tail = free /\ ~ (LeastOf(r - 1, free - tail) > 0)
      BY <1>1, <1>2, <1>4, <2>1, <2>3 DEF LeastOf
    <3>2. Span(w, tail) = <<<<w, free>>>> /\ Span(0, LeastOf(r - 1, free - tail)) = <<>>
      BY <1>4, <3>1 DEF Span
    <3>3. GetWriteSpan(r, w, max) = <<<<w, free>>>>
      BY <2>2, <3>2, SmallConcats
    <3> QED  BY <1>4, <2>3, <3>3 DEF Segment, free
  <2>4. CASE w + free > Capacity
    <3>1. r > 0 /\ tail = Capacity - w /\ LeastOf(r - 1, free - tail) = free - (Capacity - w)
      BY <1>1, <1>2, <1>4, <2>1, <2>4 DEF LeastOf
    <3>2. Capacity - w > 0 /\ free - (Capacity - w) > 0
      BY <1>1, <1>2, <2>4
    <3>3. /\ Span(w, tail) = <<<<w, Capacity - w>>>>
          /\ Span(0, LeastOf(r - 1, free - tail)) = <<<<0, free - (Capacity - w)>>>>
      BY <3>1, <3>2 DEF Span
    <3>4. GetWriteSpan(r, w, max) = <<<<w, Capacity - w>>, <<0, free - (Capacity - w)>>>>
      BY <2>2, <3>3, SmallConcats
    <3> QED  BY <2>4, <3>4 DEF Segment, free
  <2> QED  BY <1>1, <1>2, <2>3, <2>4
<1>5. CASE free > 0 /\ ~ (w >= r)
  <2>1. FreeSize(r, w) = r - w - 1
    BY <1>1, <1>5 DEF FreeSize, DataSize
  <2>2. GetWriteSpan(r, w, max) = Span(w, LeastOf(r - w - 1, free))
    BY <1>2, <1>5 DEF GetWriteSpan, free
  <2>3. LeastOf(r - w - 1, free) = free /\ w + free <= Capacity
    BY <1>1, <1>2, <1>5, <2>1 DEF LeastOf
  <2> QED  BY <1>5, <2>2, <2>3 DEF Span, Segment, free
<1> QED  BY <1>2, <1>3, <1>4, <1>5

(* ... and GetReadSpan the unread ones behind the read position.              *)
LEMMA ReadSpanIs ==
  ASSUME NEW r \in Cells, NEW w \in Cells, NEW max \in Nat
  PROVE  Segment(GetReadSpan(r, w, max), r, Limited(DataSize(r, w), max))
<1> DEFINE size == Limited(DataSize(r, w), max)
           tail == LeastOf(Capacity - r, size)
<1>1. /\ Capacity \in Nat \ {0} /\ r \in Nat /\ w \in Nat /\ r < Capacity /\ w < Capacity
      /\ DataSize(r, w) \in Nat
  BY SizesAre
<1>2. size \in Nat /\ size <= DataSize(r, w)
  BY <1>1, LimitIs
<1> HIDE DEF size
<1>3. CASE size = 0
  <2>1. GetReadSpan(r, w, max) = <<>>
    BY <1>3 DEF GetReadSpan, size
  <2> QED  BY <1>3, <2>1 DEF Segment, size
<1>4. CASE size > 0 /\ w >= r
  <2>1. GetReadSpan(r, w, max) = <<<<r, size>>>>
    BY <1>2, <1>4 DEF GetReadSpan, size
  <2>2. r + size <= Capacity
    BY <1>1, <1>2, <1>4 DEF DataSize
  <2> QED  BY <1>4, <2>1, <2>2 DEF Segment, size
<1>5. CASE size > 0 /\ ~ (w >= r)
  <2>1. DataSize(r, w) = Capacity - r + w
    BY <1>5 DEF DataSize
  <2>2. GetReadSpan(r, w, max) = Span(r, tail) \o Span(0, LeastOf(w, size - tail))
    BY <1>2, <1>5 DEF GetReadSpan, size
  <2>3. CASE r + size <= Capacity
    <3>1. tail = size /\ ~ (LeastOf(w, size - tail) > 0)
      BY <1>1, <1>2, <1>5, <2>3 DEF LeastOf
    <3>2. Span(r, tail) = <<<<r, size>>>> /\ Span(0, LeastOf(w, size - tail)) = <<>>
      BY <1>5, <3>1 DEF Span
    <3>3. GetReadSpan(r, w, max) = <<<<r, size>>>>
      BY <2>2, <3>2, SmallConcats
    <3> QED  BY <1>5, <2>3, <3>3 DEF Segment, size
  <2>4. CASE r + size > Capacity
    <3>1. tail = Capacity - r /\ LeastOf(w, size - tail) = size - (Capacity - r)
      BY <1>1, <1>2, <1>5, <2>1, <2>4 DEF LeastOf
    <3>2. Capacity - r > 0 /\ size - (Capacity - r) > 0
      BY <1>1, <1>2, <2>4
    <3>3. /\ Span(r, tail) = <<<<r, Capacity - r>>>>
          /\ Span(0, LeastOf(w, size - tail)) = <<<<0, size - (Capacity - r)>>>>
      BY <3>1, <3>2 DEF Span
    <3>4. GetReadSpan(r, w, max) = <<<<r, Capacity - r>>, <<0, size - (Capacity - r)>>>>
      BY <2>2, <3>3, SmallConcats
    <3> QED  BY <2>4, <3>4 DEF Segment, size
  <2> QED  BY <1>1, <1>2, <2>3, <2>4
<1> QED  BY <1>2, <1>3, <1>4, <1>5

LEMMA CopyNothing ==
  ASSUME NEW buf, buf = [c \in Cells |-> buf[c]], NEW at \in Nat
  PROVE  CopyIn(buf, at, <<>>) = buf
<1>1. at..(at + Len(<<>>) - 1) = {}
  OBVIOUS
<1>2. CopyIn(buf, at, <<>>) = [c \in Cells |-> buf[c]]
  BY <1>1 DEF CopyIn
<1> QED  BY <1>2

(* WSARecv fills the spans of a segment as Write would have done.             *)
LEMMA ScatterIs ==
  ASSUME NEW S, NEW buf \in [Cells -> S], NEW p \in Cells, NEW T \in 0..Capacity, NEW s,
         Segment(s, p, T), NEW data \in Seq(S), Len(data) <= T
  PROVE  Scatter(buf, s, data) = Store(buf, p, data)
<1> DEFINE n == Len(data)
           first == LeastOf(Capacity - p, n)
           filled == CopyIn(buf, p, SubSeq(data, 1, first))
           rest == SubSeq(data, first + 1, n)
<1>1. /\ Capacity \in Nat \ {0} /\ p \in Nat /\ p < Capacity /\ T \in Nat /\ T <= Capacity
      /\ n \in Nat /\ n <= T
  BY CapacityAssumption DEF Cells
<1>2. Store(buf, p, data) = CopyIn(filled, 0, rest)
  BY DEF Store
<1>3. filled = [c \in Cells |-> filled[c]]
  BY DEF CopyIn
<1>4. CASE n = 0
  <2>1. data = <<>> /\ first = 0
    BY <1>1, <1>4 DEF LeastOf
  <2>2. SubSeq(data, 1, first) = <<>> /\ rest = <<>>
    BY <2>1
  <2>3. buf = [c \in Cells |-> buf[c]]
    OBVIOUS
  <2>4. filled = buf
    BY <1>1, <2>2, <2>3, CopyNothing
  <2>5. Store(buf, p, data) = buf
    BY <1>2, <2>2, <2>3, <2>4, CopyNothing
  <2>6. (IF s = <<>> THEN 0 ELSE LeastOf(s[1][2], n)) = 0
    <3>1. CASE s = <<>>
      BY <3>1
    <3>2. CASE s # <<>>
      <4>1. s[1][2] \in Nat
        BY <1>1, <3>2 DEF Segment
      <4> QED  BY <1>4, <3>2, <4>1 DEF LeastOf
    <3> QED  BY <3>1, <3>2
  <2> QED  BY <2>5, <2>6 DEF Scatter
<1>5. CASE n > 0
  <2>1. s # <<>> /\ s[1][1] = p /\ LeastOf(s[1][2], n) = first /\ first > 0
    <3>1. CASE p + T <= Capacity /\ s = <<<<p, T>>>>
      <4>1. s # <<>> /\ s[1][1] = p /\ s[1][2] = T
        BY <3>1
      <4> QED  BY <1>1, <1>5, <3>1, <4>1 DEF LeastOf
    <3>2. CASE s = <<<<p, Capacity - p>>, <<0, T - (Capacity - p)>>>>
      <4>1. s # <<>> /\ s[1][1] = p /\ s[1][2] = Capacity - p
        BY <3>2
      <4> QED  BY <1>1, <1>5, <4>1 DEF LeastOf
    <3> QED  BY <1>1, <1>5, <3>1, <3>2 DEF Segment
  <2>2. rest # <<>> => s[2][1] = 0
    <3>1. SUFFICES ASSUME rest # <<>> PROVE s[2][1] = 0
      OBVIOUS
    <3>2. first < n
      <4>1. first \in Nat /\ (first >= n => rest = <<>>)
        BY <1>1 DEF LeastOf
      <4> QED  BY <1>1, <3>1, <4>1
    <3>3. p + T > Capacity
      BY <1>1, <3>2 DEF LeastOf
    <3>4. s = <<<<p, Capacity - p>>, <<0, T - (Capacity - p)>>>>
      BY <1>1, <1>5, <3>3 DEF Segment
    <3> QED  BY <3>4
  <2>3. Scatter(buf, s, data) = IF rest = <<>> THEN filled ELSE CopyIn(filled, s[2][1], rest)
    BY <2>1 DEF Scatter
  <2>4. CopyIn(filled, 0, <<>>) = filled
    <3> HIDE DEF filled
    <3> QED  BY <1>3, CopyNothing
  <2>5. CASE rest = <<>>
    BY <1>2, <2>3, <2>4, <2>5
  <2>6. CASE rest # <<>>
    BY <1>2, <2>2, <2>3, <2>6
  <2> QED  BY <2>5, <2>6
<1> QED  BY <1>1, <1>4, <1>5

(* What lies in a segment, read span by span, is what Peek copies.            *)
LEMMA GatherIs ==
  ASSUME NEW S, NEW buf \in [Cells -> S], NEW p \in Cells, NEW T \in 0..Capacity, NEW s,
         Segment(s, p, T)
  PROVE  Gather(buf, s) = Load(buf, p, T)
<1>1. Capacity \in Nat \ {0} /\ p \in Nat /\ p < Capacity /\ T \in Nat /\ T <= Capacity
  BY CapacityAssumption DEF Cells
<1>2. \A at : CopyOut(buf, at, 0) = <<>>
  BY DEF CopyOut
<1>3. CASE T = 0 /\ s = <<>>
  <2>1. LeastOf(Capacity - p, T) = 0 /\ T - LeastOf(Capacity - p, T) = 0
    <3>1. T = 0 /\ ~ (Capacity - p < 0)
      BY <1>1, <1>3
    <3>2. LeastOf(Capacity - p, T) = 0
      BY <3>1 DEF LeastOf
    <3> QED  BY <3>1, <3>2
  <2>2. Load(buf, p, T) = <<>> \o <<>>
    BY <1>2, <2>1 DEF Load
  <2>3. <<>> \o <<>> = <<>>
    OBVIOUS
  <2> QED  BY <1>3, <2>2, <2>3 DEF Gather
<1>4. CASE T > 0 /\ p + T <= Capacity /\ s = <<<<p, T>>>>
  <2>1. LeastOf(Capacity - p, T) = T /\ T - LeastOf(Capacity - p, T) = 0
    BY <1>1, <1>4 DEF LeastOf
  <2>2. Load(buf, p, T) = CopyOut(buf, p, T) \o <<>>
    BY <1>2, <2>1 DEF Load
  <2>3. s # <<>> /\ s[1][1] = p /\ s[1][2] = T /\ Len(s) = 1
    BY <1>4
  <2>4. Gather(buf, s) = CopyOut(buf, p, T) \o <<>>
    BY <2>3 DEF Gather
  <2> QED  BY <2>2, <2>4
<1>5. CASE p + T > Capacity /\ s = <<<<p, Capacity - p>>, <<0, T - (Capacity - p)>>>>
  <2>1. LeastOf(Capacity - p, T) = Capacity - p
    BY <1>1, <1>5 DEF LeastOf
  <2>2. /\ s # <<>> /\ s[1][1] = p /\ s[1][2] = Capacity - p /\ Len(s) = 2
        /\ s[2][1] = 0 /\ s[2][2] = T - (Capacity - p)
    BY <1>5
  <2> QED  BY <2>1, <2>2 DEF Gather, Load
<1> QED  BY <1>3, <1>4, <1>5 DEF Segment

(* Writing puts its bytes behind what is unread; reading takes the first.     *)
LEMMA LoadAfterStore ==
  ASSUME NEW S, NEW buf \in [Cells -> S], NEW r \in Cells, NEW w \in Cells,
         NEW data \in Seq(S), Len(data) <= FreeSize(r, w)
  PROVE  /\ Load(buf, r, DataSize(r, w)) \in Seq(S)
         /\ Len(Load(buf, r, DataSize(r, w))) = DataSize(r, w)
         /\ Load(Store(buf, w, data), r, DataSize(r, w) + Len(data))
              = Load(buf, r, DataSize(r, w)) \o data
<1> DEFINE D == DataSize(r, w)
           n == Len(data)
           new == Store(buf, w, data)
           u == Load(new, r, D + n)
           v == Load(buf, r, D)
<1>0. buf \in [Cells -> S] /\ r \in Cells
  OBVIOUS
<1>1. /\ D \in Nat /\ n \in Nat /\ D + n <= Capacity - 1 /\ n <= Capacity /\ w = Advance(r, D)
      /\ Capacity \in Nat \ {0}
  BY SizesAre, SMTT(30)
<1> HIDE DEF D
<1>2. /\ new \in [Cells -> S]
      /\ \A k \in 0..(Capacity - 1) :
           new[Advance(w, k)] = IF k < n THEN data[k + 1] ELSE buf[Advance(w, k)]
  BY <1>1, StoreIs
<1> HIDE DEF new
<1>3. u = [k \in 1..(D + n) |-> new[Advance(r, k - 1)]]
  <2>1. D + n \in 0..Capacity
    BY <1>1
  <2> QED  BY <1>2, <2>1, LoadIs
<1>4. v = [k \in 1..D |-> buf[Advance(r, k - 1)]]
  <2>1. PICK m \in 0..Capacity : m = D
    BY <1>1
  <2>2. Load(buf, r, m) = [k \in 1..m |-> buf[Advance(r, k - 1)]]
    BY <1>0, LoadIs, ZenonT(30)
  <2> QED  BY <2>1, <2>2
<1>5. \A k \in 1..(D + n) : Advance(r, k - 1) \in Cells
  <2>1. ASSUME NEW k \in 1..(D + n) PROVE Advance(r, k - 1) \in Cells
    <3>1. k - 1 \in 0..Capacity
      BY <1>1
    <3> QED  BY <3>1, AdvanceIs
  <2> QED  BY <2>1
<1> HIDE DEF u, v
<1>6. u \in Seq(S) /\ Len(u) = D + n
  <2>1. \A k \in 1..(D + n) : new[Advance(r, k - 1)] \in S
    BY <1>2, <1>5
  <2> QED  BY <1>1, <1>3, <2>1
<1>7. v \in Seq(S) /\ Len(v) = D
  <2>1. ASSUME NEW k \in 1..D PROVE buf[Advance(r, k - 1)] \in S
    <3>1. k \in 1..(D + n)
      BY <1>1
    <3>2. Advance(r, k - 1) \in Cells
      BY <1>5, <3>1
    <3> QED  BY <3>2
  <2> QED  BY <1>1, <1>4, <2>1
<1>8. ASSUME NEW k \in 1..D PROVE u[k] = v[k]
  <2>1. PICK j \in 0..(Capacity - 1) : Advance(r, k - 1) = Advance(w, j)
    <3>1. k \in 1..(D + n)
      BY <1>1
    <3>2. Advance(r, k - 1) \in Cells
      BY <1>5, <3>1
    <3> QED  BY <3>2, Distance
  <2>2. ~ (j < n)
    <3>1. SUFFICES ASSUME j < n PROVE FALSE
      OBVIOUS
    <3>2. Advance(w, j) = Advance(r, D + j)
      <4>1. D + j <= Capacity /\ j \in Nat
        BY <1>1, <3>1
      <4> QED  BY <1>1, <4>1, AdvanceTwice
    <3>3. D + j \in 0..(Capacity - 1) /\ k - 1 \in 0..(Capacity - 1) /\ D + j # k - 1
      BY <1>1, <3>1
    <3>4. Advance(r, k - 1) # Advance(r, D + j)
      BY <3>3, Distance
    <3> QED  BY <2>1, <3>2, <3>4
  <2>3. new[Advance(r, k - 1)] = buf[Advance(r, k - 1)]
    BY <1>2, <2>1, <2>2
  <2>4. k \in 1..(D + n)
    BY <1>1
  <2> QED  BY <1>3, <1>4, <2>3, <2>4
<1>9. ASSUME NEW k \in 1..n PROVE u[D + k] = data[k]
  <2>1. /\ k - 1 \in Nat /\ D + (k - 1) <= Capacity /\ (D + k) - 1 = D + (k - 1)
        /\ D + k \in 1..(D + n) /\ k - 1 \in 0..(Capacity - 1) /\ k - 1 < n /\ (k - 1) + 1 = k
    BY <1>1
  <2>2. Advance(r, D + (k - 1)) = Advance(w, k - 1)
    BY <1>1, <2>1, AdvanceTwice
  <2>3. new[Advance(w, k - 1)] = data[k]
    BY <1>2, <2>1
  <2> QED  BY <1>3, <2>1, <2>2, <2>3
<1>10. u = v \o data
  <2>1. Len(u) = Len(v) + Len(data) /\ Len(v) = D
    BY <1>6, <1>7
  <2>2. \A k \in 1..Len(v) : u[k] = v[k]
    BY <1>8, <2>1
  <2>3. \A k \in 1..Len(data) : u[Len(v) + k] = data[k]
    BY <1>9, <2>1
  <2> QED  BY <1>6, <1>7, <2>1, <2>2, <2>3, ConcatIs
<1> QED  BY <1>7, <1>10 DEF u, v, new, D

LEMMA LoadIsAll ==
  \A S : \A buf \in [Cells -> S], r \in Cells, n \in 0..Capacity :
    Load(buf, r, n) = [k \in 1..n |-> buf[Advance(r, k - 1)]]
BY LoadIs

LEMMA LoadParts ==
  ASSUME NEW S, NEW buf \in [Cells -> S], NEW r \in Cells, NEW m \in 0..Capacity, NEW n \in 0..m
  PROVE  /\ Load(buf, r, m) \in Seq(S) /\ Len(Load(buf, r, m)) = m
         /\ Load(buf, r, n) = SubSeq(Load(buf, r, m), 1, n)
         /\ Load(buf, Advance(r, n), m - n) = SubSeq(Load(buf, r, m), n + 1, m)
<1> DEFINE u == Load(buf, r, m)
           q == Advance(r, n)
<1>0. buf \in [Cells -> S] /\ r \in Cells
  OBVIOUS
<1>1. Capacity \in Nat \ {0} /\ m \in Nat /\ n \in Nat /\ n <= m /\ m <= Capacity
      /\ n \in 0..Capacity /\ m - n \in 0..Capacity
  BY CapacityAssumption
<1>2. u = [k \in 1..m |-> buf[Advance(r, k - 1)]]
  BY LoadIs
<1>3. Load(buf, r, n) = [k \in 1..n |-> buf[Advance(r, k - 1)]]
  <2>1. PICK l \in 0..Capacity : l = n
    BY <1>1
  <2>2. Load(buf, r, l) = [k \in 1..l |-> buf[Advance(r, k - 1)]]
    BY <1>0, LoadIs, SMTT(30)
  <2> QED  BY <2>1, <2>2
<1>4. q \in Cells
  BY <1>1, AdvanceIs
<1>5. Load(buf, q, m - n) = [k \in 1..(m - n) |-> buf[Advance(q, k - 1)]]
  <2> HIDE DEF q
  <2>1. \A p \in Cells, l \in 0..Capacity :
          Load(buf, p, l) = [k \in 1..l |-> buf[Advance(p, k - 1)]]
    BY <1>0, LoadIsAll
  <2> QED  BY <1>1, <1>4, <2>1
<1>6. u \in Seq(S) /\ Len(u) = m
  <2>1. ASSUME NEW k \in 1..m PROVE buf[Advance(r, k - 1)] \in S
    <3>1. k - 1 \in 0..Capacity
      BY <1>1
    <3> QED  BY <3>1, AdvanceIs
  <2> QED  BY <1>1, <1>2, <2>1
<1>7. SubSeq(u, 1, n) = [k \in 1..n |-> u[k]]
  BY <1>1, <1>6
<1>8. Load(buf, r, n) = SubSeq(u, 1, n)
  BY <1>1, <1>2, <1>3, <1>7
<1>9. SubSeq(u, n + 1, m) = [k \in 1..(m - n) |-> u[n + k]]
  <2> HIDE DEF u
  <2>1. /\ SubSeq(u, n + 1, Len(u)) \in Seq(S) /\ Len(SubSeq(u, n + 1, Len(u))) = Len(u) - n
        /\ \A k \in 1..(Len(u) - n) : SubSeq(u, n + 1, Len(u))[k] = u[n + k]
    <3>1. n \in 0..Len(u)
      BY <1>1, <1>6
    <3> QED  BY <1>6, <3>1, CutSeq
  <2> QED  BY <1>6, <2>1
<1>10. ASSUME NEW k \in 1..(m - n) PROVE buf[Advance(q, k - 1)] = u[n + k]
  <2>1. /\ k - 1 \in Nat /\ n + (k - 1) <= Capacity /\ n + k \in 1..m /\ (n + k) - 1 = n + (k - 1)
    BY <1>1
  <2>2. Advance(q, k - 1) = Advance(r, n + (k - 1))
    BY <1>1, <2>1, AdvanceTwice
  <2> QED  BY <1>2, <2>1, <2>2
<1>11. Load(buf, q, m - n) = SubSeq(u, n + 1, m)
  BY <1>5, <1>9, <1>10
<1> QED  BY <1>6, <1>8, <1>11

(* The same facts with their variables quantified.                            *)
LEMMA LoadPartsAll ==
  \A S : \A buf \in [Cells -> S], r \in Cells, m \in 0..Capacity : \A n \in 0..m :
    /\ Load(buf, r, m) \in Seq(S) /\ Len(Load(buf, r, m)) = m
    /\ Load(buf, r, n) = SubSeq(Load(buf, r, m), 1, n)
    /\ Load(buf, Advance(r, n), m - n) = SubSeq(Load(buf, r, m), n + 1, m)
BY LoadParts

LEMMA LimitIsAll ==
  \A n, max \in Nat : /\ Limited(n, max) \in Nat /\ Limited(n, max) <= n
                      /\ Limited(n, max) = IF max > 0 /\ max < n THEN max ELSE n
BY LimitIs
==============================================================================
