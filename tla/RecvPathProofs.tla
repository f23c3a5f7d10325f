---------------------------- MODULE RecvPathProofs ----------------------------
(* Proofs about the receive path, for any capacity, sizes and numbers of      *)
(* packets, however the bytes arrive.                                         *)
EXTENDS RecvPath, RingFacts, TLAPS

(* The byte behind another one, and a run of bytes from the begin of packet   *)
(* k + 1 to the end of the last one, when the packets have these sizes.       *)
FollowIn(byte, sizes) == IF byte[2] = WireSize(sizes[byte[1]]) THEN <<byte[1] + 1, 1>>
                                                               ELSE <<byte[1], byte[2] + 1>>
IsStream(s, k, sizes) ==
  /\ \A i \in 1..Len(s) : s[i] = IF i = 1 THEN <<k + 1, 1>> ELSE FollowIn(s[i - 1], sizes)
  /\ IF s = <<>> THEN k = Len(sizes) ELSE FollowIn(s[Len(s)], sizes) = <<Len(sizes) + 1, 1>>
  /\ \A i \in 1..Len(s) : s[i][1] \in 1..Len(sizes)

Unread == Load(buffer, readPos, DataSize(readPos, writePos))

TypePart ==
  /\ buffer \in [Cells -> SomeBytes] /\ readPos \in Cells /\ writePos \in Cells
  /\ connected \in BOOLEAN /\ cause \in Causes /\ (connected <=> cause = "none")
  /\ pc \in {"register", "posted", "recv", "onrecv", "off"}
  /\ got \in 0..(Capacity - 1)
  /\ packetData \in Seq(SomeBytes) /\ processedLen \in 0..Len(packetData)
  /\ network \in Seq(SomeBytes)
  /\ sent \in Seq(PacketSizes) /\ Len(sent) <= MaxPackets

ChainPart ==
  /\ spans = IF pc = "posted" THEN GetWriteSpan(readPos, writePos, 0) ELSE <<>>
  /\ got <= FreeSize(readPos, writePos) /\ (pc # "recv" => got = 0)
  /\ IF pc = "onrecv" THEN packetData = Unread ELSE packetData = <<>> /\ processedLen = 0
  /\ connected => pc # "off"

StreamPart == pc # "off" => IsStream(UnreadBytes \o network, Len(seen), sent)

SeenPart ==
  /\ seen \in Seq(Seq(SomeBytes)) /\ Len(seen) <= Len(sent)
  /\ \A k \in 1..Len(seen) : seen[k] = PacketBytes(k, sent[k])

LeftPart == pc \in {"register", "posted"} /\ Len(Unread) >= HeaderSize
              => Len(Unread) < sent[Unread[1][1]]

RecvInv == TypePart /\ ChainPart /\ StreamPart /\ SeenPart /\ LeftPart

LEMMA WireSizeType == \A n \in Nat : WireSize(n) \in Nat \ {0} /\ HeaderSize <= WireSize(n)
BY PacketAssumption DEF WireSize

LEMMA PacketBytesType ==
  ASSUME NEW k \in 1..MaxPackets, NEW size \in Nat
  PROVE  /\ PacketBytes(k, size) \in Seq(SomeBytes) /\ Len(PacketBytes(k, size)) = WireSize(size)
         /\ PacketBytes(k, size) # <<>>
         /\ \A i \in 1..WireSize(size) : PacketBytes(k, size)[i] = <<k, i>>
<1>1. WireSize(size) \in Nat \ {0} /\ MaxPackets \in Nat
  BY WireSizeType, PacketAssumption
<1>2. \A i \in 1..WireSize(size) : <<k, i>> \in SomeBytes
  BY <1>1 DEF SomeBytes
<1>3. PacketBytes(k, size) = [i \in 1..WireSize(size) |-> <<k, i>>]
  BY DEF PacketBytes
<1>4. PacketBytes(k, size) \in Seq(SomeBytes) /\ Len(PacketBytes(k, size)) = WireSize(size)
  BY <1>1, <1>2, <1>3
<1> QED  BY <1>1, <1>3, <1>4

(* The first bytes of a stream are those of its first packet.                 *)
LEMMA StreamRun ==
  ASSUME NEW sizes \in Seq(Nat), NEW s \in Seq(SomeBytes), NEW k \in Nat,
         IsStream(s, k, sizes), s # <<>>
  PROVE  /\ k + 1 \in 1..Len(sizes) /\ WireSize(sizes[k + 1]) \in Nat \ {0}
         /\ \A i \in 1..Len(s) : i <= WireSize(sizes[k + 1]) => s[i] = <<k + 1, i>>
<1> DEFINE W == WireSize(sizes[k + 1])
<1>1. Len(s) \in Nat \ {0} /\ s[1] = <<k + 1, 1>> /\ s[1][1] \in 1..Len(sizes)
  <2>1. Len(s) \in Nat \ {0} /\ 1 \in 1..Len(s)
    OBVIOUS
  <2> QED  BY <2>1 DEF IsStream
<1>2. k + 1 \in 1..Len(sizes)
  BY <1>1
<1>3. W \in Nat \ {0}
  <2>1. sizes[k + 1] \in Nat
    BY <1>2
  <2> QED  BY <2>1, WireSizeType
<1> HIDE DEF W
<1> DEFINE T == {n \in Nat : n \in 1..Len(s) /\ n <= W => s[n] = <<k + 1, n>>}
<1>4. 0 \in T
  BY <1>1
<1>5. ASSUME NEW n \in Nat, n \in T PROVE n + 1 \in T
  <2>1. SUFFICES ASSUME n + 1 \in 1..Len(s), n + 1 <= W PROVE s[n + 1] = <<k + 1, n + 1>>
    OBVIOUS
  <2>2. CASE n = 0
    BY <1>1, <2>2
  <2>3. CASE n # 0
    <3>1. n \in 1..Len(s) /\ n <= W /\ n # W /\ n + 1 # 1 /\ (n + 1) - 1 = n
      BY <1>1, <1>3, <2>1, <2>3
    <3>2. s[n] = <<k + 1, n>>
      BY <1>5, <3>1
    <3>3. s[n + 1] = FollowIn(s[n], sizes)
      BY <2>1, <3>1 DEF IsStream
    <3>4. FollowIn(<<k + 1, n>>, sizes) = <<k + 1, n + 1>>
      BY <3>1 DEF FollowIn, W
    <3> QED  BY <3>2, <3>3, <3>4
  <2> QED  BY <2>2, <2>3
<1> HIDE DEF T
<1>6. Nat \subseteq T
  BY <1>4, <1>5, InductionSet
<1>7. \A i \in 1..Len(s) : i <= W => s[i] = <<k + 1, i>>
  BY <1>6 DEF T
<1> QED  BY <1>2, <1>3, <1>7 DEF W

(* Without its first packet a stream begins with the next one.                *)
LEMMA StreamDrop ==
  ASSUME NEW sizes \in Seq(Nat), NEW s \in Seq(SomeBytes), NEW k \in Nat,
         IsStream(s, k, sizes), s # <<>>, WireSize(sizes[k + 1]) <= Len(s)
  PROVE  IsStream(SubSeq(s, WireSize(sizes[k + 1]) + 1, Len(s)), k + 1, sizes)
<1>1. /\ k + 1 \in 1..Len(sizes) /\ WireSize(sizes[k + 1]) \in Nat \ {0}
      /\ \A i \in 1..Len(s) : i <= WireSize(sizes[k + 1]) => s[i] = <<k + 1, i>>
  BY StreamRun
<1>2. PICK W \in Nat \ {0} : W = WireSize(sizes[k + 1])
  BY <1>1
<1>3. PICK t : t = SubSeq(s, W + 1, Len(s))
  OBVIOUS
<1>4. W <= Len(s) /\ Len(s) \in Nat /\ W \in 0..Len(s)
  BY <1>2
<1>5. /\ t \in Seq(SomeBytes) /\ Len(t) = Len(s) - W
      /\ \A i \in 1..(Len(s) - W) : t[i] = s[W + i]
  BY <1>3, <1>4, CutSeq
<1>6. FollowIn(s[W], sizes) = <<k + 2, 1>>
  <2>1. W \in 1..Len(s) /\ W <= W
    BY <1>4
  <2>2. s[W] = <<k + 1, W>>
    BY <1>1, <1>2, <2>1
  <2>3. FollowIn(<<k + 1, W>>, sizes) = <<(k + 1) + 1, 1>>
    BY <1>2 DEF FollowIn
  <2> QED  BY <2>2, <2>3
<1>7. ASSUME NEW i \in 1..Len(t)
      PROVE  /\ t[i] = IF i = 1 THEN <<k + 2, 1>> ELSE FollowIn(t[i - 1], sizes)
             /\ t[i][1] \in 1..Len(sizes)
  <2>1. /\ i \in Nat \ {0} /\ W + i \in 1..Len(s) /\ W + i # 1 /\ (W + i) - 1 = W + (i - 1)
        /\ t[i] = s[W + i]
    BY <1>4, <1>5
  <2>2. s[W + i] = FollowIn(s[W + (i - 1)], sizes) /\ s[W + i][1] \in 1..Len(sizes)
    BY <2>1 DEF IsStream
  <2>3. CASE i = 1
    BY <1>6, <2>1, <2>2, <2>3
  <2>4. CASE i # 1
    <3>1. i - 1 \in 1..(Len(s) - W)
      BY <1>4, <1>5, <2>1, <2>4
    <3> QED  BY <1>5, <2>1, <2>2, <2>4, <3>1
  <2> QED  BY <2>3, <2>4
<1> DEFINE Rows == \A i \in 1..Len(t) :
                     /\ t[i] = IF i = 1 THEN <<(k + 1) + 1, 1>> ELSE FollowIn(t[i - 1], sizes)
                     /\ t[i][1] \in 1..Len(sizes)
<1>8. Rows
  <2>1. (k + 1) + 1 = k + 2
    OBVIOUS
  <2> QED  BY <1>7, <2>1
<1>9. FollowIn(s[Len(s)], sizes) = <<Len(sizes) + 1, 1>>
  BY DEF IsStream
<1>10. CASE t = <<>>
  <2>1. Len(s) = W
    BY <1>4, <1>5, <1>10
  <2>2. k + 1 = Len(sizes)
    <3>1. <<k + 2, 1>> = <<Len(sizes) + 1, 1>>
      BY <1>6, <1>9, <2>1
    <3>2. k + 2 = Len(sizes) + 1
      BY <3>1
    <3> QED  BY <3>2
  <2> QED  BY <1>2, <1>3, <1>8, <1>10, <2>2 DEF IsStream
<1>11. CASE t # <<>>
  <2>1. Len(t) \in 1..(Len(s) - W) /\ W + Len(t) = Len(s)
    BY <1>4, <1>5, <1>11
  <2>2. FollowIn(t[Len(t)], sizes) = <<Len(sizes) + 1, 1>>
    BY <1>5, <1>9, <2>1
  <2> QED  BY <1>2, <1>3, <1>8, <1>11, <2>2 DEF IsStream
<1> QED  BY <1>10, <1>11

(* A packet sent extends a stream.                                            *)
LEMMA StreamExtend ==
  ASSUME NEW sizes \in Seq(Nat), NEW s \in Seq(SomeBytes), NEW k \in Nat,
         IsStream(s, k, sizes), NEW size \in Nat, Len(sizes) < MaxPackets
  PROVE  IsStream(s \o PacketBytes(Len(sizes) + 1, size), k, Append(sizes, size))
<1> DEFINE W == WireSize(size)
           more == Append(sizes, size)
<1>1. PICK n \in Nat : n = Len(sizes)
  OBVIOUS
<1>2. W \in Nat \ {0} /\ n + 1 \in 1..MaxPackets
  <2>1. W \in Nat \ {0}
    BY WireSizeType
  <2>2. n < MaxPackets /\ MaxPackets \in Nat
    BY <1>1, PacketAssumption
  <2> QED  BY <2>1, <2>2
<1>3. PICK b : b = PacketBytes(n + 1, size)
  OBVIOUS
<1>4. /\ b \in Seq(SomeBytes) /\ Len(b) = W /\ b # <<>>
      /\ \A i \in 1..W : b[i] = <<n + 1, i>>
  BY <1>2, <1>3, PacketBytesType
<1> HIDE DEF W
<1>5. PICK t : t = s \o b
  OBVIOUS
<1>6. /\ t \in Seq(SomeBytes) /\ Len(t) = Len(s) + W /\ t # <<>> /\ Len(s) \in Nat
      /\ \A i \in 1..Len(s) : t[i] = s[i]
      /\ \A i \in 1..W : t[Len(s) + i] = b[i]
  <2>1. /\ t \in Seq(SomeBytes) /\ Len(t) = Len(s) + Len(b) /\ Len(s) \in Nat
        /\ \A i \in 1..Len(s) : t[i] = s[i]
        /\ \A i \in 1..Len(b) : t[Len(s) + i] = b[i]
    <3>1. s \in Seq(SomeBytes)
      OBVIOUS
    <3>2. /\ s \o b \in Seq(SomeBytes) /\ Len(s \o b) = Len(s) + Len(b) /\ Len(s) \in Nat
          /\ \A i \in 1..Len(s) : (s \o b)[i] = s[i]
      BY <1>4, <3>1
    <3>3. \A i \in 1..Len(b) : (s \o b)[Len(s) + i] = b[i]
      BY <1>4, <3>1
    <3> QED  BY <1>5, <3>2, <3>3
  <2>2. Len(t) # 0
    BY <1>2, <1>4, <2>1
  <2> QED  BY <1>4, <2>1, <2>2
<1>7. /\ more \in Seq(Nat) /\ Len(more) = n + 1 /\ more[n + 1] = size
      /\ \A i \in 1..n : more[i] = sizes[i]
  BY <1>1, AppendProperties
<1> HIDE DEF more
<1>8. ASSUME NEW byte, byte[1] \in 1..n PROVE FollowIn(byte, more) = FollowIn(byte, sizes)
  BY <1>7, <1>8 DEF FollowIn
<1>9. \A i \in 1..Len(s) : s[i][1] \in 1..n
  BY <1>1 DEF IsStream
<1>10. ASSUME NEW i \in 1..Len(s)
       PROVE  t[i] = IF i = 1 THEN <<k + 1, 1>> ELSE FollowIn(t[i - 1], more)
  <2>1. t[i] = s[i] /\ s[i] = IF i = 1 THEN <<k + 1, 1>> ELSE FollowIn(s[i - 1], sizes)
    BY <1>6 DEF IsStream
  <2>2. CASE i = 1
    BY <2>1, <2>2
  <2>3. CASE i # 1
    <3>1. i - 1 \in 1..Len(s)
      BY <1>6, <2>3
    <3>2. t[i - 1] = s[i - 1] /\ FollowIn(s[i - 1], more) = FollowIn(s[i - 1], sizes)
      BY <1>6, <1>8, <1>9, <3>1
    <3> QED  BY <2>1, <2>3, <3>2
  <2> QED  BY <2>2, <2>3
<1>11. ASSUME NEW i \in 1..W
       PROVE  t[Len(s) + i] = IF Len(s) + i = 1 THEN <<k + 1, 1>> ELSE FollowIn(t[Len(s) + i - 1], more)
  <2>1. t[Len(s) + i] = <<n + 1, i>> /\ i \in Nat \ {0}
    BY <1>2, <1>4, <1>6
  <2>2. CASE i # 1
    <3>1. /\ i - 1 \in 1..W /\ i - 1 # W /\ Len(s) + i - 1 = Len(s) + (i - 1) /\ Len(s) + i # 1
          /\ (i - 1) + 1 = i
      BY <1>2, <1>6, <2>1, <2>2
    <3>2. t[Len(s) + (i - 1)] = <<n + 1, i - 1>>
      BY <1>4, <1>6, <3>1
    <3>3. FollowIn(<<n + 1, i - 1>>, more) = <<n + 1, i>>
      BY <1>7, <3>1 DEF FollowIn, W
    <3> QED  BY <2>1, <3>1, <3>2, <3>3
  <2>3. CASE i = 1 /\ s = <<>>
    <3>1. Len(s) = 0 /\ k = n
      BY <1>1, <2>3 DEF IsStream
    <3> QED  BY <2>1, <2>3, <3>1
  <2>4. CASE i = 1 /\ s # <<>>
    <3>1. Len(s) \in 1..Len(s) /\ Len(s) + i - 1 = Len(s) /\ Len(s) + i # 1
      BY <1>6, <2>4
    <3>2. t[Len(s)] = s[Len(s)] /\ FollowIn(s[Len(s)], more) = FollowIn(s[Len(s)], sizes)
      BY <1>6, <1>8, <1>9, <3>1
    <3>3. FollowIn(s[Len(s)], sizes) = <<n + 1, 1>>
      BY <1>1, <2>4 DEF IsStream
    <3> QED  BY <2>1, <2>4, <3>1, <3>2, <3>3
  <2> QED  BY <2>2, <2>3, <2>4
<1>12. ASSUME NEW i \in 1..Len(t)
       PROVE  /\ t[i] = IF i = 1 THEN <<k + 1, 1>> ELSE FollowIn(t[i - 1], more)
              /\ t[i][1] \in 1..Len(more)
  <2>1. CASE i <= Len(s)
    <3>1. i \in 1..Len(s)
      BY <1>6, <2>1
    <3>2. t[i][1] \in 1..n
      BY <1>6, <1>9, <3>1
    <3>3. t[i][1] \in 1..Len(more)
      BY <1>7, <3>2, SMTT(30)
    <3> QED  BY <1>10, <3>1, <3>3
  <2>2. CASE i > Len(s)
    <3>1. i - Len(s) \in 1..W /\ Len(s) + (i - Len(s)) = i
      BY <1>2, <1>6, <2>2
    <3>2. t[i] = <<n + 1, i - Len(s)>>
      BY <1>4, <1>6, <3>1
    <3>3. t[i][1] \in 1..Len(more)
      BY <1>7, <3>2, SMTT(30)
    <3> QED  BY <1>11, <3>1, <3>3, SMTT(30)
  <2> QED  BY <1>6, <2>1, <2>2
<1>13. FollowIn(t[Len(t)], more) = <<Len(more) + 1, 1>>
  <2>1. W \in 1..W
    BY <1>2
  <2>2. t[Len(t)] = <<n + 1, W>>
    BY <1>4, <1>6, <2>1
  <2>3. FollowIn(<<n + 1, W>>, more) = <<(n + 1) + 1, 1>>
    BY <1>7 DEF FollowIn, W
  <2> QED  BY <1>7, <2>2, <2>3
<1>14. IsStream(t, k, more)
  BY <1>6, <1>12, <1>13 DEF IsStream
<1> QED  BY <1>1, <1>3, <1>5, <1>14 DEF more

LEMMA TailOfConcat ==
  \A S : \A a, b \in Seq(S) : \A n \in 0..Len(a) :
    SubSeq(a \o b, n + 1, Len(a \o b)) = SubSeq(a, n + 1, Len(a)) \o b
<1> SUFFICES ASSUME NEW S, NEW a \in Seq(S), NEW b \in Seq(S), NEW n \in 0..Len(a)
             PROVE  SubSeq(a \o b, n + 1, Len(a \o b)) = SubSeq(a, n + 1, Len(a)) \o b
  OBVIOUS
<1>1. PICK c : c = a \o b
  OBVIOUS
<1>2. /\ c \in Seq(S) /\ Len(c) = Len(a) + Len(b) /\ Len(a) \in Nat /\ Len(b) \in Nat /\ n \in Nat
      /\ \A i \in 1..Len(a) : c[i] = a[i]
      /\ \A i \in 1..Len(b) : c[Len(a) + i] = b[i]
  BY <1>1, ConcatProperties
<1>3. PICK u : u = SubSeq(c, n + 1, Len(c))
  OBVIOUS
<1>4. n \in 0..Len(c)
  BY <1>2
<1>5. /\ u \in Seq(S) /\ Len(u) = Len(c) - n
      /\ \A i \in 1..(Len(c) - n) : u[i] = c[n + i]
  BY <1>2, <1>3, <1>4, CutSeq
<1>6. PICK v : v = SubSeq(a, n + 1, Len(a))
  OBVIOUS
<1>7. /\ v \in Seq(S) /\ Len(v) = Len(a) - n
      /\ \A i \in 1..(Len(a) - n) : v[i] = a[n + i]
  BY <1>6, CutSeq
<1>8. ASSUME NEW i \in 1..Len(v) PROVE u[i] = v[i]
  <2>1. i \in 1..(Len(c) - n) /\ i \in 1..(Len(a) - n) /\ n + i \in 1..Len(a)
    BY <1>2, <1>7
  <2> QED  BY <1>2, <1>5, <1>7, <2>1
<1>9. ASSUME NEW i \in 1..Len(b) PROVE u[Len(v) + i] = b[i]
  <2>1. Len(v) + i \in 1..(Len(c) - n) /\ n + (Len(v) + i) = Len(a) + i
    BY <1>2, <1>7
  <2> QED  BY <1>2, <1>5, <2>1
<1>10. Len(u) = Len(v) + Len(b)
  BY <1>2, <1>5, <1>7
<1>11. u = v \o b
  BY <1>5, <1>7, <1>8, <1>9, <1>10, ConcatIs
<1> QED  BY <1>1, <1>3, <1>6, <1>11

LEMMA TailOfTail ==
  \A S : \A p \in Seq(S) : \A l \in 0..Len(p) : \A n \in 0..(Len(p) - l) :
    SubSeq(SubSeq(p, l + 1, Len(p)), n + 1, Len(p) - l) = SubSeq(p, l + n + 1, Len(p))
<1> SUFFICES ASSUME NEW S, NEW p \in Seq(S), NEW l \in 0..Len(p), NEW n \in 0..(Len(p) - l)
             PROVE  SubSeq(SubSeq(p, l + 1, Len(p)), n + 1, Len(p) - l) = SubSeq(p, l + n + 1, Len(p))
  OBVIOUS
<1>1. PICK a : a = SubSeq(p, 1, l)
  OBVIOUS
<1>2. PICK t : t = SubSeq(p, l + 1, Len(p))
  OBVIOUS
<1>3. a \in Seq(S) /\ t \in Seq(S) /\ Len(a) = l /\ Len(t) = Len(p) - l /\ p = a \o t
  BY <1>1, <1>2, CutSeq
<1>4. n \in 0..Len(t)
  BY <1>3
<1>5. SubSeq(a \o t, Len(a) + n + 1, Len(a \o t)) = SubSeq(t, n + 1, Len(t))
  BY <1>3, <1>4, CutConcat
<1> QED  BY <1>2, <1>3, <1>5

(* What the lemmas on the ring say of this buffer.                            *)
LEMMA LoadPartsHere ==
  \A b \in [Cells -> SomeBytes], r \in Cells, m \in 0..Capacity : \A n \in 0..m :
    /\ Load(b, r, m) \in Seq(SomeBytes) /\ Len(Load(b, r, m)) = m
    /\ Load(b, r, n) = SubSeq(Load(b, r, m), 1, n)
    /\ Load(b, Advance(r, n), m - n) = SubSeq(Load(b, r, m), n + 1, m)
BY LoadPartsAll

LEMMA LoadAfterStoreHere ==
  \A b \in [Cells -> SomeBytes], r, w \in Cells, data \in Seq(SomeBytes) :
    Len(data) <= FreeSize(r, w) =>
      Load(Store(b, w, data), r, DataSize(r, w) + Len(data)) = Load(b, r, DataSize(r, w)) \o data
BY LoadAfterStore

(* The facts about a state that the proofs of the steps need.                 *)
LEMMA RecvFacts ==
  ASSUME RecvInv
  PROVE  /\ TypePart /\ ChainPart /\ SeenPart
         /\ Capacity \in Nat /\ Capacity > 0 /\ HeaderSize \in Nat \ {0}
         /\ DataSize(readPos, writePos) \in Nat /\ FreeSize(readPos, writePos) \in Nat
         /\ DataSize(readPos, writePos) + FreeSize(readPos, writePos) = Capacity - 1
         /\ sent \in Seq(Nat) /\ Len(seen) \in Nat
         /\ Unread \in Seq(SomeBytes) /\ Len(Unread) = DataSize(readPos, writePos)
         /\ pc = "onrecv" => UnreadBytes = SubSeq(packetData, processedLen + 1, Len(packetData))
         /\ pc \in {"register", "posted"} => UnreadBytes = Unread
         /\ pc = "recv" => UnreadBytes = Load(buffer, readPos, DataSize(readPos, writePos) + got)
         /\ UnreadBytes \in Seq(SomeBytes)
<1> DEFINE D == DataSize(readPos, writePos)
           F == FreeSize(readPos, writePos)
<1>1. TypePart /\ ChainPart /\ SeenPart
  BY DEF RecvInv
<1>2. /\ Capacity \in Nat /\ Capacity > 0 /\ HeaderSize \in Nat \ {0} /\ PacketSizes \subseteq Nat
  BY CapacityAssumption, PacketAssumption
<1>3. buffer \in [Cells -> SomeBytes] /\ readPos \in Cells /\ writePos \in Cells
  BY <1>1 DEF TypePart
<1>4. D \in Nat /\ F \in Nat /\ D + F = Capacity - 1
  BY <1>3, SizesAre
<1>5. sent \in Seq(Nat) /\ Len(seen) \in Nat
  <2>1. sent \in Seq(PacketSizes) /\ seen \in Seq(Seq(SomeBytes))
    BY <1>1 DEF TypePart, SeenPart
  <2>2. PICK s : s = sent
    OBVIOUS
  <2>3. s \in Seq(PacketSizes)
    BY <2>1, <2>2
  <2>4. Len(s) \in Nat /\ (\A i \in 1..Len(s) : s[i] \in Nat) /\ s = [i \in 1..Len(s) |-> s[i]]
    BY <1>2, <2>3
  <2>5. [i \in 1..Len(s) |-> s[i]] \in Seq(Nat)
    BY <2>4
  <2> QED  BY <2>1, <2>2, <2>4, <2>5, SMTT(30)
<1>6. ASSUME NEW m \in 0..Capacity
      PROVE  Load(buffer, readPos, m) \in Seq(SomeBytes) /\ Len(Load(buffer, readPos, m)) = m
  <2>1. PICK b \in [Cells -> SomeBytes], r \in Cells : b = buffer /\ r = readPos
    BY <1>3
  <2>2. m \in Nat /\ m \in 0..m
    BY <1>2
  <2>3. \A i \in 0..m : Load(b, r, m) \in Seq(SomeBytes) /\ Len(Load(b, r, m)) = m
    BY LoadPartsHere
  <2> QED  BY <2>1, <2>2, <2>3
<1>7. Unread \in Seq(SomeBytes) /\ Len(Unread) = D
  <2>1. D \in 0..Capacity
    BY <1>2, <1>4
  <2> QED  BY <1>6, <2>1 DEF Unread
<1>8. pc = "onrecv" => UnreadBytes = SubSeq(packetData, processedLen + 1, Len(packetData))
  BY DEF UnreadBytes
<1>9. pc # "onrecv" => UnreadBytes = Load(buffer, readPos, D + got)
  BY DEF UnreadBytes
<1>10. pc \in {"register", "posted"} => UnreadBytes = Unread
  <2>1. ASSUME pc \in {"register", "posted"} PROVE UnreadBytes = Unread
    <3>1. got = 0 /\ pc # "onrecv"
      BY <1>1, <2>1 DEF ChainPart
    <3>2. D + got = D
      BY <1>4, <3>1
    <3> QED  BY <1>9, <3>1, <3>2 DEF Unread
  <2> QED  BY <2>1
<1>11. UnreadBytes \in Seq(SomeBytes)
  <2>1. CASE pc = "onrecv"
    <3>1. packetData \in Seq(SomeBytes) /\ processedLen \in 0..Len(packetData)
      BY <1>1 DEF TypePart
    <3> QED  BY <1>8, <2>1, <3>1, CutSeq
  <2>2. CASE pc # "onrecv"
    <3>1. D + got \in 0..Capacity
      <4>1. got \in Nat /\ got <= F
        BY <1>1, <1>2 DEF TypePart, ChainPart
      <4> QED  BY <1>2, <1>4, <4>1
    <3> QED  BY <1>6, <1>9, <2>2, <3>1
  <2> QED  BY <2>1, <2>2
<1> QED  BY <1>1, <1>2, <1>4, <1>5, <1>7, <1>8, <1>9, <1>10, <1>11

(* A step that moves bytes on, but loses and handles none.                    *)
LEMMA StreamFrame ==
  ASSUME RecvInv, pc # "off" \/ pc' = "off", UNCHANGED <<seen, sent>>,
         pc' # "off" => UnreadBytes' \o network' = UnreadBytes \o network
  PROVE  StreamPart' /\ SeenPart'
<1>1. SeenPart'
  BY DEF RecvInv, SeenPart
<1>2. ASSUME pc' # "off" PROVE IsStream(UnreadBytes' \o network', Len(seen'), sent')
  <2>1. IsStream(UnreadBytes \o network, Len(seen), sent)
    BY <1>2 DEF RecvInv, StreamPart
  <2> QED  BY <1>2, <2>1
<1> QED  BY <1>1, <1>2 DEF StreamPart

LEMMA RegisterKeeps == RecvInv /\ (\E accepted \in BOOLEAN : RegisterRecv(accepted)) => RecvInv'
<1> SUFFICES ASSUME RecvInv, NEW accepted \in BOOLEAN, RegisterRecv(accepted) PROVE RecvInv'
  OBVIOUS
<1>1. /\ TypePart /\ ChainPart /\ FreeSize(readPos, writePos) \in Nat
      /\ pc = "register" /\ UnreadBytes = Unread
  <2>1. pc = "register"
    BY DEF RegisterRecv
  <2> QED  BY <2>1, RecvFacts
<1>2. /\ UNCHANGED <<buffer, readPos, writePos, got, packetData, processedLen, network, sent, seen>>
      /\ pc' \in {"off", "posted"}
      /\ pc' = "off" => spans' = spans /\ connected' = FALSE
                        /\ cause' \in {cause, "overflow", "other"}
                        /\ (connected => cause' # "none")
      /\ pc' = "posted" => /\ spans' = GetWriteSpan(readPos, writePos, 0)
                           /\ connected' = connected /\ cause' = cause
  <2>1. UNCHANGED <<buffer, readPos, writePos, got, packetData, processedLen, network, sent, seen>>
    BY DEF RegisterRecv, ringVars, localVars, peerVars
  <2>2. connected \in BOOLEAN
    BY <1>1 DEF TypePart
  <2>3. CASE ~ connected
    BY <2>1, <2>2, <2>3 DEF RegisterRecv, connVars
  <2>4. CASE connected
    <3>1. CASE GetWriteSpan(readPos, writePos, 0) = <<>>
      BY <2>1, <2>4, <3>1 DEF RegisterRecv, Disconnect
    <3>2. CASE GetWriteSpan(readPos, writePos, 0) # <<>> /\ accepted
      BY <2>1, <2>4, <3>2 DEF RegisterRecv, connVars
    <3>3. CASE GetWriteSpan(readPos, writePos, 0) # <<>> /\ ~ accepted
      BY <2>1, <2>4, <3>3 DEF RegisterRecv, Disconnect
    <3> QED  BY <3>1, <3>2, <3>3
  <2> QED  BY <2>2, <2>3, <2>4
<1>3. Unread' = Unread
  BY <1>2 DEF Unread
<1>4. TypePart'
  <2>1. /\ connected' \in BOOLEAN /\ cause' \in Causes /\ (connected' <=> cause' = "none")
        /\ pc' \in {"register", "posted", "recv", "onrecv", "off"}
    <3>1. connected \in BOOLEAN /\ cause \in Causes /\ (connected <=> cause = "none")
      BY <1>1 DEF TypePart
    <3>2. CASE pc' = "posted"
      BY <1>2, <3>1, <3>2
    <3>3. CASE pc' = "off"
      <4>1. cause' \in Causes /\ cause' # "none"
        BY <1>2, <3>1, <3>3 DEF Causes
      <4> QED  BY <1>2, <3>3, <4>1
    <3> QED  BY <1>2, <3>2, <3>3
  <2> QED  BY <1>1, <1>2, <2>1 DEF TypePart
<1>5. ChainPart'
  <2>1. /\ spans = <<>> /\ got = 0 /\ packetData = <<>> /\ processedLen = 0
    BY <1>1 DEF ChainPart
  <2> QED  BY <1>1, <1>2, <2>1 DEF ChainPart
<1>6. StreamPart' /\ SeenPart'
  <2>1. pc' # "off" => UnreadBytes' = UnreadBytes
    BY <1>1, <1>2 DEF UnreadBytes
  <2> QED  BY <1>1, <1>2, <2>1, StreamFrame
<1>7. LeftPart'
  BY <1>1, <1>2, <1>3 DEF LeftPart, RecvInv
<1> QED  BY <1>4, <1>5, <1>6, <1>7 DEF RecvInv

LEMMA CompleteKeeps == RecvInv /\ SystemStep => RecvInv'
<1> SUFFICES ASSUME RecvInv, NEW n \in 0..Capacity, RecvComplete(n) PROVE RecvInv'
  BY DEF SystemStep
<1> DEFINE D == DataSize(readPos, writePos)
           F == FreeSize(readPos, writePos)
           first == SubSeq(network, 1, n)
           later == SubSeq(network, n + 1, Len(network))
<1>1. /\ pc = "posted" /\ pc' = "recv" /\ n <= Len(network) /\ n <= SpanTotal(spans)
      /\ buffer' = Scatter(buffer, spans, first) /\ network' = later
      /\ got' = n /\ spans' = <<>>
      /\ UNCHANGED <<readPos, writePos, connected, cause, packetData, processedLen, sent, seen>>
  BY DEF RecvComplete, connVars, localVars
<1>2. /\ TypePart /\ ChainPart /\ D \in Nat /\ F \in Nat /\ D + F = Capacity - 1 /\ Capacity \in Nat
      /\ Unread \in Seq(SomeBytes) /\ UnreadBytes = Unread
      /\ buffer \in [Cells -> SomeBytes] /\ readPos \in Cells /\ writePos \in Cells
      /\ network \in Seq(SomeBytes)
  BY <1>1, RecvFacts DEF TypePart
<1>3. /\ n \in 0..Len(network) /\ first \in Seq(SomeBytes) /\ later \in Seq(SomeBytes)
      /\ Len(first) = n /\ network = first \o later
  <2>1. n \in 0..Len(network)
    BY <1>1, <1>2
  <2> QED  BY <1>2, <2>1, CutSeq, ZenonT(30)
<1>4. Segment(spans, writePos, F)
  <2>1. spans = GetWriteSpan(readPos, writePos, 0) /\ 0 \in Nat
    BY <1>1, <1>2 DEF ChainPart
  <2>2. Segment(GetWriteSpan(readPos, writePos, 0), writePos, Limited(F, 0))
    BY <1>2, WriteSpanIs
  <2>3. Limited(F, 0) = F
    BY DEF Limited
  <2> QED  BY <2>1, <2>2, <2>3
<1>5. F \in 0..Capacity
  BY <1>2
<1>6. n <= F
  <2>1. SpanTotal(spans) = F
    BY <1>2, <1>4, <1>5, SegmentIs
  <2> QED  BY <1>1, <2>1
<1> HIDE DEF first, later, D, F
<1>7. buffer' = Store(buffer, writePos, first)
  BY <1>1, <1>2, <1>3, <1>4, <1>5, <1>6, ScatterIs
<1>8. buffer' \in [Cells -> SomeBytes]
  <2>1. Len(first) <= Capacity
    BY <1>3
  <2> QED  BY <1>2, <1>3, <1>7, <2>1, StoreIs
<1>9. Load(buffer', readPos, D + n) = Unread \o first
  <2>1. Len(first) <= FreeSize(readPos, writePos)
    BY <1>3, <1>6 DEF F
  <2>2. Load(Store(buffer, writePos, first), readPos, DataSize(readPos, writePos) + Len(first))
          = Load(buffer, readPos, DataSize(readPos, writePos)) \o first
    BY <1>2, <1>3, <2>1, LoadAfterStoreHere
  <2> QED  BY <1>3, <1>7, <2>2 DEF Unread, D
<1>10. TypePart'
  <2>1. n \in 0..(Capacity - 1)
    BY <1>2, <1>6
  <2> QED  BY <1>1, <1>2, <1>3, <1>8, <2>1 DEF TypePart
<1>11. ChainPart'
  BY <1>1, <1>2, <1>6 DEF ChainPart, F
<1>12. StreamPart' /\ SeenPart'
  <2>1. UnreadBytes' = Unread \o first
    BY <1>1, <1>9 DEF UnreadBytes, D
  <2>2. (Unread \o first) \o later = Unread \o (first \o later)
    BY <1>2, <1>3, ConcatRegroup
  <2> QED  BY <1>1, <1>2, <1>3, <2>1, <2>2, StreamFrame
<1>13. LeftPart'
  BY <1>1 DEF LeftPart
<1> QED  BY <1>10, <1>11, <1>12, <1>13 DEF RecvInv

LEMMA ProcessKeeps == RecvInv /\ ProcessRecv => RecvInv'
<1> SUFFICES ASSUME RecvInv, ProcessRecv PROVE RecvInv'
  OBVIOUS
<1> DEFINE D == DataSize(readPos, writePos)
           F == FreeSize(readPos, writePos)
<1>1. /\ TypePart /\ ChainPart /\ D \in Nat /\ F \in Nat /\ D + F = Capacity - 1 /\ Capacity \in Nat
      /\ buffer \in [Cells -> SomeBytes] /\ readPos \in Cells /\ writePos \in Cells
      /\ got \in Nat /\ got <= F /\ connected \in BOOLEAN /\ cause \in Causes
      /\ pc = "recv" /\ spans = <<>> /\ packetData = <<>> /\ processedLen = 0
      /\ UnreadBytes = Load(buffer, readPos, D + got) /\ UnreadBytes \in Seq(SomeBytes)
  <2>1. pc = "recv"
    BY DEF ProcessRecv
  <2>2. TypePart /\ ChainPart
    BY RecvFacts
  <2>3. got \in Nat
    BY <2>2, CapacityAssumption DEF TypePart
  <2> QED  BY <2>1, <2>2, <2>3, RecvFacts DEF TypePart, ChainPart
<1>2. got' = 0 /\ UNCHANGED <<buffer, readPos, spans, network, sent, seen>>
  BY DEF ProcessRecv, peerVars
<1>3. CASE got = 0
  <2>1. /\ pc' = "off" /\ UNCHANGED <<writePos, packetData, processedLen>>
        /\ connected' = FALSE /\ cause' = IF connected THEN "closed" ELSE cause
    BY <1>3 DEF ProcessRecv, Disconnect, localVars
  <2>2. cause' \in Causes /\ cause' # "none"
    BY <1>1, <2>1 DEF TypePart, Causes
  <2>3. TypePart'
    <3>1. /\ connected' \in BOOLEAN /\ (connected' <=> cause' = "none") /\ got' \in 0..(Capacity - 1)
          /\ pc' \in {"register", "posted", "recv", "onrecv", "off"}
      <4>1. connected' \in BOOLEAN /\ (connected' <=> cause' = "none")
        BY <2>1, <2>2
      <4>2. got' \in 0..(Capacity - 1)
        BY <1>1, <1>2
      <4> QED  BY <2>1, <4>1, <4>2
    <3> QED  BY <1>1, <1>2, <2>1, <2>2, <3>1 DEF TypePart
  <2>4. ChainPart'
    BY <1>1, <1>2, <2>1 DEF ChainPart
  <2>5. StreamPart' /\ SeenPart'
    BY <1>2, <2>1, StreamFrame
  <2>6. LeftPart'
    BY <2>1 DEF LeftPart
  <2> QED  BY <2>3, <2>4, <2>5, <2>6 DEF RecvInv
<1>4. CASE got # 0
  <2>1. ~ (got > FreeSize(readPos, writePos))
    BY <1>1
  <2>2. /\ pc' = "onrecv" /\ writePos' = Advance(writePos, got) /\ processedLen' = 0
        /\ packetData' = Load(buffer, readPos, DataSize(readPos, writePos'))
        /\ connected' = connected /\ cause' = cause
    BY <1>4, <2>1 DEF ProcessRecv, connVars
  <2>3. writePos' \in Cells /\ DataSize(readPos, writePos') = D + got
    <3>1. got \in 0..Capacity
      BY <1>1
    <3> QED  BY <1>1, <2>2, <3>1, AdvanceIs, SizesMove
  <2>4. packetData' = UnreadBytes
    BY <1>1, <2>2, <2>3
  <2>5. UnreadBytes' = UnreadBytes
    <3>1. PICK u : u = packetData'
      OBVIOUS
    <3>2. u \in Seq(SomeBytes) /\ SubSeq(u, 0 + 1, Len(u)) = u
      BY <1>1, <2>4, <3>1
    <3>3. UnreadBytes' = SubSeq(u, 0 + 1, Len(u))
      BY <2>2, <3>1 DEF UnreadBytes
    <3> QED  BY <2>4, <3>1, <3>2, <3>3
  <2>6. TypePart'
    <3>1. /\ packetData' \in Seq(SomeBytes) /\ 0 \in 0..Len(packetData') /\ 0 \in 0..(Capacity - 1)
      BY <1>1, <2>4
    <3> QED  BY <1>1, <1>2, <2>2, <2>3, <3>1 DEF TypePart
  <2>7. ChainPart'
    <3>1. Unread' = Load(buffer, readPos, DataSize(readPos, writePos'))
      BY <1>2 DEF Unread
    <3>2. 0 <= FreeSize(readPos, writePos')
      BY <1>1, <2>3, SizesAre
    <3> QED  BY <1>1, <1>2, <2>2, <3>1, <3>2 DEF ChainPart
  <2>8. StreamPart' /\ SeenPart'
    BY <1>1, <1>2, <2>5, StreamFrame
  <2>9. LeftPart'
    BY <2>2 DEF LeftPart
  <2> QED  BY <2>6, <2>7, <2>8, <2>9 DEF RecvInv
<1> QED  BY <1>3, <1>4

(* OnRecv reads the size of the packet that is next.                          *)
LEMMA NextPacket ==
  ASSUME RecvInv, pc = "onrecv", HasHeader
  PROVE  /\ Len(seen) + 1 \in 1..Len(sent) /\ Size = sent[Len(seen) + 1] /\ Size \in Nat
         /\ dataSize \in Nat /\ dataSize = Len(UnreadBytes) /\ processedLen \in Nat
         /\ UnreadBytes # <<>>
         /\ UnreadBytes[1] = packetData[processedLen + 1]
         /\ UnreadBytes \o network # <<>>
         /\ IsStream(UnreadBytes \o network, Len(seen), sent)
<1> DEFINE u == UnreadBytes
           s == u \o network
<1>1. /\ packetData \in Seq(SomeBytes) /\ processedLen \in 0..Len(packetData)
      /\ network \in Seq(SomeBytes) /\ sent \in Seq(Nat) /\ Len(seen) \in Nat
      /\ u = SubSeq(packetData, processedLen + 1, Len(packetData)) /\ u \in Seq(SomeBytes)
      /\ HeaderSize \in Nat \ {0}
  BY RecvFacts DEF TypePart
<1>2. /\ Len(u) = Len(packetData) - processedLen /\ processedLen \in Nat
      /\ \A i \in 1..(Len(packetData) - processedLen) : u[i] = packetData[processedLen + i]
  BY <1>1, CutSeq
<1>3. dataSize \in Nat /\ dataSize = Len(u) /\ dataSize > 0
  BY <1>1, <1>2 DEF dataSize, HasHeader
<1>4. u # <<>> /\ u[1] = packetData[processedLen + 1]
  <2>1. u # <<>>
    <3>1. Len(u) # 0
      BY <1>3
    <3> QED  BY <3>1
  <2>2. 1 \in 1..(Len(packetData) - processedLen)
    BY <1>1, <1>2, <1>3
  <2> QED  BY <1>2, <2>1, <2>2
<1> HIDE DEF u
<1>5. s \in Seq(SomeBytes) /\ s # <<>> /\ s[1] = u[1]
  <2>1. Len(u) \in Nat \ {0}
    BY <1>1, <1>4
  <2>2. s \in Seq(SomeBytes) /\ Len(s) = Len(u) + Len(network) /\ s[1] = u[1]
    BY <1>1, <2>1
  <2>3. Len(s) # 0
    BY <1>1, <2>1, <2>2
  <2> QED  BY <2>2, <2>3
<1>6. IsStream(s, Len(seen), sent)
  BY DEF RecvInv, StreamPart, u
<1>7. Len(seen) + 1 \in 1..Len(sent) /\ s[1] = <<Len(seen) + 1, 1>>
  <2>1. /\ Len(seen) + 1 \in 1..Len(sent) /\ WireSize(sent[Len(seen) + 1]) \in Nat \ {0}
        /\ \A i \in 1..Len(s) : i <= WireSize(sent[Len(seen) + 1]) => s[i] = <<Len(seen) + 1, i>>
    <3> HIDE DEF s
    <3> QED  BY <1>1, <1>5, <1>6, StreamRun, SMTT(30)
  <2>2. 1 \in 1..Len(s) /\ 1 <= WireSize(sent[Len(seen) + 1])
    BY <1>5, <2>1
  <2> QED  BY <2>1, <2>2
<1>8. Size = sent[Len(seen) + 1]
  BY <1>4, <1>5, <1>7 DEF Size
<1>9. Size \in Nat
  BY <1>1, <1>7, <1>8, SMTT(30)
<1> QED  BY <1>2, <1>3, <1>4, <1>5, <1>6, <1>7, <1>8, <1>9 DEF u

LEMMA HandleKeeps == RecvInv /\ (\E rejected \in BOOLEAN : OnRecvPacket(rejected)) => RecvInv'
<1> SUFFICES ASSUME RecvInv, NEW rejected \in BOOLEAN, OnRecvPacket(rejected) PROVE RecvInv'
  OBVIOUS
<1> DEFINE K == Len(seen) + 1
           u == UnreadBytes
           s == u \o network
<1>1. /\ pc = "onrecv" /\ pc' = pc /\ HasHeader /\ ~ Malformed /\ dataSize >= Size
      /\ seen' = Append(seen, SubSeq(packetData, processedLen + 1, processedLen + Size))
      /\ processedLen' = processedLen + Size
      /\ UNCHANGED <<buffer, readPos, writePos, spans, got, packetData, network, sent>>
  BY DEF OnRecvPacket, HasPacket, ringVars, peerVars
<1>2. /\ TypePart /\ ChainPart /\ SeenPart
      /\ packetData \in Seq(SomeBytes) /\ processedLen \in 0..Len(packetData)
      /\ network \in Seq(SomeBytes) /\ sent \in Seq(Nat) /\ Len(seen) \in Nat
      /\ u = SubSeq(packetData, processedLen + 1, Len(packetData)) /\ u \in Seq(SomeBytes)
      /\ HeaderSize \in Nat \ {0}
  BY <1>1, RecvFacts DEF TypePart
<1>3. /\ K \in 1..Len(sent) /\ Size = sent[K] /\ Size \in Nat /\ dataSize = Len(u) /\ dataSize \in Nat
      /\ processedLen \in Nat /\ s # <<>> /\ IsStream(s, Len(seen), sent)
  BY <1>1, NextPacket
<1>4. PICK n \in Nat : n = Size
  BY <1>3
<1>5. WireSize(sent[K]) = n /\ n \in Nat \ {0} /\ n <= Len(u)
  <2>1. ~ (n < HeaderSize)
    BY <1>1, <1>4 DEF Malformed
  <2> QED  BY <1>1, <1>2, <1>3, <1>4, <2>1 DEF WireSize
<1>6. /\ Len(u) = Len(packetData) - processedLen
      /\ \A i \in 1..(Len(packetData) - processedLen) : u[i] = packetData[processedLen + i]
  BY <1>2, CutSeq
<1> HIDE DEF u
<1>7. s \in Seq(SomeBytes) /\ Len(s) = Len(u) + Len(network) /\ \A i \in 1..Len(u) : s[i] = u[i]
  BY <1>2, <1>3
<1>8. \A i \in 1..n : s[i] = <<K, i>>
  <2>1. \A i \in 1..Len(s) : i <= WireSize(sent[Len(seen) + 1]) => s[i] = <<Len(seen) + 1, i>>
    <3> HIDE DEF s
    <3> QED  BY <1>2, <1>3, <1>7, StreamRun, SMTT(60)
  <2>2. \A i \in 1..n : i \in 1..Len(s) /\ i <= n
    BY <1>2, <1>5, <1>7
  <2> QED  BY <1>5, <2>1, <2>2
<1>9. processedLen + n \in 0..Len(packetData) /\ processedLen' = processedLen + n
  <2>1. processedLen' = processedLen + n
    BY <1>1, <1>4
  <2>2. Len(packetData) \in Nat
    BY <1>2
  <2>3. n <= Len(packetData) - processedLen
    BY <1>5, <1>6
  <2> QED  BY <1>3, <1>4, <2>1, <2>2, <2>3, SMTT(30)
<1>10. PICK a : a = SubSeq(packetData, processedLen + 1, processedLen + n)
  OBVIOUS
<1>11. a \in Seq(SomeBytes) /\ a = PacketBytes(K, sent[K]) /\ seen' = Append(seen, a)
  <2>1. /\ a = [i \in 1..n |-> packetData[processedLen + i]]
        /\ \A i \in 1..n : packetData[processedLen + i] = <<K, i>>
    <3>1. Len(a) = n /\ a \in Seq(SomeBytes) /\ \A i \in 1..n : a[i] = packetData[processedLen + i]
      <4>1. packetData \in Seq(SomeBytes) /\ processedLen \in Nat /\ processedLen + n <= Len(packetData)
        BY <1>2, <1>3, <1>9
      <4> QED  BY <1>10, <4>1, PartSeq
    <3>2. ASSUME NEW i \in 1..n PROVE packetData[processedLen + i] = <<K, i>>
      <4>1. i \in 1..Len(u) /\ i \in 1..(Len(packetData) - processedLen)
        BY <1>2, <1>5, <1>6
      <4> QED  BY <1>6, <1>7, <1>8, <4>1
    <3>3. a = [i \in 1..n |-> a[i]]
      BY <3>1
    <3> QED  BY <3>1, <3>2, <3>3
  <2>2. a = PacketBytes(K, sent[K])
    BY <1>5, <2>1 DEF PacketBytes
  <2>3. K \in 1..MaxPackets /\ sent[K] \in Nat
    BY <1>2, <1>3, PacketAssumption DEF TypePart
  <2>4. a \in Seq(SomeBytes)
    BY <2>2, <2>3, PacketBytesType
  <2> QED  BY <1>1, <1>4, <1>10, <2>2, <2>4
<1>12. /\ connected' \in BOOLEAN /\ cause' \in Causes /\ (connected' <=> cause' = "none")
  <2>1. connected \in BOOLEAN /\ cause \in Causes /\ (connected <=> cause = "none")
    BY <1>2 DEF TypePart
  <2>2. \/ connected' = connected /\ cause' = cause
        \/ connected' = FALSE /\ cause' = IF connected THEN "rejected" ELSE cause
    BY DEF OnRecvPacket, Disconnect, connVars
  <2>3. CASE connected' = connected /\ cause' = cause
    BY <2>1, <2>3
  <2>4. CASE connected' = FALSE /\ cause' = IF connected THEN "rejected" ELSE cause
    <3>1. cause' \in Causes /\ cause' # "none"
      BY <2>1, <2>4 DEF Causes
    <3> QED  BY <2>4, <3>1
  <2> QED  BY <2>2, <2>3, <2>4
<1>13. TypePart'
  BY <1>1, <1>2, <1>9, <1>12 DEF TypePart
<1>14. ChainPart'
  <2>1. Unread' = Unread
    BY <1>1 DEF Unread
  <2>2. connected' => pc' # "off"
    BY <1>1
  <2> QED  BY <1>1, <1>2, <2>1, <2>2 DEF ChainPart
<1>15. SeenPart'
  <2>1. seen \in Seq(Seq(SomeBytes)) /\ \A k \in 1..Len(seen) : seen[k] = PacketBytes(k, sent[k])
    BY <1>2 DEF SeenPart
  <2>2. /\ seen' \in Seq(Seq(SomeBytes)) /\ Len(seen') = K /\ seen'[K] = a
        /\ \A k \in 1..Len(seen) : seen'[k] = seen[k]
    BY <1>2, <1>11, <2>1, AppendProperties
  <2>3. ASSUME NEW k \in 1..Len(seen') PROVE seen'[k] = PacketBytes(k, sent[k])
    <3>1. k \in 1..Len(seen) \/ k = K
      BY <1>2, <2>2
    <3> QED  BY <1>11, <2>1, <2>2, <3>1
  <2>4. sent' = sent /\ Len(seen') <= Len(sent)
    BY <1>1, <1>3, <2>2
  <2> QED  BY <2>2, <2>3, <2>4 DEF SeenPart
<1>16. StreamPart'
  <2>1. UnreadBytes' = SubSeq(u, n + 1, Len(u))
    <3>1. UnreadBytes' = SubSeq(packetData, processedLen + n + 1, Len(packetData))
      BY <1>1, <1>9 DEF UnreadBytes
    <3>2. n \in 0..(Len(packetData) - processedLen)
      BY <1>2, <1>5, <1>6
    <3>3. SubSeq(SubSeq(packetData, processedLen + 1, Len(packetData)), n + 1, Len(packetData) - processedLen)
            = SubSeq(packetData, processedLen + n + 1, Len(packetData))
      BY <1>2, <3>2, TailOfTail
    <3> QED  BY <1>2, <1>6, <3>1, <3>3
  <2>2. SubSeq(s, n + 1, Len(s)) = SubSeq(u, n + 1, Len(u)) \o network
    <3>1. n \in 0..Len(u)
      BY <1>2, <1>5
    <3> QED  BY <1>2, <3>1, TailOfConcat
  <2>3. IsStream(SubSeq(s, WireSize(sent[Len(seen) + 1]) + 1, Len(s)), Len(seen) + 1, sent)
    <3>1. WireSize(sent[Len(seen) + 1]) <= Len(s)
      BY <1>2, <1>5, <1>7
    <3> HIDE DEF s
    <3> QED  BY <1>2, <1>3, <1>7, <3>1, StreamDrop
  <2>4. Len(seen') = Len(seen) + 1
    BY <1>2, <1>11, AppendProperties DEF SeenPart
  <2> QED  BY <1>1, <1>5, <2>1, <2>2, <2>3, <2>4 DEF StreamPart
<1>17. LeftPart'
  BY <1>1 DEF LeftPart
<1> QED  BY <1>13, <1>14, <1>15, <1>16, <1>17 DEF RecvInv

LEMMA EndKeeps == RecvInv /\ OnRecvEnd => RecvInv'
<1> SUFFICES ASSUME RecvInv, OnRecvEnd PROVE RecvInv'
  OBVIOUS
<1> DEFINE D == DataSize(readPos, writePos)
           F == FreeSize(readPos, writePos)
           ok == ~ Malformed /\ processedLen > 0
<1>1. /\ pc = "onrecv" /\ ~ HasPacket /\ packetData' = <<>> /\ processedLen' = 0
      /\ UNCHANGED <<buffer, writePos, spans, got, network, sent, seen>>
  BY DEF OnRecvEnd, EndRecv, peerVars
<1>2. /\ TypePart /\ ChainPart /\ D \in Nat /\ F \in Nat /\ D + F = Capacity - 1 /\ Capacity \in Nat
      /\ buffer \in [Cells -> SomeBytes] /\ readPos \in Cells /\ writePos \in Cells
      /\ packetData \in Seq(SomeBytes) /\ processedLen \in 0..Len(packetData)
      /\ packetData = Unread /\ Len(Unread) = D /\ spans = <<>> /\ got = 0
      /\ UnreadBytes = SubSeq(packetData, processedLen + 1, Len(packetData))
      /\ HeaderSize \in Nat \ {0} /\ processedLen \in Nat /\ processedLen <= D
  BY <1>1, RecvFacts, SMTT(30) DEF TypePart, ChainPart
<1>3. <<>> \in Seq(SomeBytes) /\ 0 \in 0..Len(<<>>)
  OBVIOUS
<1>4. CASE ok
  <2>1. /\ readPos' = Advance(readPos, processedLen) /\ pc' = "register"
        /\ connected' = connected /\ cause' = cause
    BY <1>4 DEF OnRecvEnd, EndRecv, connVars
  <2>2. processedLen \in 0..Capacity
    BY <1>2
  <2>3. readPos' \in Cells /\ DataSize(readPos', writePos) = D - processedLen
    BY <1>2, <2>1, <2>2, AdvanceIs, SizesMove
  <2>4. Unread' = UnreadBytes
    <3>1. Unread' = Load(buffer, Advance(readPos, processedLen), D - processedLen)
      BY <1>1, <2>1, <2>3 DEF Unread
    <3>2. PICK b \in [Cells -> SomeBytes], r \in Cells : b = buffer /\ r = readPos
      BY <1>2
    <3>3. D \in 0..Capacity /\ processedLen \in 0..D
      BY <1>2
    <3>4. Load(b, Advance(r, processedLen), D - processedLen) = SubSeq(Load(b, r, D), processedLen + 1, D)
      BY <3>3, LoadPartsHere
    <3> QED  BY <1>2, <3>1, <3>2, <3>4 DEF Unread
  <2>5. TypePart'
    BY <1>1, <1>2, <1>3, <2>1, <2>3 DEF TypePart
  <2>6. ChainPart'
    <3>1. /\ FreeSize(readPos', writePos) \in Nat
          /\ DataSize(readPos', writePos) + FreeSize(readPos', writePos) = Capacity - 1
      BY <1>2, <2>3, SizesAre
    <3> QED  BY <1>1, <1>2, <2>1, <3>1 DEF ChainPart
  <2>7. StreamPart' /\ SeenPart'
    <3>1. UnreadBytes' = Unread'
      <4>1. DataSize(readPos', writePos') + got' = DataSize(readPos', writePos')
        BY <1>1, <1>2, <2>3
      <4>2. pc' # "onrecv"
        BY <2>1
      <4> QED  BY <4>1, <4>2 DEF UnreadBytes, Unread
    <3> QED  BY <1>1, <2>4, <3>1, StreamFrame
  <2>8. LeftPart'
    <3>1. SUFFICES ASSUME Len(UnreadBytes) >= HeaderSize PROVE Len(UnreadBytes) < sent[UnreadBytes[1][1]]
      BY <1>1, <2>4 DEF LeftPart
    <3>2. Len(UnreadBytes) = dataSize
      BY <1>2, CutSeq DEF dataSize
    <3>3. HasHeader
      BY <3>1, <3>2 DEF HasHeader
    <3>4. /\ Size \in Nat /\ dataSize \in Nat /\ UnreadBytes[1] = packetData[processedLen + 1]
      BY <1>1, <3>3, NextPacket
    <3>5. ~ (dataSize >= Size)
      BY <1>1, <1>4, <3>3 DEF HasPacket
    <3>6. Size = sent[UnreadBytes[1][1]]
      BY <3>4 DEF Size
    <3> QED  BY <3>2, <3>4, <3>5, <3>6
  <2> QED  BY <2>5, <2>6, <2>7, <2>8 DEF RecvInv
<1>5. CASE ~ ok
  <2>1. /\ pc' = "off" /\ readPos' = readPos
        /\ connected' = FALSE /\ cause' = IF connected THEN "invalid" ELSE cause
    BY <1>5 DEF OnRecvEnd, EndRecv, Disconnect
  <2>2. cause' \in Causes /\ cause' # "none"
    BY <1>2, <2>1 DEF TypePart, Causes
  <2>3. connected' \in BOOLEAN /\ (connected' <=> cause' = "none")
    BY <2>1, <2>2
  <2>4. TypePart'
    BY <1>1, <1>2, <1>3, <2>1, <2>2, <2>3 DEF TypePart
  <2>5. ChainPart'
    BY <1>1, <1>2, <2>1 DEF ChainPart
  <2>6. StreamPart' /\ SeenPart'
    BY <1>1, <2>1, StreamFrame
  <2>7. LeftPart'
    BY <2>1 DEF LeftPart
  <2> QED  BY <2>4, <2>5, <2>6, <2>7 DEF RecvInv
<1> QED  BY <1>4, <1>5

LEMMA SendKeeps == RecvInv /\ (\E size \in PacketSizes : PeerSend(size)) => RecvInv'
<1> SUFFICES ASSUME RecvInv, NEW size \in PacketSizes, PeerSend(size) PROVE RecvInv'
  OBVIOUS
<1>1. /\ Len(sent) < MaxPackets /\ sent' = Append(sent, size)
      /\ network' = network \o PacketBytes(Len(sent) + 1, size)
      /\ UNCHANGED <<buffer, readPos, writePos, connected, cause, pc, spans, got, packetData,
                     processedLen, seen>>
  BY DEF PeerSend, ringVars, connVars, localVars
<1>2. /\ TypePart /\ ChainPart /\ SeenPart /\ network \in Seq(SomeBytes) /\ sent \in Seq(PacketSizes)
      /\ sent \in Seq(Nat) /\ Len(seen) \in Nat /\ UnreadBytes \in Seq(SomeBytes)
      /\ Unread \in Seq(SomeBytes) /\ HeaderSize \in Nat \ {0} /\ MaxPackets \in Nat /\ size \in Nat
  <2>1. size \in Nat /\ MaxPackets \in Nat
    BY PacketAssumption
  <2> QED  BY <2>1, RecvFacts DEF TypePart
<1>3. /\ sent' \in Seq(PacketSizes) /\ Len(sent') = Len(sent) + 1 /\ Len(sent) \in Nat
      /\ \A k \in 1..Len(sent) : sent'[k] = sent[k]
  BY <1>1, <1>2, AppendProperties
<1>4. PICK b : b = PacketBytes(Len(sent) + 1, size)
  OBVIOUS
<1>5. b \in Seq(SomeBytes)
  <2>1. Len(sent) + 1 \in 1..MaxPackets
    BY <1>1, <1>2, <1>3
  <2> QED  BY <1>2, <1>4, <2>1, PacketBytesType
<1>6. network' = network \o b /\ network' \in Seq(SomeBytes)
  BY <1>1, <1>2, <1>4, <1>5
<1>7. TypePart'
  <2>1. Len(sent') <= MaxPackets
    BY <1>1, <1>2, <1>3
  <2> QED  BY <1>1, <1>2, <1>3, <1>6, <2>1 DEF TypePart
<1>8. Unread' = Unread /\ UnreadBytes' = UnreadBytes
  BY <1>1 DEF Unread, UnreadBytes
<1>9. ChainPart'
  BY <1>1, <1>2, <1>8 DEF ChainPart
<1>10. SeenPart'
  <2>1. /\ seen \in Seq(Seq(SomeBytes)) /\ Len(seen) <= Len(sent)
        /\ \A k \in 1..Len(seen) : seen[k] = PacketBytes(k, sent[k])
    BY <1>2 DEF SeenPart
  <2>2. \A k \in 1..Len(seen) : seen[k] = PacketBytes(k, sent'[k])
    <3>1. \A k \in 1..Len(seen) : k \in 1..Len(sent)
      BY <1>2, <1>3, <2>1
    <3> QED  BY <1>3, <2>1, <3>1
  <2>3. seen' = seen /\ Len(seen) <= Len(sent')
    BY <1>1, <1>2, <1>3, <2>1
  <2> QED  BY <2>1, <2>2, <2>3 DEF SeenPart
<1>11. StreamPart'
  <2>1. SUFFICES ASSUME pc # "off" PROVE IsStream(UnreadBytes \o network', Len(seen), sent')
    BY <1>1, <1>8 DEF StreamPart
  <2>2. PICK s : s = UnreadBytes \o network
    OBVIOUS
  <2>3. s \in Seq(SomeBytes) /\ IsStream(s, Len(seen), sent)
    BY <1>2, <2>1, <2>2 DEF RecvInv, StreamPart
  <2>4. IsStream(s \o PacketBytes(Len(sent) + 1, size), Len(seen), Append(sent, size))
    BY <1>1, <1>2, <2>3, StreamExtend
  <2>5. UnreadBytes \o network' = s \o b
    <3>1. (UnreadBytes \o network) \o b = UnreadBytes \o (network \o b)
      <4>1. PICK u \in Seq(SomeBytes), m \in Seq(SomeBytes) : u = UnreadBytes /\ m = network
        BY <1>2
      <4>2. (u \o m) \o b = u \o (m \o b)
        BY <1>5, <4>1, ConcatRegroup
      <4> QED  BY <4>1, <4>2
    <3> QED  BY <1>6, <2>2, <3>1
  <2> QED  BY <1>1, <1>4, <2>4, <2>5
<1>12. LeftPart'
  <2>1. SUFFICES ASSUME pc \in {"register", "posted"}, Len(Unread) >= HeaderSize
                 PROVE  Len(Unread) < sent'[Unread[1][1]]
    BY <1>1, <1>8 DEF LeftPart
  <2>2. Len(Unread) < sent[Unread[1][1]]
    BY <2>1 DEF RecvInv, LeftPart
  <2>3. Unread[1][1] \in 1..Len(sent)
    <3>1. UnreadBytes = Unread /\ pc # "off"
      BY <2>1, RecvFacts
    <3>2. PICK s : s = Unread \o network
      OBVIOUS
    <3>3. IsStream(s, Len(seen), sent)
      BY <3>1, <3>2 DEF RecvInv, StreamPart
    <3>4. PICK u \in Seq(SomeBytes) : u = Unread
      BY <1>2
    <3>5. Len(u) \in Nat \ {0}
      BY <1>2, <2>1, <3>4
    <3>6. 1 \in 1..Len(s) /\ s[1] = u[1]
      BY <1>2, <3>2, <3>4, <3>5
    <3> QED  BY <3>3, <3>4, <3>6 DEF IsStream
  <2> QED  BY <1>3, <2>2, <2>3
<1> QED  BY <1>7, <1>9, <1>10, <1>11, <1>12 DEF RecvInv

LEMMA OtherKeeps == RecvInv /\ (OtherDisconnect \/ UNCHANGED vars) => RecvInv'
<1> SUFFICES ASSUME RecvInv, OtherDisconnect \/ UNCHANGED vars PROVE RecvInv'
  OBVIOUS
<1>1. /\ UNCHANGED <<buffer, readPos, writePos, pc, spans, got, packetData, processedLen, network,
                     sent, seen>>
      /\ \/ connected' = connected /\ cause' = cause
         \/ connected' = FALSE /\ cause' = "other"
  BY DEF OtherDisconnect, Disconnect, vars, ringVars, connVars, localVars, peerVars
<1>2. TypePart /\ ChainPart
  BY RecvFacts
<1>3. Unread' = Unread /\ UnreadBytes' = UnreadBytes
  BY <1>1 DEF Unread, UnreadBytes
<1>4. TypePart'
  <2>1. connected' \in BOOLEAN /\ cause' \in Causes /\ (connected' <=> cause' = "none")
    <3>1. connected \in BOOLEAN /\ cause \in Causes /\ (connected <=> cause = "none")
      BY <1>2 DEF TypePart
    <3>2. CASE connected' = connected /\ cause' = cause
      BY <3>1, <3>2
    <3>3. CASE connected' = FALSE /\ cause' = "other"
      BY <3>3 DEF Causes
    <3> QED  BY <1>1, <3>2, <3>3
  <2> QED  BY <1>1, <1>2, <2>1 DEF TypePart
<1>5. ChainPart'
  BY <1>1, <1>2, <1>3 DEF ChainPart
<1>6. StreamPart' /\ SeenPart'
  BY <1>1, <1>3 DEF RecvInv, StreamPart, SeenPart
<1>7. LeftPart'
  BY <1>1, <1>3 DEF RecvInv, LeftPart
<1> QED  BY <1>4, <1>5, <1>6, <1>7 DEF RecvInv

LEMMA RecvInit == Init => RecvInv
<1> SUFFICES ASSUME Init PROVE RecvInv
  OBVIOUS
<1>1. /\ Capacity \in Nat /\ Capacity > 0 /\ MaxPackets \in Nat /\ HeaderSize \in Nat \ {0}
  BY CapacityAssumption, PacketAssumption
<1>2. 0 \in Cells /\ NoByte \in SomeBytes /\ 0 \in 0..(Capacity - 1) /\ 0 \in 0..Len(<<>>)
  BY <1>1 DEF Cells, NoByte, SomeBytes
<1>3. DataSize(readPos, writePos) = 0 /\ FreeSize(readPos, writePos) = Capacity - 1
  BY <1>1 DEF Init, DataSize, FreeSize
<1>4. TypePart
  <2>1. /\ connected \in BOOLEAN /\ cause \in Causes /\ (connected <=> cause = "none")
        /\ pc \in {"register", "posted", "recv", "onrecv", "off"}
    BY DEF Init, Causes
  <2>2. /\ packetData \in Seq(SomeBytes) /\ network \in Seq(SomeBytes) /\ sent \in Seq(PacketSizes)
        /\ Len(sent) = 0 /\ Len(sent) <= MaxPackets
    BY <1>1 DEF Init
  <2> QED  BY <1>2, <2>1, <2>2 DEF Init, TypePart
<1>5. ChainPart
  BY <1>1, <1>3 DEF Init, ChainPart
<1>6. Unread = <<>> /\ UnreadBytes = <<>>
  <2>1. buffer \in [Cells -> SomeBytes] /\ readPos \in Cells
    BY <1>4 DEF TypePart
  <2>2. 0 \in 0..Capacity /\ 0 \in 0..0
    BY <1>1
  <2>3. Load(buffer, readPos, 0) \in Seq(SomeBytes) /\ Len(Load(buffer, readPos, 0)) = 0
    BY <2>1, <2>2, LoadPartsHere
  <2>4. Load(buffer, readPos, 0) = <<>>
    BY <2>3
  <2>5. pc # "onrecv" /\ DataSize(readPos, writePos) + got = 0
    BY <1>3 DEF Init
  <2> QED  BY <1>3, <2>4, <2>5 DEF Unread, UnreadBytes
<1>7. StreamPart
  <2>1. UnreadBytes \o network = <<>>
    BY <1>6 DEF Init
  <2>2. Len(seen) = 0 /\ Len(sent) = 0 /\ Len(<<>>) = 0
    BY DEF Init
  <2>3. IsStream(<<>>, 0, sent)
    BY <2>2 DEF IsStream
  <2> QED  BY <2>1, <2>2, <2>3 DEF StreamPart
<1>8. SeenPart
  BY DEF Init, SeenPart
<1>9. LeftPart
  <2>1. Len(Unread) = 0
    BY <1>6
  <2> QED  BY <1>1, <2>1 DEF LeftPart
<1> QED  BY <1>4, <1>5, <1>7, <1>8, <1>9 DEF RecvInv

LEMMA RecvInductive == Spec => []RecvInv
<1>1. RecvInv /\ [Next]_vars => RecvInv'
  BY RegisterKeeps, ProcessKeeps, HandleKeeps, EndKeeps, CompleteKeeps, SendKeeps, OtherKeeps
     DEF Next, ChainStep
<1> QED  BY <1>1, RecvInit, PTL DEF Spec

(* Every packet handed to OnRecvPacket is the packet the peer sent at that    *)
(* place of the stream, whole, however the bytes arrived and wherever the     *)
(* buffer wrapped.                                                            *)
THEOREM PacketsArriveWhole == Spec => []FramingIntact
<1>1. ASSUME RecvInv PROVE FramingIntact
  <2>1. seen \in Seq(Seq(SomeBytes)) /\ \A k \in 1..Len(seen) : seen[k] = PacketBytes(k, sent[k])
    BY <1>1 DEF RecvInv, SeenPart
  <2>2. DOMAIN seen = 1..Len(seen)
    BY <2>1
  <2> QED  BY <2>1, <2>2, Zenon DEF FramingIntact
<1> QED  BY <1>1, RecvInductive, PTL

(* No byte is lost or doubled while the session is connected, and no whole    *)
(* packet is left lying while it waits for more.                              *)
THEOREM NothingIsLostOrLeft == Spec => []RecvSound
<1>1. ASSUME RecvInv PROVE RecvSound
  <2>1. /\ TypePart /\ ChainPart /\ SeenPart /\ Capacity \in Nat /\ Capacity > 0
        /\ FreeSize(readPos, writePos) \in Nat /\ DataSize(readPos, writePos) \in Nat
        /\ DataSize(readPos, writePos) + FreeSize(readPos, writePos) = Capacity - 1
        /\ UnreadBytes \in Seq(SomeBytes)
    BY <1>1, RecvFacts
  <2>2. TypeOK
    <3>1. Len(spans) <= 2 /\ SpanTotal(spans) < Capacity /\ SpanCells(spans) \subseteq Cells
      <4>1. CASE pc = "posted"
        <5>1. PICK F \in 0..Capacity : F = FreeSize(readPos, writePos)
          BY <2>1
        <5>2. Segment(spans, writePos, F) /\ writePos \in Cells
          <6>1. readPos \in Cells /\ writePos \in Cells /\ 0 \in Nat
            BY <2>1 DEF TypePart
          <6>2. Segment(GetWriteSpan(readPos, writePos, 0), writePos, Limited(FreeSize(readPos, writePos), 0))
            BY <6>1, WriteSpanIs
          <6> QED  BY <2>1, <4>1, <5>1, <6>1, <6>2 DEF ChainPart, Limited
        <5>3. /\ SpanTotal(spans) = F /\ Len(spans) <= 2
              /\ SpanCells(spans) = {Advance(writePos, k) : k \in 0..(F - 1)}
          BY <5>2, SegmentIs
        <5>4. ASSUME NEW k \in 0..(F - 1) PROVE Advance(writePos, k) \in Cells
          <6>1. k \in 0..Capacity
            BY <2>1
          <6> QED  BY <5>2, <6>1, AdvanceIs
        <5> QED  BY <2>1, <5>1, <5>3, <5>4
      <4>2. CASE pc # "posted"
        <5>1. spans = <<>>
          BY <2>1, <4>2 DEF ChainPart
        <5> QED  BY <2>1, <5>1 DEF SpanTotal, SpanCells
      <4> QED  BY <4>1, <4>2
    <3> QED  BY <2>1, <3>1 DEF TypeOK, TypePart
  <2>3. BytesConserved
    <3>1. SUFFICES ASSUME connected
          PROVE  LET next == <<Len(seen) + 1, 1>>
                     rest == UnreadBytes \o network
                 IN /\ \A i \in DOMAIN rest : rest[i] = IF i = 1 THEN next ELSE Following(rest[i - 1])
                    /\ IF rest = <<>> THEN Len(seen) = Len(sent)
                                      ELSE Following(rest[Len(rest)]) = <<Len(sent) + 1, 1>>
      BY DEF BytesConserved
    <3>2. IsStream(UnreadBytes \o network, Len(seen), sent)
      BY <1>1, <2>1, <3>1 DEF ChainPart, RecvInv, StreamPart
    <3>3. PICK s : s = UnreadBytes \o network
      OBVIOUS
    <3>4. DOMAIN s = 1..Len(s)
      <4>1. s \in Seq(SomeBytes)
        BY <2>1, <3>3 DEF TypePart
      <4> QED  BY <4>1
    <3>5. \A byte : Following(byte) = FollowIn(byte, sent)
      BY DEF Following, FollowIn
    <3> QED  BY <3>2, <3>3, <3>4, <3>5 DEF IsStream
  <2>4. NoPacketLeftBehind
    BY <1>1 DEF RecvInv, LeftPart, NoPacketLeftBehind, Unread
  <2> QED  BY <2>2, <2>3, <2>4 DEF RecvSound
<1> QED  BY <1>1, RecvInductive, PTL
===============================================================================
