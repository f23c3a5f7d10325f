---------------------------- MODULE MCSendBuffers ----------------------------
(* SendBuffers for TLC: bytes of five values, buffers of 23 bytes, chunks of  *)
(* 30.  Thread a makes any packet, with numbers, strings and lists that just  *)
(* fit, just do not, or are empty; thread b fills chunks with a few packets.  *)
EXTENDS SendBuffers, TLC

CONSTANTS a, b

Word(n) == [i \in 1..n |-> i % Byte]
Strings == {Word(n) : n \in {0, 1, 6, 17, 18}}
Bools == {0, 1}
Ints == {0, Byte + 2, Byte^4 - 1}
Longs == {0, Byte^8 - 1}
Rooms == {<<i, s, n>> : i \in {1, 3 * Byte}, s \in {Word(0), Word(2)}, n \in {0, Byte}}

Of(k, values) == {[id |-> FirstId + k, val |-> v] : v \in values}

AnyPacket ==
  UNION {Of(k, {<<s>> : s \in Strings}) : k \in {0, 10, 12, 14}}
  \cup UNION {Of(k, {<<s, m>> : s \in Strings, m \in Strings}) : k \in {11, 13}}
  \cup UNION {Of(k, {<<n>> : n \in Longs}) : k \in {2, 3}}
  \cup UNION {Of(k, {<<>>}) : k \in {4, 8}}
  \cup Of(9, {<<x>> : x \in Bools})
  \cup Of(1, {<<x, n, s, m>> : x \in Bools, n \in Longs, s \in {Word(0), Word(6)}, m \in {Word(0), Word(1)}})
  \cup Of(5, {<<l>> : l \in {<<>>, <<<<1, Word(8), 1>>>>, <<<<1, <<>>, 1>>, <<2, <<>>, 2>>>>}
                             \cup {<<r>> : r \in Rooms}})
  \cup Of(6, {<<n, s>> : n \in Ints, s \in Strings})
  \cup Of(7, {<<x, n, s, l>> : x \in Bools, n \in {0, Byte^4 - 1}, s \in {Word(0), Word(3)},
                l \in {<<>>, <<<<Word(3)>>>>, <<<<Word(1)>>, <<Word(2)>>>>,
                       <<<<Word(4)>>, <<Word(0)>>, <<Word(2)>>>>}})

FewPackets == {[id |-> FirstId + 14, val |-> <<Word(17)>>], [id |-> FirstId + 9, val |-> <<1>>],
               [id |-> FirstId + 4, val |-> <<>>]}

PacketsOf == [t \in Makers |-> IF t = a THEN AnyPacket ELSE FewPackets]
MakesOf == [t \in Makers |-> IF t = a THEN 1 ELSE 3]

(* What Room::Enter makes: the list of the members, then the notice.          *)
RoomPackets == [t \in Makers |->
  {[id |-> FirstId + 7, val |-> <<1, 1, Word(2), [i \in 1..n |-> <<Word(2)>>]>>] : n \in 1..4}
  \cup {[id |-> FirstId + 14, val |-> <<Word(6)>>]}]
EnterMakes == [t \in Makers |-> 4]

Sym == Permutations(Chunks)
=============================================================================
