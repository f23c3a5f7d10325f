----------------------------- MODULE PacketCodec -----------------------------
(* How packets become bytes and bytes become packets: BufferWriter.h and      *)
(* BufferReader.h, the packets of Common/Protocol/PacketProtocol.h and the    *)
(* dispatchers ServerPacketHandler.h and ClientPacketHandler.h.               *)
(*                                                                            *)
(* A packet is its id and the sequence of its field values: a number, a       *)
(* string (a sequence of bytes) or a list of items.  Widths are the source's; *)
(* the number of values of a byte is a constant, so that a small buffer       *)
(* stands to the 16-bit sizes as 4096 does to 65536.                          *)
EXTENDS Integers, Sequences

CONSTANTS Byte,         \* values of a byte: 256
          AllocSize,    \* what MakeSendBuffer opens: 4096
          FirstId       \* PKT_C_LOGIN: 1001

HeaderSize == 4
UInt16 == Byte * Byte

(* A buffer holds a header and its size is a 16-bit number, as are the ids.   *)
ASSUME CodecAssumption == /\ Byte \in Nat /\ Byte > 1
                          /\ AllocSize \in Nat /\ HeaderSize <= AllocSize /\ AllocSize < UInt16
                          /\ FirstId \in Nat /\ FirstId + 15 <= UInt16

Octet == 0..(Byte - 1)
Power[k \in 0..8] == IF k = 0 THEN 1 ELSE Power[k - 1] * Byte

(* A number in memory: width bytes, the lowest first.                         *)
Digits(width, n) == [i \in 1..width |-> (n \div Power[i - 1]) % Byte]
Number(bytes) ==
  LET low[i \in 0..Len(bytes)] == IF i = 0 THEN 0 ELSE low[i - 1] + bytes[i] * Power[i - 1]
  IN low[Len(bytes)]

-----------------------------------------------------------------------------
(* Kinds of fields.                                                           *)
Scalar(width) == [kind |-> "scalar", width |-> width, item |-> <<>>]
Bool == Scalar(1)
Int32 == Scalar(4)
UInt64 == Scalar(8)
String == [kind |-> "string", width |-> 0, item |-> <<>>]
List(item) == [kind |-> "list", width |-> 0, item |-> item]

(* The fields of the packets in the order in which Read and MakeSendBuffer go *)
(* through them.                                                              *)
C_LOGIN == <<String>>
S_LOGIN == <<Bool, UInt64, String, String>>
C_HEARTBEAT == <<UInt64>>
S_HEARTBEAT == <<UInt64>>
C_ROOM_LIST == <<>>
S_ROOM_LIST == <<List(<<Int32, String, Int32>>)>>
C_ENTER_ROOM == <<Int32, String>>
S_ENTER_ROOM == <<Bool, Int32, String, List(<<String>>)>>
C_LEAVE_ROOM == <<>>
S_LEAVE_ROOM == <<Bool>>
C_ROOM_CHAT == <<String>>
S_ROOM_CHAT == <<String, String>>
C_GLOBAL_CHAT == <<String>>
S_GLOBAL_CHAT == <<String, String>>
S_NOTICE == <<String>>

Layouts == <<C_LOGIN, S_LOGIN, C_HEARTBEAT, S_HEARTBEAT, C_ROOM_LIST, S_ROOM_LIST,
             C_ENTER_ROOM, S_ENTER_ROOM, C_LEAVE_ROOM, S_LEAVE_ROOM, C_ROOM_CHAT,
             S_ROOM_CHAT, C_GLOBAL_CHAT, S_GLOBAL_CHAT, S_NOTICE>>

PacketIds == FirstId..(FirstId + Len(Layouts) - 1)
Layout(id) == Layouts[id - FirstId + 1]

(* The cases of the two dispatchers.                                          *)
ServerCases == {FirstId + k : k \in {0, 2, 4, 6, 8, 10, 12}}
ClientCases == {FirstId + k : k \in {1, 3, 5, 7, 9, 11, 13, 14}}

(* The values of a field: the numbers its type holds, strings whose length    *)
(* the 16 bits before them hold, lists of items; one value for every field.   *)
IsValue(f, v) == IF f.kind = "string" THEN v \in Seq(Octet) /\ Len(v) < UInt16
                                      ELSE v \in 0..(Power[f.width] - 1)
IsTuple(v, n) == v = [i \in 1..n |-> v[i]]
IsItem(fields, v) == /\ IsTuple(v, Len(fields))
                     /\ \A i \in 1..Len(fields) : IsValue(fields[i], v[i])
IsList(item, v) == IsTuple(v, Len(v)) /\ Len(v) \in Nat /\ \A k \in 1..Len(v) : IsItem(item, v[k])
IsPacket(id, v) ==
  /\ id \in PacketIds /\ IsTuple(v, Len(Layout(id)))
  /\ \A i \in 1..Len(Layout(id)) :
       LET f == Layout(id)[i] IN IF f.kind = "list" THEN IsList(f.item, v[i]) ELSE IsValue(f, v[i])

-----------------------------------------------------------------------------
(* BufferWriter: the bytes written so far; ok is FALSE from the first Write   *)
(* that had no room, where MakeSendBuffer returns.                            *)
Write(w, bytes) ==
  IF w.ok /\ Len(w.bytes) + Len(bytes) <= AllocSize
    THEN [w EXCEPT !.bytes = @ \o bytes] ELSE [w EXCEPT !.ok = FALSE]

WriteString(w, s) ==
  LET len == Len(s) % UInt16
  IN Write(Write(w, Digits(2, len)), SubSeq(s, 1, len))

WriteField(w, f, v) == IF f.kind = "string" THEN WriteString(w, v)
                                            ELSE Write(w, Digits(f.width, v))

WriteItem(w, fields, v) ==
  LET upTo[i \in 0..Len(fields)] == IF i = 0 THEN w ELSE WriteField(upTo[i - 1], fields[i], v[i])
  IN upTo[Len(fields)]

(* A list is its count and then every item.                                   *)
WriteList(w, item, v) ==
  LET upTo[i \in 0..Len(v)] == IF i = 0 THEN Write(w, Digits(2, Len(v) % UInt16))
                                        ELSE WriteItem(upTo[i - 1], item, v[i])
  IN upTo[Len(v)]

WriteFields(w, fields, v) ==
  LET upTo[i \in 0..Len(fields)] ==
        IF i = 0 THEN w
        ELSE IF fields[i].kind = "list" THEN WriteList(upTo[i - 1], fields[i].item, v[i])
        ELSE WriteField(upTo[i - 1], fields[i], v[i])
  IN upTo[Len(fields)]

Header(size, id) == Digits(2, size) \o Digits(2, id)

(* The bytes MakeSendBuffer leaves in the buffer: at the end the size is put  *)
(* into the header, unless a field had no room.                               *)
Serialize(id, v) ==
  LET w == WriteFields([bytes |-> Header(0, id), ok |-> TRUE], Layout(id), v)
  IN IF w.ok THEN [w EXCEPT !.bytes = Header(Len(@) % UInt16, id) \o SubSeq(@, HeaderSize + 1, Len(@))]
             ELSE w

-----------------------------------------------------------------------------
(* BufferReader over the bytes of one packet.  val collects the fields read.  *)
FreeSize(r) == Len(r.bytes) - r.pos

ReadBytes(r, len) ==
  IF r.ok /\ FreeSize(r) >= len
    THEN [r EXCEPT !.pos = @ + len, !.got = SubSeq(r.bytes, r.pos + 1, r.pos + len)]
    ELSE [r EXCEPT !.ok = FALSE]

ReadNumber(r, width) ==
  LET s == ReadBytes(r, width) IN [s EXCEPT !.got = IF s.ok THEN Number(@) ELSE 0]

(* Mutant: a string that is longer than the rest of the packet is cut.        *)
ReadStringCut(r) ==
  LET len == ReadNumber(r, 2)
  IN IF len.ok THEN ReadBytes(len, IF len.got < FreeSize(len) THEN len.got ELSE FreeSize(len))
               ELSE len

ReadString(r) ==
  LET len == ReadNumber(r, 2) IN IF len.ok THEN ReadBytes(len, len.got) ELSE len

ReadField(r, f) ==
  LET s == IF f.kind = "string" THEN ReadString(r) ELSE ReadNumber(r, f.width)
  IN [s EXCEPT !.val = Append(r.val, s.got)]

ReadItem(r, fields) ==
  LET upTo[i \in 0..Len(fields)] ==
        IF i = 0 THEN [r EXCEPT !.val = <<>>] ELSE ReadField(upTo[i - 1], fields[i])
  IN upTo[Len(fields)]

(* A loop that stops at the first item that cannot be read.                   *)
ReadList(r, item) ==
  LET count == ReadNumber(r, 2)
      upTo[i \in 0..count.got] ==
        IF i = 0 THEN [count EXCEPT !.val = <<>>]
        ELSE IF ~ upTo[i - 1].ok THEN upTo[i - 1]
        ELSE LET s == ReadItem(upTo[i - 1], item)
             IN [s EXCEPT !.val = Append(upTo[i - 1].val, s.val)]
  IN IF count.ok THEN [upTo[count.got] EXCEPT !.val = Append(r.val, @)] ELSE count

ReadFields(r, fields) ==
  LET upTo[i \in 0..Len(fields)] ==
        IF i = 0 THEN r
        ELSE IF ~ upTo[i - 1].ok THEN upTo[i - 1]
        ELSE IF fields[i].kind = "list" THEN ReadList(upTo[i - 1], fields[i].item)
        ELSE ReadField(upTo[i - 1], fields[i])
  IN upTo[Len(fields)]

(* HandlePacket up to the handler: the header, the case, the fields.  Bytes   *)
(* after the last field are not looked at.                                    *)
Rejected == [ok |-> FALSE, id |-> 0, val |-> <<>>]
HandlePacket(cases, bytes) ==
  LET size == ReadNumber([bytes |-> bytes, pos |-> 0, ok |-> TRUE, got |-> 0, val |-> <<>>], 2)
      id == ReadNumber(size, 2)
      r == ReadFields(id, Layout(id.got))
  IN IF id.ok /\ id.got \in cases /\ r.ok THEN [ok |-> TRUE, id |-> id.got, val |-> r.val]
                                         ELSE Rejected
=============================================================================
