------------------------------ MODULE RecvPath ------------------------------
(* The receive path of one session: RegisterRecv and ProcessRecv of           *)
(* ServerEngine/Network/Session.cpp around the RingBuffer, and                *)
(* PacketSession::OnRecv, which cuts the stream into packets.                 *)
(*                                                                            *)
(* A packet is a header, whose size field counts the whole packet, and a      *)
(* body.  Byte i of the k-th packet the peer sends is <<k, i>>; sent[k] is    *)
(* what its size field says.  A size field smaller than a header is malformed *)
(* and comes with a header only.                                              *)
(*                                                                            *)
(* Completions of WSARecv may bring any number of bytes.  At most one WSARecv *)
(* is outstanding, so the chain RegisterRecv - completion - ProcessRecv is    *)
(* sequential; any other thread may disconnect the session meanwhile.         *)
EXTENDS RingOps

CONSTANTS HeaderSize,     \* sizeof(PacketHeader)
          PacketSizes,    \* the size fields the peer may send
          MaxPackets      \* bound: packets the peer sends

ASSUME PacketAssumption == /\ HeaderSize \in Nat \ {0}
                           /\ PacketSizes \subseteq Nat
                           /\ MaxPackets \in Nat

NoByte == <<0, 0>>

VARIABLES
  buffer, readPos, writePos,   \* _recvBuffer
  connected,                   \* _connected
  cause,                       \* why Disconnect was called first
  pc,                          \* the receive chain
  spans,                       \* WSABUFs of the outstanding WSARecv
  got,                         \* numOfBytes of the completion
  packetData, processedLen,    \* locals of ProcessRecv and OnRecv
  network,                     \* bytes sent by the peer and not received
  sent,                        \* size fields of all packets sent
  seen                         \* what OnRecvPacket was called with

ringVars == <<buffer, readPos, writePos>>
connVars == <<connected, cause>>
localVars == <<packetData, processedLen>>
peerVars == <<network, sent>>
vars == <<ringVars, connVars, pc, spans, got, localVars, peerVars, seen>>

Causes == {"none", "closed", "overflow", "invalid", "rejected", "other"}

(* The wire size of packet k, and its bytes.                                  *)
WireSize(size) == IF size < HeaderSize THEN HeaderSize ELSE size
PacketBytes(k, size) == [i \in 1..WireSize(size) |-> <<k, i>>]

SomeBytes == (0..MaxPackets) \X Nat

TypeOK ==
  /\ buffer \in [Cells -> SomeBytes]
  /\ readPos \in Cells /\ writePos \in Cells
  /\ connected \in BOOLEAN /\ cause \in Causes /\ (connected <=> cause = "none")
  /\ pc \in {"register", "posted", "recv", "onrecv", "off"}
  /\ Len(spans) <= 2 /\ SpanTotal(spans) < Capacity /\ SpanCells(spans) \subseteq Cells
  /\ got \in 0..(Capacity - 1)
  /\ packetData \in Seq(SomeBytes) /\ processedLen \in 0..Len(packetData)
  /\ network \in Seq(SomeBytes)
  /\ sent \in Seq(PacketSizes)

Init ==
  /\ buffer = [i \in Cells |-> NoByte] /\ readPos = 0 /\ writePos = 0
  /\ connected = TRUE /\ cause = "none"
  /\ pc = "register"   \* the end of ProcessConnect
  /\ spans = <<>> /\ got = 0
  /\ packetData = <<>> /\ processedLen = 0
  /\ network = <<>> /\ sent = <<>> /\ seen = <<>>

(* Session::Disconnect: only the first call has an effect.                    *)
Disconnect(why) ==
  /\ connected' = FALSE
  /\ cause' = IF connected THEN why ELSE cause

-----------------------------------------------------------------------------
(* RegisterRecv: hand the free room to WSARecv, which is accepted or fails    *)
(* (then HandleError disconnects and the chain ends).                         *)
RegisterRecv(accepted) ==
  /\ pc = "register"
  /\ LET free == GetWriteSpan(readPos, writePos, 0)
     IN IF ~ connected
          THEN pc' = "off" /\ UNCHANGED <<connVars, spans>>
        ELSE IF free = <<>>
          THEN pc' = "off" /\ Disconnect("overflow") /\ UNCHANGED spans
        ELSE IF accepted
          THEN pc' = "posted" /\ spans' = free /\ UNCHANGED connVars
          ELSE pc' = "off" /\ Disconnect("other") /\ UNCHANGED spans
  /\ UNCHANGED <<ringVars, got, localVars, peerVars, seen>>

(* The system fills the spans with the next n bytes; 0 is the end of the      *)
(* stream, a reset, or a socket that was disconnected on this side.           *)
RecvComplete(n) ==
  /\ pc = "posted"
  /\ n <= Len(network) /\ n <= SpanTotal(spans)
  /\ buffer' = Scatter(buffer, spans, SubSeq(network, 1, n))
  /\ network' = SubSeq(network, n + 1, Len(network))
  /\ got' = n /\ spans' = <<>>
  /\ pc' = "recv"
  /\ UNCHANGED <<readPos, writePos, connVars, localVars, sent, seen>>

(* ProcessRecv up to the call of OnRecv: move the write position, copy all    *)
(* that is unread.                                                            *)
ProcessRecv ==
  /\ pc = "recv"
  /\ got' = 0
  /\ IF got = 0
       THEN /\ pc' = "off" /\ Disconnect("closed")
            /\ UNCHANGED <<writePos, localVars>>
     ELSE IF got > FreeSize(readPos, writePos)
       THEN /\ pc' = "off" /\ Disconnect("overflow")
            /\ UNCHANGED <<writePos, localVars>>
       ELSE /\ writePos' = Advance(writePos, got)
            /\ packetData' = Load(buffer, readPos, DataSize(readPos, writePos'))
            /\ processedLen' = 0
            /\ pc' = "onrecv"
            /\ UNCHANGED connVars
  /\ UNCHANGED <<buffer, readPos, spans, peerVars, seen>>

(* OnRecv: what is left of packetData, and the size its header gives.         *)
dataSize == Len(packetData) - processedLen
HasHeader == dataSize >= HeaderSize
Size == sent[packetData[processedLen + 1][1]]
Malformed == HasHeader /\ Size < HeaderSize

(* Mutant: a packet that ends with the data is left for the next completion.  *)
HasPacketNotLast == HasHeader /\ ~ Malformed /\ dataSize > Size

HasPacket == HasHeader /\ ~ Malformed /\ dataSize >= Size

(* Mutant: the header is not counted, the next packet is sought too early.    *)
OnRecvPacketBodyOnly(rejected) ==
  /\ pc = "onrecv" /\ HasPacket
  /\ seen' = Append(seen, SubSeq(packetData, processedLen + 1, processedLen + Size))
  /\ processedLen' = processedLen + (IF Size > HeaderSize THEN Size - HeaderSize ELSE Size)
  /\ IF rejected THEN Disconnect("rejected") ELSE UNCHANGED connVars
  /\ UNCHANGED <<ringVars, pc, spans, got, packetData, peerVars>>

(* OnRecvPacket handles one packet.  It may disconnect the session (the rate  *)
(* limit is reached, the packet cannot be parsed); OnRecv goes on with the    *)
(* next packet nevertheless.                                                  *)
OnRecvPacket(rejected) ==
  /\ pc = "onrecv" /\ HasPacket
  /\ seen' = Append(seen, SubSeq(packetData, processedLen + 1, processedLen + Size))
  /\ processedLen' = processedLen + Size
  /\ IF rejected THEN Disconnect("rejected") ELSE UNCHANGED connVars
  /\ UNCHANGED <<ringVars, pc, spans, got, packetData, peerVars>>

EndRecv(ok, moved) ==
  /\ pc = "onrecv" /\ ~ HasPacket
  /\ IF ok THEN /\ readPos' = Advance(readPos, moved)
                /\ pc' = "register"
                /\ UNCHANGED connVars
           ELSE /\ pc' = "off" /\ Disconnect("invalid")
                /\ UNCHANGED readPos
  /\ packetData' = <<>> /\ processedLen' = 0
  /\ UNCHANGED <<buffer, writePos, spans, got, peerVars, seen>>

(* Mutant: OnRecv returns len, the begin of an unfinished packet is dropped.  *)
OnRecvEndDrops == EndRecv(~ Malformed /\ processedLen > 0, Len(packetData))

(* OnRecv returns: -1 for a malformed header, else processedLen.  MoveReadPos *)
(* fails for 0, and then ProcessRecv disconnects.                             *)
OnRecvEnd == EndRecv(~ Malformed /\ processedLen > 0, processedLen)

-----------------------------------------------------------------------------
(* The environment: the peer sends a packet; another thread disconnects.      *)
PeerSend(size) ==
  /\ Len(sent) < MaxPackets
  /\ sent' = Append(sent, size)
  /\ network' = network \o PacketBytes(Len(sent) + 1, size)
  /\ UNCHANGED <<ringVars, connVars, pc, spans, got, localVars, seen>>

OtherDisconnect ==
  /\ connected
  /\ Disconnect("other")
  /\ UNCHANGED <<ringVars, pc, spans, got, localVars, peerVars, seen>>

ChainStep == \/ \E accepted \in BOOLEAN : RegisterRecv(accepted)
             \/ ProcessRecv
             \/ \E rejected \in BOOLEAN : OnRecvPacket(rejected)
             \/ OnRecvEnd
SystemStep == \E n \in 0..Capacity : RecvComplete(n)

Next == \/ ChainStep
        \/ SystemStep
        \/ \E size \in PacketSizes : PeerSend(size)
        \/ OtherDisconnect

Spec == Init /\ [][Next]_vars

(* Workers go on with what they have begun, and bytes that were sent arrive.  *)
Fairness == /\ WF_vars(ChainStep)
            /\ WF_vars(\E n \in 1..Capacity : RecvComplete(n))

FairSpec == Spec /\ Fairness

-----------------------------------------------------------------------------
(* The packets handed to OnRecvPacket are the packets the peer sent, whole,   *)
(* in order and without a gap, however the bytes arrived and wherever the     *)
(* ring buffer wrapped.                                                       *)
FramingIntact == \A k \in DOMAIN seen : seen[k] = PacketBytes(k, sent[k])

(* No byte is lost or doubled between the peer and the handler: what a        *)
(* connected session has handled, what is unread and what is on the way are   *)
(* together what was sent.                                                    *)
UnreadBytes == IF pc = "onrecv" THEN SubSeq(packetData, processedLen + 1, Len(packetData))
               ELSE Load(buffer, readPos, DataSize(readPos, writePos) + got)
Following(byte) == IF byte[2] = WireSize(sent[byte[1]]) THEN <<byte[1] + 1, 1>>
                                                        ELSE <<byte[1], byte[2] + 1>>
BytesConserved ==
  LET next == <<Len(seen) + 1, 1>>
      rest == UnreadBytes \o network
  IN connected =>
       /\ \A i \in DOMAIN rest : rest[i] = IF i = 1 THEN next ELSE Following(rest[i - 1])
       /\ IF rest = <<>> THEN Len(seen) = Len(sent)
                        ELSE Following(rest[Len(rest)]) = <<Len(sent) + 1, 1>>

(* While the session waits for more bytes no complete packet lies in its      *)
(* buffer: a packet is handled as soon as its last byte is there.             *)
NoPacketLeftBehind ==
  pc = "posted" =>
    LET unread == Load(buffer, readPos, DataSize(readPos, writePos))
    IN Len(unread) >= HeaderSize => Len(unread) < sent[unread[1][1]]

(* The receive buffer is sound: no byte is lost or repeated, no whole packet  *)
(* is left lying, and every position is in range, whatever pieces the bytes   *)
(* arrive in.                                                                 *)
RecvSound == TypeOK /\ BytesConserved /\ NoPacketLeftBehind

(* Every packet that was sent is handled or the session is disconnected.      *)
PacketsHandled ==
  \A k \in 1..MaxPackets : (Len(sent) >= k) ~> (Len(seen) >= k \/ ~ connected)

(* A session is disconnected as invalid only because of a malformed header:   *)
(* a packet of which only a part has arrived is waited for.                   *)
PartialPacketWaits == cause = "invalid" => \E k \in DOMAIN sent : sent[k] < HeaderSize
=============================================================================
