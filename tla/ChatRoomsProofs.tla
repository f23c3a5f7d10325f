--------------------------- MODULE ChatRoomsProofs ---------------------------
(* Proofs about ChatRooms for any number of sessions, rooms and requests.     *)
EXTENDS ChatRooms, SequenceFacts, FiniteSetTheorems

-----------------------------------------------------------------------------
(* The types, with what every job and every handler carries at its place.     *)
GoodJobs == {j \in Jobs : j.op = "leaveAndEnter" => j.target \in Rooms}
Leavings == [job : {j \in GoodJobs : j.op \in {"leave", "leaveAndEnter"}}, mine : BOOLEAN]
Handlers == [at : {"idle", "find", "create", "read", "push"}, op : Ops,
             id : RoomIds, target : MaybeRoom, old : MaybeRoom]

HandlerShape(h) ==
  /\ h.at = "idle" => h = Idle
  /\ h.at \in {"find", "create"} => h.op = "enter"
  /\ h.op = "enter" /\ h.at \in {"read", "push"} => h.target # NoRoom
  /\ h.op # "enter" /\ h.at = "push" => h.old # NoRoom

Shapes ==
  /\ rooms \in [RoomIds -> MaybeRoom]
  /\ mailbox \in [Rooms -> Seq(GoodJobs)]
  /\ leaving \in [Rooms -> SUBSET Leavings]
  /\ \A r \in Rooms : \A l, m \in leaving[r] : l = m
  /\ inRecv \in [Sessions -> BOOLEAN]
  /\ members \in [Rooms -> SUBSET Sessions]
  /\ room \in [Sessions -> MaybeRoom]
  /\ conn \in [Sessions -> {"up", "down", "read", "pushed", "gone"}]
  /\ found \in [Sessions -> MaybeRoom]
  /\ handler \in [Sessions -> Handlers]
  /\ \A s \in Sessions : HandlerShape(handler[s])
  /\ sent \in [Sessions -> Nat]
  /\ awaiting \in [Sessions -> {"no", "enter", "leave"}]
  /\ view \in [Sessions -> MaybeRoom]
  /\ \A s \in Sessions : conn[s] = "read" => found[s] # NoRoom
  /\ SameIdSameRoom

-----------------------------------------------------------------------------
(* A client that waits for its answers.  A move of a session is an enter or a *)
(* leave: with the handler, as a job in a mailbox, or as a Leave in progress. *)
Moving(s) == handler[s].at # "idle" /\ handler[s].op # "chat"

MoveJob(s, r, i) ==
  i \in 1..Len(mailbox[r]) /\ mailbox[r][i].s = s /\ mailbox[r][i].op # "chat"

Answer(op) == IF op = "leave" THEN "leave" ELSE "enter"

(* Until OnDisconnected looks at _room a session has one move at most, the    *)
(* one it awaits, ...                                                         *)
OneMove(s) ==
  /\ Moving(s) => /\ \A r \in Rooms : \A i \in Nat : ~ MoveJob(s, r, i)
                  /\ \A r \in Rooms : \A l \in leaving[r] : l.job.s # s
  /\ \A r, q \in Rooms : \A i, j \in Nat : MoveJob(s, r, i) /\ MoveJob(s, q, j) => r = q /\ i = j
  /\ \A r \in Rooms : \A l \in leaving[r] : l.job.s = s =>
       /\ \A q \in Rooms : \A i \in Nat : ~ MoveJob(s, q, i)
       /\ \A q \in Rooms : \A m \in leaving[q] : m.job.s = s => q = r

(* ... and _room and _members agree except between the halves of Leave.       *)
Placed(s) ==
  /\ \A r \in Rooms : s \in members[r] => room[s] = r
  /\ \A r \in Rooms : room[s] = r /\ (\A l \in leaving[r] : l.job.s # s) => s \in members[r]
  /\ \A r \in Rooms : \A l \in leaving[r] : l.job.s = s =>
       room[s] = r /\ s \notin members[r] /\ l.mine /\ awaiting[s] = Answer(l.job.op)
  /\ \A r \in Rooms : \A i \in Nat : MoveJob(s, r, i) =>
       /\ room[s] = (IF mailbox[r][i].op = "enter" THEN NoRoom ELSE r)
       /\ awaiting[s] = Answer(mailbox[r][i].op)
  /\ Moving(s) /\ handler[s].at = "push" => handler[s].old = room[s]

(* Once OnDisconnected has looked, a session with no request to enter under   *)
(* way is a member only where a Leave for it is bound to come.                *)
Departing(s) ==
  awaiting[s] # "enter" \/ (Moving(s) /\ handler[s].op = "enter") =>
    /\ \A r \in Rooms : \A i \in Nat : MoveJob(s, r, i) => mailbox[r][i].op = "leave"
    /\ \A r \in Rooms : \A l \in leaving[r] : l.job.s = s => l.job.op = "leave"
    /\ \A r \in Rooms : s \in members[r] =>
         \/ conn[s] = "read" /\ found[s] = r
         \/ conn[s] \in {"pushed", "gone"} /\ \E i \in Nat : MoveJob(s, r, i)

SessionInv(s) ==
  /\ Moving(s) => awaiting[s] = handler[s].op
  /\ conn[s] = "up" => view[s] = room[s]
  /\ conn[s] \in {"up", "down"} => OneMove(s) /\ Placed(s)
  /\ conn[s] \in {"read", "pushed", "gone"} => Departing(s)

RoomsInv == Shapes /\ \A s \in Sessions : SessionInv(s)

-----------------------------------------------------------------------------
(* The shapes are inductive, whatever the clients ask.                        *)
LEMMA RoomLeft ==
  ASSUME Assumptions, rooms \in [RoomIds -> MaybeRoom], NEW i \in RoomIds, rooms[i] = NoRoom
  PROVE  NewRoom \in Rooms
<1> DEFINE others == RoomIds \ {i}
           f == [j \in others |-> rooms[j]]
           made == {rooms[j] : j \in others}
<1>1. \E r \in Rooms : \A j \in RoomIds : rooms[j] # r
  <2>1. SUFFICES ASSUME \A r \in Rooms : \E j \in RoomIds : rooms[j] = r PROVE FALSE
    OBVIOUS
  <2>2. Rooms \subseteq made
    BY <2>1 DEF Assumptions
  <2>3. f \in Surjection(others, made)
    BY DEF Surjection
  <2>4. IsFiniteSet(others) /\ Cardinality(others) = Cardinality(RoomIds) - 1
    <3>1. IsFiniteSet(RoomIds)
      BY DEF Assumptions
    <3> QED  BY <3>1, FS_RemoveElement
  <2>5. IsFiniteSet(made) /\ Cardinality(made) <= Cardinality(others)
    <3> HIDE DEF f, made, others
    <3> QED  BY <2>3, <2>4, FS_Surjection
  <2>6. Cardinality(Rooms) <= Cardinality(made)
    <3> HIDE DEF made
    <3> QED  BY <2>2, <2>5, FS_Subset
  <2>7. Cardinality(Rooms) \in Nat /\ Cardinality(RoomIds) \in Nat /\ Cardinality(made) \in Nat
    <3>1. IsFiniteSet(Rooms) /\ IsFiniteSet(RoomIds)
      BY DEF Assumptions
    <3> HIDE DEF made
    <3> QED  BY <3>1, <2>5, FS_CardinalityType
  <2>8. Cardinality(Rooms) >= Cardinality(RoomIds)
    BY DEF Assumptions
  <2> HIDE DEF made, others
  <2> QED  BY <2>4, <2>5, <2>6, <2>7, <2>8
<1> QED  BY <1>1 DEF NewRoom

LEMMA ShapesInit == Init => Shapes
<1> SUFFICES ASSUME Init PROVE Shapes
  OBVIOUS
<1>1. Idle \in Handlers /\ FirstRoom \in Rooms
  BY Assumptions DEF Assumptions, Idle, Handlers, Ops, MaybeRoom
<1>2. rooms \in [RoomIds -> MaybeRoom]
  BY <1>1 DEF Init, MaybeRoom
<1>3. \A s \in Sessions : HandlerShape(handler[s])
  BY DEF Init, HandlerShape, Idle
<1>4. SameIdSameRoom
  BY DEF Init, SameIdSameRoom, Idle
<1>5. mailbox \in [Rooms -> Seq(GoodJobs)]
  <2>1. <<>> \in Seq(GoodJobs)
    OBVIOUS
  <2> QED  BY <2>1 DEF Init
<1> QED  BY <1>1, <1>2, <1>3, <1>4, <1>5 DEF Init, Shapes, MaybeRoom

LEMMA JobIs ==
  ASSUME NEW op \in Ops \cup {"leaveAndEnter"}, NEW s \in Sessions, NEW q \in MaybeRoom,
         op = "leaveAndEnter" => q \in Rooms
  PROVE  Job(op, s, q) \in GoodJobs
BY DEF Job, Jobs, GoodJobs

LEMMA HeadIs ==
  ASSUME Shapes, NEW r \in Rooms, mailbox[r] # <<>>
  PROVE  /\ Head(mailbox[r]) \in GoodJobs /\ Head(mailbox[r]) = mailbox[r][1]
         /\ Tail(mailbox[r]) \in Seq(GoodJobs)
         /\ Len(Tail(mailbox[r])) = Len(mailbox[r]) - 1
         /\ Len(mailbox[r]) \in Nat \ {0}
         /\ \A i \in 1..(Len(mailbox[r]) - 1) : Tail(mailbox[r])[i] = mailbox[r][i + 1]
<1>1. mailbox[r] \in Seq(GoodJobs)
  BY DEF Shapes
<1> QED  BY <1>1, HeadTailProperties

LEMMA PostIs ==
  ASSUME Shapes, NEW r \in Rooms, NEW job \in GoodJobs, Post(r, job)
  PROVE  mailbox' \in [Rooms -> Seq(GoodJobs)]
<1>1. Append(mailbox[r], job) \in Seq(GoodJobs)
  BY AppendProperties DEF Shapes
<1> QED  BY <1>1 DEF Post, Shapes

LEMMA TakeIs ==
  ASSUME Shapes, NEW r \in Rooms, mailbox[r] # <<>>, mailbox' = [mailbox EXCEPT ![r] = Tail(@)]
  PROVE  mailbox' \in [Rooms -> Seq(GoodJobs)]
BY HeadIs DEF Shapes

(* The steps, by the session or room that takes them.                         *)
LEMMA RoomSteps ==
  ASSUME [Next]_vars
  PROVE  \/ \E s \in Sessions : \/ RecvBegin(s) \/ Disconnect(s) \/ RecvEnd(s) \/ FindRoom(s)
                                \/ CreateRoom(s) \/ ReadRoom(s) \/ PushJob(s)
                                \/ OnDisconnected(s) \/ DisconnectLeave(s) \/ DisconnectClear(s)
         \/ \E s \in Sessions, op \in Ops, id \in RoomIds : Packet(s, op, id)
         \/ \E r \in Rooms : Enter(r) \/ Leave(r) \/ LeaveEnd(r) \/ HandleChat(r)
         \/ UNCHANGED vars
BY DEF Next, HandlerStep, CloseStep, RoomStep

LEMMA ShapesNext == Shapes /\ [Next]_vars => Shapes'
<1> SUFFICES ASSUME Shapes, [Next]_vars PROVE Shapes'
  OBVIOUS
<1> USE DEF managerVars, roomVars, sessionVars, clientVars
<1>1. ASSUME NEW s \in Sessions, RecvBegin(s) PROVE Shapes'
  BY <1>1 DEF RecvBegin, Shapes, SameIdSameRoom
<1>2. ASSUME NEW s \in Sessions, RecvEnd(s) PROVE Shapes'
  BY <1>2 DEF RecvEnd, Shapes, SameIdSameRoom
<1>3. ASSUME NEW s \in Sessions, NEW op \in Ops, NEW id \in RoomIds, Packet(s, op, id) PROVE Shapes'
  <2> DEFINE h == [Idle EXCEPT !.at = IF op = "enter" THEN "find" ELSE "read",
                               !.op = op, !.id = id]
  <2>1. h \in Handlers /\ HandlerShape(h) /\ h.target = NoRoom
    BY Assumptions DEF Assumptions, Handlers, Idle, HandlerShape, MaybeRoom, Ops
  <2>2. handler' = [handler EXCEPT ![s] = h]
    BY <1>3 DEF Packet
  <2> HIDE DEF h
  <2>3. /\ handler' \in [Sessions -> Handlers] /\ \A p \in Sessions : HandlerShape(handler[p])'
        /\ SameIdSameRoom'
    BY <2>1, <2>2, <1>3 DEF Packet, Shapes, SameIdSameRoom
  <2>4. sent' \in [Sessions -> Nat] /\ awaiting' \in [Sessions -> {"no", "enter", "leave"}]
    BY <1>3 DEF Packet, Shapes, Ops
  <2> QED  BY <2>3, <2>4, <1>3 DEF Packet, Shapes
<1>4. ASSUME NEW s \in Sessions, FindRoom(s) PROVE Shapes'
  <2> DEFINE h == [handler[s] EXCEPT !.at = IF rooms[handler[s].id] = NoRoom THEN "create" ELSE "read",
                                     !.target = rooms[handler[s].id]]
  <2>1. handler' = [handler EXCEPT ![s] = h]
    BY <1>4 DEF FindRoom, Shapes
  <2>2. h \in Handlers /\ HandlerShape(h) /\ h.id = handler[s].id /\ h.target = rooms[h.id]
    <3>1. /\ handler[s] \in Handlers /\ handler[s].at = "find" /\ HandlerShape(handler[s])
          /\ rooms[handler[s].id] \in MaybeRoom
      BY <1>4 DEF FindRoom, Shapes, Handlers
    <3>2. h \in Handlers /\ h.id = handler[s].id /\ h.op = handler[s].op /\ h.target = rooms[handler[s].id]
          /\ h.at = IF rooms[handler[s].id] = NoRoom THEN "create" ELSE "read"
      BY <3>1 DEF Handlers
    <3> HIDE DEF h
    <3> QED  BY <3>1, <3>2 DEF HandlerShape
  <2> HIDE DEF h
  <2>3. /\ handler' \in [Sessions -> Handlers] /\ \A p \in Sessions : HandlerShape(handler[p])'
        /\ SameIdSameRoom'
    BY <2>1, <2>2, <1>4 DEF FindRoom, Shapes, SameIdSameRoom
  <2> QED  BY <2>3, <1>4 DEF FindRoom, Shapes
<1>5. ASSUME NEW s \in Sessions, CreateRoom(s) PROVE Shapes'
  <2> DEFINE i == handler[s].id
             made == IF rooms[i] # NoRoom THEN rooms[i] ELSE NewRoom
             h == [handler[s] EXCEPT !.at = "read", !.target = made]
  <2>0. i \in RoomIds
    BY DEF Shapes, Handlers
  <2>1. made \in Rooms /\ made \in MaybeRoom /\ made # NoRoom
    BY <2>0, RoomLeft, Assumptions DEF Assumptions, Shapes, MaybeRoom
  <2>2. handler' = [handler EXCEPT ![s] = h] /\ rooms' = [rooms EXCEPT ![i] = made]
    BY <1>5 DEF CreateRoom, Shapes
  <2>3. h \in Handlers /\ HandlerShape(h) /\ h.id = i /\ h.target = made
    <3> HIDE DEF made
    <3> QED  BY <2>1, <1>5 DEF CreateRoom, Shapes, Handlers, HandlerShape
  <2>4. rooms' \in [RoomIds -> MaybeRoom] /\ rooms'[i] = made
        /\ \A j \in RoomIds : rooms[j] # NoRoom => rooms'[j] = rooms[j]
    BY <2>0, <2>1, <2>2 DEF Shapes
  <2> HIDE DEF h, i, made
  <2>5. handler' \in [Sessions -> Handlers] /\ \A p \in Sessions : HandlerShape(handler[p])'
    BY <2>2, <2>3 DEF Shapes
  <2>6. SameIdSameRoom'
    BY <2>0, <2>2, <2>3, <2>4 DEF Shapes, SameIdSameRoom, Handlers
  <2> QED  BY <2>4, <2>5, <2>6, <1>5 DEF CreateRoom, Shapes
<1>6. ASSUME NEW s \in Sessions, ReadRoom(s) PROVE Shapes'
  <2>1. handler[s] \in Handlers /\ HandlerShape(handler[s]) /\ handler[s].at = "read"
    BY <1>6 DEF ReadRoom, Shapes
  <2>2. /\ [handler[s] EXCEPT !.at = "push", !.old = room[s]] \in Handlers
        /\ Idle \in Handlers /\ HandlerShape(Idle)
    BY <2>1, Assumptions DEF Assumptions, Shapes, Handlers, Idle, HandlerShape, MaybeRoom, Ops
  <2>3. PICK h \in Handlers : /\ handler' = [handler EXCEPT ![s] = h] /\ HandlerShape(h)
                              /\ \/ h = Idle
                                 \/ h.op = handler[s].op /\ h.target = handler[s].target /\ h.id = handler[s].id
    <3>1. CASE handler'[s] = Idle
      BY <1>6, <2>2, <3>1 DEF ReadRoom, Shapes
    <3>2. CASE handler'[s] # Idle
      <4> DEFINE g == [handler[s] EXCEPT !.at = "push", !.old = room[s]]
      <4>1. handler' = [handler EXCEPT ![s] = g]
        BY <1>6, <3>2 DEF ReadRoom, Shapes
      <4>2. IF handler[s].op = "enter" THEN room[s] # handler[s].target ELSE room[s] # NoRoom
        BY <1>6, <3>2 DEF ReadRoom, Shapes
      <4>3. HandlerShape(g)
        BY <2>1, <4>2 DEF HandlerShape, Handlers
      <4>4. g.op = handler[s].op /\ g.target = handler[s].target /\ g.id = handler[s].id
        BY <2>1 DEF Handlers
      <4>5. g \in Handlers
        BY <2>2
      <4> QED  BY <4>1, <4>3, <4>4, <4>5
    <3> QED  BY <3>1, <3>2
  <2>4. /\ handler' \in [Sessions -> Handlers] /\ \A p \in Sessions : HandlerShape(handler[p])'
        /\ SameIdSameRoom'
    BY <2>3, <1>6 DEF ReadRoom, Shapes, SameIdSameRoom, Idle
  <2>5. awaiting' \in [Sessions -> {"no", "enter", "leave"}]
    BY <1>6 DEF ReadRoom, Shapes
  <2> QED  BY <2>4, <2>5, <1>6 DEF ReadRoom, Shapes
<1>7. ASSUME NEW s \in Sessions, PushJob(s) PROVE Shapes'
  <2>1. handler[s] \in Handlers /\ HandlerShape(handler[s]) /\ handler[s].at = "push"
    BY <1>7 DEF PushJob, Shapes
  <2>2. \E r \in Rooms : \E job \in GoodJobs : Post(r, job)
    <3>1. CASE handler[s].op # "enter"
      <4>1. handler[s].old \in Rooms /\ Job(handler[s].op, s, NoRoom) \in GoodJobs
        BY <2>1, <3>1, JobIs DEF HandlerShape, Handlers, MaybeRoom, Ops
      <4> QED  BY <4>1, <3>1, <1>7 DEF PushJob
    <3>2. CASE handler[s].op = "enter" /\ handler[s].old # NoRoom
      <4>1. handler[s].old \in Rooms /\ Job("leaveAndEnter", s, handler[s].target) \in GoodJobs
        BY <2>1, <3>2, JobIs DEF HandlerShape, Handlers, MaybeRoom, Ops
      <4> QED  BY <4>1, <3>2, <1>7 DEF PushJob
    <3>3. CASE handler[s].op = "enter" /\ handler[s].old = NoRoom
      <4>1. handler[s].target \in Rooms /\ Job("enter", s, NoRoom) \in GoodJobs
        BY <2>1, <3>3, JobIs DEF HandlerShape, Handlers, MaybeRoom, Ops
      <4> QED  BY <4>1, <3>3, <1>7 DEF PushJob
    <3> QED  BY <3>1, <3>2, <3>3
  <2>3. mailbox' \in [Rooms -> Seq(GoodJobs)]
    BY <2>2, PostIs
  <2>4. Idle \in Handlers /\ HandlerShape(Idle) /\ Idle.target = NoRoom
    BY Assumptions DEF Assumptions, Handlers, Idle, HandlerShape, MaybeRoom, Ops
  <2>5. /\ handler' \in [Sessions -> Handlers] /\ \A p \in Sessions : HandlerShape(handler[p])'
        /\ SameIdSameRoom'
    BY <2>4, <1>7 DEF PushJob, Shapes, SameIdSameRoom
  <2> QED  BY <2>3, <2>5, <1>7 DEF PushJob, Shapes
<1>8. ASSUME NEW s \in Sessions, Disconnect(s) PROVE Shapes'
  BY <1>8 DEF Disconnect, Shapes, SameIdSameRoom
<1>9. ASSUME NEW s \in Sessions, OnDisconnected(s) PROVE Shapes'
  BY <1>9 DEF OnDisconnected, Shapes, SameIdSameRoom
<1>10. ASSUME NEW s \in Sessions, DisconnectLeave(s) PROVE Shapes'
  <2>1. found[s] \in Rooms /\ Job("leave", s, NoRoom) \in GoodJobs
    BY <1>10, JobIs DEF DisconnectLeave, Shapes, MaybeRoom, Ops
  <2>2. mailbox' \in [Rooms -> Seq(GoodJobs)]
    BY <2>1, <1>10, PostIs DEF DisconnectLeave
  <2> QED  BY <2>2, <1>10 DEF DisconnectLeave, Shapes, SameIdSameRoom
<1>11. ASSUME NEW s \in Sessions, DisconnectClear(s) PROVE Shapes'
  BY <1>11 DEF DisconnectClear, Shapes, SameIdSameRoom, MaybeRoom
<1>12. ASSUME NEW r \in Rooms, Enter(r) PROVE Shapes'
  <2>1. mailbox[r] # <<>> /\ mailbox' = [mailbox EXCEPT ![r] = Tail(@)]
    BY <1>12 DEF Enter, Runs
  <2>2. Head(mailbox[r]).s \in Sessions
    BY <2>1, HeadIs DEF GoodJobs, Jobs
  <2>3. mailbox' \in [Rooms -> Seq(GoodJobs)]
    BY <2>1, TakeIs
  <2>4. members' \in [Rooms -> SUBSET Sessions] /\ room' \in [Sessions -> MaybeRoom]
    BY <2>2, <1>12 DEF Enter, Shapes, MaybeRoom
  <2>5. view' \in [Sessions -> MaybeRoom] /\ awaiting' \in [Sessions -> {"no", "enter", "leave"}]
    BY <2>2, <1>12 DEF Enter, Shapes, MaybeRoom
  <2> QED  BY <2>3, <2>4, <2>5, <1>12 DEF Enter, Shapes, SameIdSameRoom
<1>13. ASSUME NEW r \in Rooms, Leave(r) PROVE Shapes'
  <2>1. /\ mailbox[r] # <<>> /\ mailbox' = [mailbox EXCEPT ![r] = Tail(@)]
        /\ Head(mailbox[r]).op \in {"leave", "leaveAndEnter"}
    BY <1>13 DEF Leave, Runs
  <2>2. Head(mailbox[r]) \in GoodJobs /\ Head(mailbox[r]).s \in Sessions
    BY <2>1, HeadIs DEF GoodJobs, Jobs
  <2>3. mailbox' \in [Rooms -> Seq(GoodJobs)]
    BY <2>1, TakeIs
  <2>4. members' \in [Rooms -> SUBSET Sessions]
    BY <1>13 DEF Leave, Shapes
  <2>5. PICK l \in Leavings : leaving' = [leaving EXCEPT ![r] = {l}]
    <3> DEFINE k == [job |-> Head(mailbox[r]), mine |-> room[Head(mailbox[r]).s] = r]
    <3>1. (room[Head(mailbox[r]).s] = r) \in BOOLEAN
      OBVIOUS
    <3>2. k \in Leavings
      BY <2>1, <2>2, <3>1 DEF Leavings
    <3>3. leaving' = [leaving EXCEPT ![r] = {k}]
      BY <1>13 DEF Leave
    <3> QED  BY <3>2, <3>3
  <2>6. leaving' \in [Rooms -> SUBSET Leavings] /\ \A q \in Rooms : \A k, m \in leaving'[q] : k = m
    BY <2>5 DEF Shapes
  <2> QED  BY <2>3, <2>4, <2>6, <1>13 DEF Leave, Shapes, SameIdSameRoom
<1>14. ASSUME NEW r \in Rooms, LeaveEnd(r) PROVE Shapes'
  <2>1. PICK l \in leaving[r] :
          /\ room' = [room EXCEPT ![l.job.s] = IF l.mine THEN NoRoom ELSE @]
          /\ IF conn[l.job.s] = "up"
               THEN /\ view' = [view EXCEPT ![l.job.s] = NoRoom]
                    /\ awaiting' = [awaiting EXCEPT ![l.job.s] = IF @ = "leave" THEN "no" ELSE @]
               ELSE UNCHANGED <<view, awaiting>>
          /\ IF l.job.op = "leaveAndEnter" THEN Post(l.job.target, Job("enter", l.job.s, NoRoom))
                                           ELSE UNCHANGED mailbox
    BY <1>14 DEF LeaveEnd
  <2>2. /\ l \in Leavings /\ l.job \in GoodJobs /\ l.job.s \in Sessions
        /\ l.job.op = "leaveAndEnter" => l.job.target \in Rooms
    BY DEF Shapes, Leavings, GoodJobs, Jobs
  <2>3. mailbox' \in [Rooms -> Seq(GoodJobs)]
    <3>1. Job("enter", l.job.s, NoRoom) \in GoodJobs
      BY <2>2, JobIs DEF MaybeRoom, Ops
    <3>2. CASE l.job.op = "leaveAndEnter"
      BY <2>1, <2>2, <3>1, <3>2, PostIs
    <3>3. CASE l.job.op # "leaveAndEnter"
      BY <2>1, <3>3 DEF Shapes
    <3> QED  BY <3>2, <3>3
  <2>4. room' \in [Sessions -> MaybeRoom]
    BY <2>1 DEF Shapes, MaybeRoom
  <2>5. /\ view' \in [Sessions -> MaybeRoom]
        /\ awaiting' \in [Sessions -> {"no", "enter", "leave"}]
    <3>0. /\ view \in [Sessions -> MaybeRoom] /\ awaiting \in [Sessions -> {"no", "enter", "leave"}]
          /\ NoRoom \in MaybeRoom
      BY DEF Shapes, MaybeRoom
    <3>1. CASE conn[l.job.s] = "up"
      BY <2>1, <3>0, <3>1
    <3>2. CASE conn[l.job.s] # "up"
      BY <2>1, <3>0, <3>2
    <3> QED  BY <3>1, <3>2
  <2>6. leaving' \in [Rooms -> SUBSET Leavings] /\ \A q \in Rooms : \A m, n \in leaving'[q] : m = n
    BY <1>14 DEF LeaveEnd, Shapes
  <2> QED  BY <2>3, <2>4, <2>5, <2>6, <1>14 DEF LeaveEnd, Shapes, SameIdSameRoom
<1>15. ASSUME NEW r \in Rooms, HandleChat(r) PROVE Shapes'
  <2>1. mailbox' \in [Rooms -> Seq(GoodJobs)]
    BY <1>15, TakeIs DEF HandleChat, Runs
  <2> QED  BY <2>1, <1>15 DEF HandleChat, Shapes, SameIdSameRoom
<1>16. ASSUME UNCHANGED vars PROVE Shapes'
  BY <1>16 DEF vars, Shapes, SameIdSameRoom
<1> QED
  BY RoomSteps, <1>1, <1>2, <1>3, <1>4, <1>5, <1>6, <1>7, <1>8, <1>9, <1>10, <1>11, <1>12,
     <1>13, <1>14, <1>15, <1>16

(* The rooms are sound: two clients that ask for one id are sent to the one   *)
(* object RoomManager keeps under it, even when both find none and go on to   *)
(* create it, and no null room is used; for clients that wait for their       *)
(* answers and for clients that do not.                                       *)
THEOREM RoomsAreSound == Spec => []RoomsSound
<1>1. Shapes => RoomsSound
  <2> SUFFICES ASSUME Shapes PROVE RoomsSound
    OBVIOUS
  <2>1. GoodJobs \subseteq Jobs
    BY DEF GoodJobs
  <2>2. mailbox \in [Rooms -> Seq(Jobs)]
    <3> SUFFICES ASSUME NEW r \in Rooms PROVE mailbox[r] \in Seq(Jobs)
      BY DEF Shapes
    <3>1. mailbox[r] \in Seq(GoodJobs)
      BY DEF Shapes
    <3>2. \A i \in 1..Len(mailbox[r]) : mailbox[r][i] \in Jobs
      BY <2>1, <3>1, ElementOfSeq
    <3> QED  BY <3>1, <3>2, IsASeq, SeqDef
  <2>3. leaving \in [Rooms -> SUBSET [job : Jobs, mine : BOOLEAN]]
    <3>1. Leavings \subseteq [job : Jobs, mine : BOOLEAN]
      BY <2>1 DEF Leavings
    <3> QED  BY <3>1 DEF Shapes
  <2> QED  BY <2>2, <2>3 DEF RoomsSound, TypeOK, Shapes, HandlerShape, Handlers
<1> QED  BY <1>1, ShapesInit, ShapesNext, PTL DEF Spec

-----------------------------------------------------------------------------
(* What a posted and a taken job mean for the moves of a session.             *)
LEMMA Posted ==
  ASSUME Shapes, NEW p \in Rooms, NEW job \in GoodJobs, Post(p, job),
         NEW s \in Sessions, NEW r \in Rooms, NEW i \in Nat
  PROVE  /\ MoveJob(s, r, i) => MoveJob(s, r, i)' /\ mailbox'[r][i] = mailbox[r][i]
         /\ MoveJob(s, r, i)' =>
              \/ MoveJob(s, r, i) /\ mailbox'[r][i] = mailbox[r][i]
              \/ /\ r = p /\ i = Len(mailbox[p]) + 1 /\ mailbox'[r][i] = job
                 /\ job.s = s /\ job.op # "chat"
<1>1. mailbox[r] \in Seq(GoodJobs) /\ mailbox[p] \in Seq(GoodJobs)
  BY DEF Shapes
<1>2. CASE r # p
  <2>1. mailbox'[r] = mailbox[r]
    BY <1>2 DEF Post, Shapes
  <2> QED  BY <2>1 DEF MoveJob
<1>3. CASE r = p
  <2>1. mailbox'[r] = Append(mailbox[r], job)
    BY <1>3 DEF Post, Shapes
  <2>2. /\ Len(mailbox'[r]) = Len(mailbox[r]) + 1 /\ mailbox'[r][Len(mailbox[r]) + 1] = job
        /\ \A j \in 1..Len(mailbox[r]) : mailbox'[r][j] = mailbox[r][j]
        /\ Len(mailbox[r]) \in Nat
    BY <1>1, <2>1, AppendProperties, LenProperties
  <2>3. CASE i \in 1..Len(mailbox[r])
    BY <2>2, <2>3 DEF MoveJob
  <2>4. CASE i \notin 1..Len(mailbox[r])
    BY <1>3, <2>2, <2>4 DEF MoveJob
  <2> QED  BY <2>3, <2>4
<1> QED  BY <1>2, <1>3

LEMMA PostedIs ==
  ASSUME Shapes, NEW p \in Rooms, NEW job \in GoodJobs, Post(p, job), job.op # "chat",
         NEW s \in Sessions, job.s = s
  PROVE  \E n \in Nat : MoveJob(s, p, n)' /\ mailbox'[p][n] = job
<1>1. mailbox[p] \in Seq(GoodJobs) /\ mailbox'[p] = Append(mailbox[p], job)
  BY DEF Shapes, Post
<1>2. /\ Len(mailbox'[p]) = Len(mailbox[p]) + 1 /\ mailbox'[p][Len(mailbox[p]) + 1] = job
      /\ Len(mailbox[p]) \in Nat
  BY <1>1, AppendProperties, LenProperties
<1> DEFINE n == Len(mailbox[p]) + 1
<1>3. n \in Nat /\ n \in 1..Len(mailbox'[p]) /\ mailbox'[p][n] = job
  BY <1>2
<1>4. ASSUME NEW k \in Nat, k \in 1..Len(mailbox'[p]), mailbox'[p][k] = job PROVE MoveJob(s, p, k)'
  BY <1>4 DEF MoveJob
<1> HIDE DEF n
<1> QED  BY <1>3, <1>4

Shift(p, r) == IF r = p THEN 1 ELSE 0

LEMMA Taken ==
  ASSUME Shapes, NEW p \in Rooms, mailbox[p] # <<>>,
         mailbox' = [mailbox EXCEPT ![p] = Tail(@)],
         NEW s \in Sessions, NEW r \in Rooms, NEW i \in Nat
  PROVE  /\ MoveJob(s, r, i)' => /\ MoveJob(s, r, i + Shift(p, r))
                                 /\ mailbox'[r][i] = mailbox[r][i + Shift(p, r)]
         /\ MoveJob(s, r, i) => \/ r = p /\ i = 1
                                \/ \E j \in Nat : MoveJob(s, r, j)' /\ mailbox'[r][j] = mailbox[r][i]
<1>1. CASE r # p
  <2>1. mailbox'[r] = mailbox[r]
    BY <1>1 DEF Shapes
  <2>2. i + Shift(p, r) = i
    BY <1>1 DEF Shift
  <2> QED  BY <2>1, <2>2 DEF MoveJob
<1>2. CASE r = p
  <2>1. mailbox'[r] = Tail(mailbox[r]) /\ Shift(p, r) = 1
    BY <1>2 DEF Shapes, Shift
  <2>2. /\ Len(mailbox'[r]) = Len(mailbox[r]) - 1 /\ Len(mailbox[r]) \in Nat \ {0}
        /\ \A j \in 1..(Len(mailbox[r]) - 1) : mailbox'[r][j] = mailbox[r][j + 1]
    BY <1>2, <2>1, HeadIs
  <2>3. MoveJob(s, r, i)' => MoveJob(s, r, i + 1) /\ mailbox'[r][i] = mailbox[r][i + 1]
    BY <2>2 DEF MoveJob
  <2>4. ASSUME MoveJob(s, r, i), i # 1
        PROVE  i - 1 \in Nat /\ MoveJob(s, r, i - 1)' /\ mailbox'[r][i - 1] = mailbox[r][i]
    <3>1. i \in 1..Len(mailbox[r]) /\ i - 1 \in 1..(Len(mailbox[r]) - 1)
      BY <2>2, <2>4 DEF MoveJob
    <3>2. mailbox'[r][i - 1] = mailbox[r][(i - 1) + 1] /\ (i - 1) + 1 = i
      BY <2>2, <3>1
    <3> QED  BY <2>2, <2>4, <3>1, <3>2 DEF MoveJob
  <2> QED  BY <1>2, <2>1, <2>3, <2>4
<1> QED  BY <1>1, <1>2

Same(s) ==
  /\ handler'[s] = handler[s] /\ conn'[s] = conn[s] /\ found'[s] = found[s]
  /\ awaiting'[s] = awaiting[s] /\ view'[s] = view[s] /\ room'[s] = room[s]
  /\ \A r \in Rooms : s \in members'[r] <=> s \in members[r]
  /\ \A r \in Rooms : \A l \in leaving'[r] : l.job.s = s => l \in leaving[r]
  /\ \A r \in Rooms : \A l \in leaving[r] : l.job.s = s => l \in leaving'[r]

(* A session that a step does not touch, but for jobs of others in front of   *)
(* its own that are done, stays as it was.                                    *)
LEMMA Untouched ==
  ASSUME NEW s \in Sessions, SessionInv(s), Same(s), NEW d \in [Rooms -> Nat],
         \A r \in Rooms : \A i \in Nat : MoveJob(s, r, i)' =>
           MoveJob(s, r, i + d[r]) /\ mailbox'[r][i] = mailbox[r][i + d[r]],
         \A r \in Rooms : \A i \in Nat : MoveJob(s, r, i) => \E j \in Nat : MoveJob(s, r, j)'
  PROVE  SessionInv(s)'
<1>0. \A r \in Rooms : \A i \in Nat : i + d[r] \in Nat
  OBVIOUS
<1> USE DEF Same
<1>1. Moving(s)' <=> Moving(s)
  BY DEF Moving
<1>2. OneMove(s) => OneMove(s)'
  <2> SUFFICES ASSUME OneMove(s) PROVE OneMove(s)'
    OBVIOUS
  <2>1. Moving(s)' => /\ \A r \in Rooms : \A i \in Nat : ~ MoveJob(s, r, i)'
                      /\ \A r \in Rooms : \A l \in leaving'[r] : l.job.s # s
    BY <1>0, <1>1 DEF OneMove
  <2>2. \A r, q \in Rooms : \A i, j \in Nat : MoveJob(s, r, i)' /\ MoveJob(s, q, j)' => r = q /\ i = j
    <3> SUFFICES ASSUME NEW r \in Rooms, NEW q \in Rooms, NEW i \in Nat, NEW j \in Nat,
                        MoveJob(s, r, i)', MoveJob(s, q, j)'
                 PROVE  r = q /\ i = j
      OBVIOUS
    <3>1. MoveJob(s, r, i + d[r]) /\ MoveJob(s, q, j + d[q])
      OBVIOUS
    <3>2. r = q /\ i + d[r] = j + d[q]
      BY <1>0, <3>1 DEF OneMove
    <3> QED  BY <3>2
  <2>3. \A r \in Rooms : \A l \in leaving'[r] : l.job.s = s =>
          /\ \A q \in Rooms : \A i \in Nat : ~ MoveJob(s, q, i)'
          /\ \A q \in Rooms : \A m \in leaving'[q] : m.job.s = s => q = r
    BY <1>0 DEF OneMove
  <2> QED  BY <2>1, <2>2, <2>3 DEF OneMove
<1>3. Placed(s) => Placed(s)'
  <2> SUFFICES ASSUME Placed(s) PROVE Placed(s)'
    OBVIOUS
  <2>1. \A r \in Rooms : \A i \in Nat : MoveJob(s, r, i)' =>
          /\ room'[s] = (IF mailbox'[r][i].op = "enter" THEN NoRoom ELSE r)
          /\ awaiting'[s] = Answer(mailbox'[r][i].op)
    BY <1>0, SMTT(30) DEF Placed
  <2>2. \A r \in Rooms : room[s] = r /\ (\A l \in leaving'[r] : l.job.s # s) => s \in members'[r]
    BY DEF Placed
  <2>3. \A r \in Rooms : \A l \in leaving'[r] : l.job.s = s =>
          room[s] = r /\ s \notin members'[r] /\ l.mine /\ awaiting[s] = Answer(l.job.op)
    BY DEF Placed
  <2>4. Moving(s)' /\ handler'[s].at = "push" => handler'[s].old = room'[s]
    BY <1>1 DEF Placed
  <2>5. \A r \in Rooms : s \in members'[r] => room'[s] = r
    BY DEF Placed
  <2> QED  BY <2>1, <2>2, <2>3, <2>4, <2>5 DEF Placed
<1>4. Departing(s) => Departing(s)'
  <2> SUFFICES ASSUME Departing(s), awaiting'[s] # "enter" \/ (Moving(s)' /\ handler'[s].op = "enter")
               PROVE  /\ \A r \in Rooms : \A i \in Nat : MoveJob(s, r, i)' => mailbox'[r][i].op = "leave"
                      /\ \A r \in Rooms : \A l \in leaving'[r] : l.job.s = s => l.job.op = "leave"
                      /\ \A r \in Rooms : s \in members'[r] =>
                           \/ conn'[s] = "read" /\ found'[s] = r
                           \/ conn'[s] \in {"pushed", "gone"} /\ \E i \in Nat : MoveJob(s, r, i)'
    BY DEF Departing
  <2>0. awaiting[s] # "enter" \/ (Moving(s) /\ handler[s].op = "enter")
    BY <1>1
  <2>1. \A r \in Rooms : \A i \in Nat : MoveJob(s, r, i)' => mailbox'[r][i].op = "leave"
    BY <1>0, <2>0 DEF Departing
  <2>2. \A r \in Rooms : \A l \in leaving'[r] : l.job.s = s => l.job.op = "leave"
    BY <2>0 DEF Departing
  <2>3. ASSUME NEW r \in Rooms, s \in members'[r]
        PROVE  \/ conn'[s] = "read" /\ found'[s] = r
               \/ conn'[s] \in {"pushed", "gone"} /\ \E i \in Nat : MoveJob(s, r, i)'
    <3>1. \/ conn[s] = "read" /\ found[s] = r
          \/ conn[s] \in {"pushed", "gone"} /\ \E i \in Nat : MoveJob(s, r, i)
      BY <2>0, <2>3 DEF Departing
    <3> QED  BY <3>1
  <2> QED  BY <2>1, <2>2, <2>3
<1> QED  BY <1>1, <1>2, <1>3, <1>4 DEF SessionInv

LEMMA Unmoved ==
  ASSUME NEW s \in Sessions, SessionInv(s), Same(s), mailbox' = mailbox
  PROVE  SessionInv(s)'
<1> DEFINE d == [r \in Rooms |-> 0]
<1>1. \A r \in Rooms : \A i \in Nat : MoveJob(s, r, i)' <=> MoveJob(s, r, i)
  BY DEF MoveJob
<1>2. d \in [Rooms -> Nat] /\ \A r \in Rooms : \A i \in Nat : i + d[r] = i
  OBVIOUS
<1> HIDE DEF d
<1>3. \A r \in Rooms : \A i \in Nat : MoveJob(s, r, i)' =>
        MoveJob(s, r, i + d[r]) /\ mailbox'[r][i] = mailbox[r][i + d[r]]
  BY <1>1, <1>2
<1> QED  BY <1>1, <1>2, <1>3, Untouched

LEMMA OtherPosted ==
  ASSUME Shapes, NEW s \in Sessions, SessionInv(s), Same(s), NEW p \in Rooms, NEW job \in GoodJobs,
         Post(p, job), job.s # s \/ job.op = "chat"
  PROVE  SessionInv(s)'
<1> DEFINE d == [r \in Rooms |-> 0]
<1>1. \A r \in Rooms : \A i \in Nat : MoveJob(s, r, i) => MoveJob(s, r, i)'
  BY Posted
<1>2. \A r \in Rooms : \A i \in Nat : MoveJob(s, r, i)' =>
        MoveJob(s, r, i) /\ mailbox'[r][i] = mailbox[r][i]
  BY Posted
<1>3. d \in [Rooms -> Nat] /\ \A r \in Rooms : \A i \in Nat : i + d[r] = i
  OBVIOUS
<1> HIDE DEF d
<1>4. \A r \in Rooms : \A i \in Nat : MoveJob(s, r, i)' =>
        MoveJob(s, r, i + d[r]) /\ mailbox'[r][i] = mailbox[r][i + d[r]]
  BY <1>2, <1>3
<1> QED  BY <1>1, <1>3, <1>4, Untouched

LEMMA OtherTaken ==
  ASSUME Shapes, NEW s \in Sessions, SessionInv(s), Same(s), NEW p \in Rooms, mailbox[p] # <<>>,
         mailbox' = [mailbox EXCEPT ![p] = Tail(@)], ~ MoveJob(s, p, 1)
  PROVE  SessionInv(s)'
<1> DEFINE d == [r \in Rooms |-> Shift(p, r)]
<1>1. \A r \in Rooms : \A i \in Nat : MoveJob(s, r, i) => \E j \in Nat : MoveJob(s, r, j)'
  BY Taken
<1>2. \A r \in Rooms : \A i \in Nat : MoveJob(s, r, i)' =>
        MoveJob(s, r, i + Shift(p, r)) /\ mailbox'[r][i] = mailbox[r][i + Shift(p, r)]
  BY Taken, ZenonT(30)
<1>3. d \in [Rooms -> Nat] /\ \A r \in Rooms : d[r] = Shift(p, r)
  BY DEF Shift
<1> HIDE DEF d
<1>4. \A r \in Rooms : \A i \in Nat : MoveJob(s, r, i)' =>
        MoveJob(s, r, i + d[r]) /\ mailbox'[r][i] = mailbox[r][i + d[r]]
  BY <1>2, <1>3
<1> QED  BY <1>1, <1>3, <1>4, Untouched

-----------------------------------------------------------------------------
(* The invariant of a session, action by action.  Quiet: no room is touched.  *)
Quiet == mailbox' = mailbox /\ leaving' = leaving /\ members' = members

LEMMA QuietMoves ==
  ASSUME Quiet, NEW s \in Sessions
  PROVE  \A r \in Rooms : \A i \in Nat : MoveJob(s, r, i)' <=> MoveJob(s, r, i)
BY DEF Quiet, MoveJob

LEMMA RecvSession ==
  ASSUME RoomsInv, NEW p \in Sessions, NEW s \in Sessions, RecvBegin(p) \/ RecvEnd(p)
  PROVE  SessionInv(s)'
<1>1. Same(s) /\ mailbox' = mailbox
  BY DEF RecvBegin, RecvEnd, Same, managerVars, roomVars, sessionVars, clientVars
<1> QED  BY <1>1, Unmoved DEF RoomsInv

LEMMA DisconnectSession ==
  ASSUME RoomsInv, NEW p \in Sessions, NEW s \in Sessions, Disconnect(p)
  PROVE  SessionInv(s)'
<1> USE DEF managerVars, roomVars, sessionVars, clientVars
<1>1. CASE s # p
  <2>1. Same(s) /\ mailbox' = mailbox
    BY <1>1 DEF Disconnect, Same, RoomsInv, Shapes
  <2> QED  BY <2>1, Unmoved DEF RoomsInv
<1>2. CASE s = p
  <2>1. /\ Quiet /\ conn[s] = "up" /\ conn'[s] = "down" /\ handler'[s] = handler[s]
        /\ room'[s] = room[s] /\ awaiting'[s] = awaiting[s]
    BY <1>2 DEF Disconnect, RoomsInv, Shapes, Quiet
  <2>2. OneMove(s) /\ Placed(s) /\ (Moving(s) => awaiting[s] = handler[s].op)
    BY <2>1 DEF RoomsInv, SessionInv
  <2>3. OneMove(s)' /\ Placed(s)' /\ (Moving(s) <=> Moving(s)')
    BY <2>1, <2>2, QuietMoves DEF OneMove, Placed, Moving, Quiet
  <2> QED  BY <2>1, <2>2, <2>3 DEF SessionInv
<1> QED  BY <1>1, <1>2

LEMMA PacketSession ==
  ASSUME RoomsInv, ~ Pipelined, NEW p \in Sessions, NEW s \in Sessions,
         NEW op \in Ops, NEW id \in RoomIds, Packet(p, op, id)
  PROVE  SessionInv(s)'
<1> USE DEF managerVars, roomVars, sessionVars, clientVars
<1>1. CASE s # p
  <2>1. Same(s) /\ mailbox' = mailbox
    BY <1>1 DEF Packet, Same, RoomsInv, Shapes
  <2> QED  BY <2>1, Unmoved DEF RoomsInv
<1>2. CASE s = p
  <2>1. /\ Quiet /\ conn'[s] = conn[s] /\ found'[s] = found[s] /\ room'[s] = room[s] /\ view'[s] = view[s]
        /\ awaiting[s] = "no" /\ awaiting'[s] = (IF op = "chat" THEN "no" ELSE op)
    BY <1>2 DEF Packet, Sensible, RoomsInv, Shapes, Quiet, Ops
  <2>2. handler'[s].op = op /\ handler'[s].at \in {"find", "read"} /\ ~ Moving(s)
    BY <1>2 DEF Packet, RoomsInv, Shapes, Idle, Moving
  <2>3. ASSUME OneMove(s), Placed(s) PROVE OneMove(s)' /\ Placed(s)'
    <3>1. \A r \in Rooms : \A i \in Nat : ~ MoveJob(s, r, i) /\ ~ MoveJob(s, r, i)'
      BY <2>1, <2>3, QuietMoves DEF Placed, Answer
    <3>2. \A r \in Rooms : \A l \in leaving[r] : l.job.s # s
      BY <2>1, <2>3 DEF Placed, Answer
    <3>3. OneMove(s)'
      BY <2>1, <3>1, <3>2 DEF OneMove, Quiet
    <3>4. Placed(s)'
      BY <2>1, <2>2, <2>3, <3>1, <3>2 DEF Placed, Quiet
    <3> QED  BY <3>3, <3>4
  <2>4. ASSUME Departing(s) PROVE Departing(s)'
    BY <2>1, <2>4, QuietMoves DEF Departing, Quiet
  <2> QED  BY <2>1, <2>2, <2>3, <2>4 DEF SessionInv, RoomsInv, Moving
<1> QED  BY <1>1, <1>2

LEMMA FindSession ==
  ASSUME RoomsInv, NEW p \in Sessions, NEW s \in Sessions, FindRoom(p) \/ CreateRoom(p)
  PROVE  SessionInv(s)'
<1> USE DEF managerVars, roomVars, sessionVars, clientVars
<1>1. CASE s # p
  <2>1. Same(s) /\ mailbox' = mailbox
    BY <1>1 DEF FindRoom, CreateRoom, Same, RoomsInv, Shapes
  <2> QED  BY <2>1, Unmoved DEF RoomsInv
<1>2. CASE s = p
  <2>1. /\ Quiet /\ conn'[s] = conn[s] /\ found'[s] = found[s] /\ room'[s] = room[s] /\ view'[s] = view[s]
        /\ awaiting'[s] = awaiting[s]
    BY <1>2 DEF FindRoom, CreateRoom, RoomsInv, Shapes, Quiet
  <2>2. handler[s].op = "enter" /\ handler'[s].op = "enter" /\ handler[s].at # "idle"
        /\ handler'[s].at \in {"create", "read"}
    BY <1>2 DEF FindRoom, CreateRoom, RoomsInv, Shapes, HandlerShape, Handlers
  <2>3. Moving(s) /\ Moving(s)'
    BY <2>2 DEF Moving
  <2>4. ASSUME OneMove(s), Placed(s) PROVE OneMove(s)' /\ Placed(s)'
    <3>1. OneMove(s)'
      BY <2>1, <2>3, <2>4, QuietMoves DEF OneMove, Quiet
    <3>2. Placed(s)'
      BY <2>1, <2>2, <2>4, QuietMoves DEF Placed, Quiet
    <3> QED  BY <3>1, <3>2
  <2>5. ASSUME Departing(s) PROVE Departing(s)'
    BY <2>1, <2>2, <2>3, <2>5, QuietMoves DEF Departing, Quiet
  <2> QED  BY <2>1, <2>2, <2>3, <2>4, <2>5 DEF SessionInv, RoomsInv
<1> QED  BY <1>1, <1>2

LEMMA ReadSession ==
  ASSUME RoomsInv, NEW p \in Sessions, NEW s \in Sessions, ReadRoom(p)
  PROVE  SessionInv(s)'
<1> USE DEF managerVars, roomVars, sessionVars, clientVars
<1>1. CASE s # p
  <2>1. Same(s) /\ mailbox' = mailbox
    BY <1>1 DEF ReadRoom, Same, RoomsInv, Shapes
  <2> QED  BY <2>1, Unmoved DEF RoomsInv
<1>2. CASE s = p
  <2>1. /\ Quiet /\ conn'[s] = conn[s] /\ found'[s] = found[s] /\ room'[s] = room[s] /\ view'[s] = view[s]
        /\ handler[s] \in Handlers /\ handler[s].at = "read"
    BY <1>2 DEF ReadRoom, RoomsInv, Shapes, Quiet
  <2>2. Moving(s) <=> handler[s].op # "chat"
    BY <2>1 DEF Moving
  <2>3. \/ ~ Moving(s)' /\ awaiting'[s] = (IF Moving(s) THEN "no" ELSE awaiting[s])
        \/ /\ handler'[s].op = handler[s].op /\ handler'[s].at = "push" /\ handler'[s].old = room[s]
           /\ awaiting'[s] = awaiting[s]
    BY <1>2, <2>1, <2>2 DEF ReadRoom, RoomsInv, Shapes, Idle, Handlers, Moving
  <2>4. Moving(s)' => Moving(s) /\ awaiting'[s] = awaiting[s] /\ handler'[s].op = handler[s].op
                      /\ handler'[s].old = room[s]
    BY <2>2, <2>3 DEF Moving
  <2>5. (Moving(s) => awaiting[s] = handler[s].op) /\ (~ Moving(s) => awaiting'[s] = awaiting[s])
    BY <2>3, <2>4 DEF RoomsInv, SessionInv, Moving
  <2>6. ASSUME OneMove(s), Placed(s) PROVE OneMove(s)' /\ Placed(s)'
    <3>1. OneMove(s)'
      BY <2>1, <2>4, <2>6, QuietMoves DEF OneMove, Quiet
    <3>2. CASE Moving(s)
      <4>1. \A r \in Rooms : \A i \in Nat : ~ MoveJob(s, r, i)'
        BY <2>6, <3>2, <2>1, QuietMoves DEF OneMove
      <4>2. \A r \in Rooms : \A l \in leaving[r] : l.job.s # s
        BY <2>6, <3>2 DEF OneMove
      <4> QED  BY <2>1, <2>4, <2>6, <3>1, <4>1, <4>2 DEF Placed, Quiet
    <3>3. CASE ~ Moving(s)
      <4>1. Placed(s)'
        BY <2>1, <2>4, <2>5, <2>6, <3>3, QuietMoves DEF Placed, Quiet
      <4> QED  BY <3>1, <4>1
    <3> QED  BY <3>2, <3>3
  <2>7. ASSUME Departing(s) PROVE Departing(s)'
    <3>1. awaiting'[s] # "enter" \/ (Moving(s)' /\ handler'[s].op = "enter") =>
            awaiting[s] # "enter" \/ (Moving(s) /\ handler[s].op = "enter")
      BY <2>3, <2>4, <2>5
    <3> QED  BY <2>1, <2>7, <3>1, QuietMoves DEF Departing, Quiet
  <2>8. (Moving(s)' => awaiting'[s] = handler'[s].op) /\ (conn'[s] = "up" => view'[s] = room'[s])
    BY <2>1, <2>4, <2>5 DEF RoomsInv, SessionInv
  <2> QED  BY <2>1, <2>6, <2>7, <2>8 DEF SessionInv, RoomsInv
<1> QED  BY <1>1, <1>2

LEMMA PushIs ==
  ASSUME Shapes, NEW s \in Sessions, PushJob(s)
  PROVE  \E r \in Rooms : \E job \in GoodJobs :
           /\ Post(r, job) /\ job.s = s /\ (job.op = "chat" <=> handler[s].op = "chat")
           /\ job.op # "chat" => /\ Answer(job.op) = handler[s].op
                                 /\ handler[s].old = (IF job.op = "enter" THEN NoRoom ELSE r)
<1>1. handler[s] \in Handlers /\ HandlerShape(handler[s]) /\ handler[s].at = "push"
  BY DEF PushJob, Shapes
<1>2. CASE handler[s].op # "enter"
  <2> DEFINE job == Job(handler[s].op, s, NoRoom)
  <2>1. handler[s].old \in Rooms /\ job \in GoodJobs
    BY <1>1, <1>2, JobIs DEF HandlerShape, Handlers, MaybeRoom, Ops
  <2>2. Post(handler[s].old, job) /\ job.s = s /\ job.op = handler[s].op
    BY <1>2 DEF PushJob, Job
  <2>3. job.op # "chat" => Answer(job.op) = handler[s].op
    BY <1>1, <1>2, <2>2 DEF Handlers, Ops, Answer
  <2> HIDE DEF job
  <2> QED  BY <1>2, <2>1, <2>2, <2>3
<1>3. CASE handler[s].op = "enter" /\ handler[s].old # NoRoom
  <2> DEFINE job == Job("leaveAndEnter", s, handler[s].target)
  <2>1. handler[s].old \in Rooms /\ job \in GoodJobs
    BY <1>1, <1>3, JobIs DEF HandlerShape, Handlers, MaybeRoom, Ops
  <2>2. Post(handler[s].old, job) /\ job.s = s /\ job.op = "leaveAndEnter"
    BY <1>3 DEF PushJob, Job
  <2> HIDE DEF job
  <2> QED  BY <1>3, <2>1, <2>2 DEF Answer
<1>4. CASE handler[s].op = "enter" /\ handler[s].old = NoRoom
  <2> DEFINE job == Job("enter", s, NoRoom)
  <2>1. handler[s].target \in Rooms /\ job \in GoodJobs
    BY <1>1, <1>4, JobIs DEF HandlerShape, Handlers, MaybeRoom, Ops
  <2>2. Post(handler[s].target, job) /\ job.s = s /\ job.op = "enter"
    BY <1>4 DEF PushJob, Job
  <2> HIDE DEF job
  <2> QED  BY <1>4, <2>1, <2>2 DEF Answer
<1> QED  BY <1>2, <1>3, <1>4

LEMMA PushSession ==
  ASSUME RoomsInv, NEW p \in Sessions, NEW s \in Sessions, PushJob(p)
  PROVE  SessionInv(s)'
<1> USE DEF managerVars, sessionVars, clientVars
<1>0. Shapes /\ SessionInv(s)
  BY DEF RoomsInv
<1>1. PICK r \in Rooms, job \in GoodJobs :
           /\ Post(r, job) /\ job.s = p /\ (job.op = "chat" <=> handler[p].op = "chat")
           /\ job.op # "chat" => /\ Answer(job.op) = handler[p].op
                                 /\ handler[p].old = (IF job.op = "enter" THEN NoRoom ELSE r)
  BY <1>0, PushIs
<1>2. CASE s # p
  <2>1. Same(s)
    BY <1>2 DEF PushJob, Same, RoomsInv, Shapes
  <2> QED  BY <1>0, <1>1, <1>2, <2>1, OtherPosted
<1>3. CASE s = p
  <2>1. /\ conn'[s] = conn[s] /\ found'[s] = found[s] /\ room'[s] = room[s] /\ view'[s] = view[s]
        /\ members' = members /\ leaving' = leaving /\ awaiting' = awaiting
        /\ handler[s].at = "push" /\ ~ Moving(s)'
    BY <1>3 DEF PushJob, RoomsInv, Shapes, Idle, Moving
  <2>2. Moving(s) <=> job.op # "chat"
    BY <1>1, <1>3, <2>1 DEF Moving
  <2>3. Moving(s) => awaiting[s] = Answer(job.op)
    BY <1>0, <1>1, <1>3, <2>2 DEF SessionInv
  <2>4. \A q \in Rooms : \A i \in Nat : MoveJob(s, q, i)' =>
          \/ MoveJob(s, q, i) /\ mailbox'[q][i] = mailbox[q][i]
          \/ Moving(s) /\ q = r /\ i = Len(mailbox[r]) + 1 /\ mailbox'[q][i] = job
    BY <1>0, <1>1, <2>2, Posted
  <2>5. \A q \in Rooms : \A i \in Nat : MoveJob(s, q, i) => MoveJob(s, q, i)'
    BY <1>0, <1>1, Posted
  <2>6. ASSUME OneMove(s), Placed(s) PROVE OneMove(s)' /\ Placed(s)'
    <3>1. CASE Moving(s)
      <4>1. \A q \in Rooms : \A i \in Nat : ~ MoveJob(s, q, i)
        BY <2>6, <3>1 DEF OneMove
      <4>2. \A q \in Rooms : \A l \in leaving[q] : l.job.s # s
        BY <2>6, <3>1 DEF OneMove
      <4>3. \A q \in Rooms : \A i \in Nat : MoveJob(s, q, i)' =>
              q = r /\ i = Len(mailbox[r]) + 1 /\ mailbox'[q][i] = job
        BY <2>4, <4>1
      <4>4. OneMove(s)'
        BY <2>1, <4>2, <4>3 DEF OneMove
      <4>5. room[s] = (IF job.op = "enter" THEN NoRoom ELSE r)
        BY <1>1, <1>3, <2>1, <2>2, <2>6, <3>1 DEF Placed
      <4>6. Placed(s)'
        BY <2>1, <2>3, <2>6, <3>1, <4>2, <4>3, <4>5 DEF Placed
      <4> QED  BY <4>4, <4>6
    <3>2. CASE ~ Moving(s)
      <4>1. \A q \in Rooms : \A i \in Nat : MoveJob(s, q, i)' =>
              MoveJob(s, q, i) /\ mailbox'[q][i] = mailbox[q][i]
        BY <2>4, <3>2
      <4>2. OneMove(s)'
        BY <2>1, <2>6, <4>1 DEF OneMove
      <4>3. Placed(s)'
        BY <2>1, <2>6, <4>1 DEF Placed
      <4> QED  BY <4>2, <4>3
    <3> QED  BY <3>1, <3>2
  <2>7. ASSUME Departing(s) PROVE Departing(s)'
    <3> SUFFICES ASSUME awaiting[s] # "enter" PROVE Departing(s)'
      BY <2>1 DEF Departing
    <3>1. Moving(s) => job.op = "leave"
      BY <2>2, <2>3 DEF Answer
    <3>2. \A q \in Rooms : \A i \in Nat : MoveJob(s, q, i)' => mailbox'[q][i].op = "leave"
      BY <2>4, <2>7, <3>1 DEF Departing
    <3> QED  BY <2>1, <2>5, <2>7, <3>2 DEF Departing
  <2>8. conn'[s] = "up" => view'[s] = room'[s]
    BY <1>0, <2>1 DEF SessionInv
  <2> QED  BY <1>0, <2>1, <2>6, <2>7, <2>8 DEF SessionInv
<1> QED  BY <1>2, <1>3

LEMMA OnDisconnectedSession ==
  ASSUME RoomsInv, NEW p \in Sessions, NEW s \in Sessions, OnDisconnected(p)
  PROVE  SessionInv(s)'
<1> USE DEF managerVars, roomVars, sessionVars, clientVars
<1>1. CASE s # p
  <2>1. Same(s) /\ mailbox' = mailbox
    BY <1>1 DEF OnDisconnected, Same, RoomsInv, Shapes
  <2> QED  BY <2>1, Unmoved DEF RoomsInv
<1>2. CASE s = p
  <2>1. /\ Quiet /\ conn[s] = "down" /\ conn'[s] = (IF room[s] = NoRoom THEN "gone" ELSE "read")
        /\ found'[s] = room[s] /\ handler'[s] = handler[s] /\ awaiting'[s] = awaiting[s]
    BY <1>2 DEF OnDisconnected, RoomsInv, Shapes, Quiet
  <2>2. OneMove(s) /\ Placed(s) /\ (Moving(s) => awaiting[s] = handler[s].op)
    BY <2>1 DEF RoomsInv, SessionInv
  <2>3. Moving(s)' <=> Moving(s)
    BY <2>1 DEF Moving
  <2>4. Departing(s)'
    <3> SUFFICES ASSUME awaiting[s] # "enter" \/ (Moving(s) /\ handler[s].op = "enter")
                 PROVE  /\ \A r \in Rooms : \A i \in Nat : MoveJob(s, r, i)' => mailbox'[r][i].op = "leave"
                        /\ \A r \in Rooms : \A l \in leaving'[r] : l.job.s = s => l.job.op = "leave"
                        /\ \A r \in Rooms : s \in members'[r] => conn'[s] = "read" /\ found'[s] = r
      BY <2>1, <2>3 DEF Departing
    <3>1. \A r \in Rooms : \A i \in Nat : MoveJob(s, r, i)' => mailbox'[r][i].op = "leave"
      BY <2>1, <2>2, QuietMoves DEF Placed, OneMove, Answer, Quiet
    <3>2. \A r \in Rooms : \A l \in leaving'[r] : l.job.s = s => l.job.op = "leave"
      BY <2>1, <2>2 DEF Placed, OneMove, Answer, Quiet
    <3>3. \A r \in Rooms : s \in members'[r] => conn'[s] = "read" /\ found'[s] = r
      BY <2>1, <2>2, Assumptions DEF Placed, Quiet, Assumptions
    <3> QED  BY <3>1, <3>2, <3>3
  <2> QED  BY <2>1, <2>2, <2>3, <2>4 DEF SessionInv
<1> QED  BY <1>1, <1>2

LEMMA DisconnectLeaveSession ==
  ASSUME RoomsInv, NEW p \in Sessions, NEW s \in Sessions, DisconnectLeave(p)
  PROVE  SessionInv(s)'
<1> USE DEF managerVars, sessionVars, clientVars
<1>0. Shapes /\ SessionInv(s)
  BY DEF RoomsInv
<1>1. PICK r \in Rooms, job \in GoodJobs :
        r = found[p] /\ Post(r, job) /\ job.s = p /\ job.op = "leave"
  BY <1>0, JobIs DEF DisconnectLeave, Shapes, MaybeRoom, Ops, Job
<1>2. CASE s # p
  <2>1. Same(s)
    BY <1>2 DEF DisconnectLeave, Same, RoomsInv, Shapes
  <2> QED  BY <1>0, <1>1, <1>2, <2>1, OtherPosted
<1>3. CASE s = p
  <2>1. /\ conn[s] = "read" /\ conn'[s] = "pushed" /\ handler'[s] = handler[s] /\ awaiting' = awaiting
        /\ members' = members /\ leaving' = leaving
    BY <1>3 DEF DisconnectLeave, RoomsInv, Shapes
  <2>2. Departing(s) /\ (Moving(s) <=> Moving(s)') /\ (Moving(s) => awaiting[s] = handler[s].op)
    BY <1>0, <2>1 DEF SessionInv, Moving
  <2>3. \A q \in Rooms : \A i \in Nat : MoveJob(s, q, i)' =>
          \/ MoveJob(s, q, i) /\ mailbox'[q][i] = mailbox[q][i]
          \/ mailbox'[q][i] = job
    BY <1>0, <1>1, Posted
  <2>4. \E i \in Nat : MoveJob(s, r, i)'
    BY <1>0, <1>1, <1>3, PostedIs
  <2>5. Departing(s)'
    <3> SUFFICES ASSUME awaiting[s] # "enter" \/ (Moving(s) /\ handler[s].op = "enter")
                 PROVE  /\ \A q \in Rooms : \A i \in Nat : MoveJob(s, q, i)' => mailbox'[q][i].op = "leave"
                        /\ \A q \in Rooms : \A l \in leaving'[q] : l.job.s = s => l.job.op = "leave"
                        /\ \A q \in Rooms : s \in members'[q] => \E i \in Nat : MoveJob(s, q, i)'
      BY <2>1, <2>2 DEF Departing
    <3>1. \A q \in Rooms : \A i \in Nat : MoveJob(s, q, i)' => mailbox'[q][i].op = "leave"
      BY <1>1, <2>2, <2>3 DEF Departing
    <3>2. \A q \in Rooms : \A l \in leaving'[q] : l.job.s = s => l.job.op = "leave"
      BY <2>1, <2>2 DEF Departing
    <3>3. \A q \in Rooms : s \in members[q] => q = r
      BY <1>1, <1>3, <2>1, <2>2 DEF Departing
    <3> QED  BY <2>1, <2>4, <3>1, <3>2, <3>3
  <2> QED  BY <2>1, <2>2, <2>5 DEF SessionInv
<1> QED  BY <1>2, <1>3

LEMMA DisconnectClearSession ==
  ASSUME RoomsInv, NEW p \in Sessions, NEW s \in Sessions, DisconnectClear(p)
  PROVE  SessionInv(s)'
<1> USE DEF managerVars, roomVars, sessionVars, clientVars
<1>1. CASE s # p
  <2>1. Same(s) /\ mailbox' = mailbox
    BY <1>1 DEF DisconnectClear, Same, RoomsInv, Shapes
  <2> QED  BY <2>1, Unmoved DEF RoomsInv
<1>2. CASE s = p
  <2>1. /\ Quiet /\ conn[s] = "pushed" /\ conn'[s] = "gone"
        /\ handler'[s] = handler[s] /\ awaiting'[s] = awaiting[s]
    BY <1>2 DEF DisconnectClear, RoomsInv, Shapes, Quiet
  <2>2. Departing(s) /\ (Moving(s) => awaiting[s] = handler[s].op)
    BY <2>1 DEF RoomsInv, SessionInv
  <2>3. Departing(s)' /\ (Moving(s) <=> Moving(s)')
    BY <2>1, <2>2, QuietMoves DEF Departing, Moving, Quiet
  <2> QED  BY <2>1, <2>2, <2>3 DEF SessionInv
<1> QED  BY <1>1, <1>2

-----------------------------------------------------------------------------
(* The jobs of a room.                                                        *)
LEMMA FirstJob ==
  ASSUME Shapes, NEW r \in Rooms, mailbox[r] # <<>>
  PROVE  /\ mailbox[r][1] \in GoodJobs /\ Head(mailbox[r]) = mailbox[r][1]
         /\ mailbox[r][1].s \in Sessions
         /\ \A s \in Sessions : MoveJob(s, r, 1) <=> mailbox[r][1].s = s /\ mailbox[r][1].op # "chat"
<1>1. Head(mailbox[r]) \in GoodJobs /\ Head(mailbox[r]) = mailbox[r][1] /\ Len(mailbox[r]) \in Nat \ {0}
  BY HeadIs
<1>2. 1 \in 1..Len(mailbox[r])
  BY <1>1
<1> QED  BY <1>1, <1>2 DEF GoodJobs, Jobs, MoveJob

LEMMA ChatSession ==
  ASSUME RoomsInv, NEW p \in Rooms, NEW s \in Sessions, HandleChat(p)
  PROVE  SessionInv(s)'
<1>1. Shapes /\ SessionInv(s) /\ mailbox[p] # <<>> /\ mailbox' = [mailbox EXCEPT ![p] = Tail(@)]
      /\ Head(mailbox[p]).op = "chat"
  BY DEF HandleChat, Runs, RoomsInv
<1>2. ~ MoveJob(s, p, 1)
  BY <1>1, FirstJob
<1>3. Same(s)
  BY DEF HandleChat, Same, managerVars, sessionVars, clientVars
<1> QED  BY <1>1, <1>2, <1>3, OtherTaken

LEMMA EnterSession ==
  ASSUME RoomsInv, NEW p \in Rooms, NEW s \in Sessions, Enter(p)
  PROVE  SessionInv(s)'
<1> USE DEF managerVars, sessionVars, clientVars
<1>0. Shapes /\ SessionInv(s) /\ mailbox[p] # <<>> /\ mailbox' = [mailbox EXCEPT ![p] = Tail(@)]
      /\ Head(mailbox[p]).op = "enter"
  BY DEF Enter, Runs, RoomsInv
<1>1. /\ mailbox[p][1].op = "enter" /\ Head(mailbox[p]) = mailbox[p][1]
      /\ MoveJob(s, p, 1) <=> Head(mailbox[p]).s = s
  BY <1>0, FirstJob
<1>2. CASE Head(mailbox[p]).s # s
  <2>1. Same(s)
    BY <1>2 DEF Enter, Same, RoomsInv, Shapes
  <2> QED  BY <1>0, <1>1, <1>2, <2>1, OtherTaken
<1>3. CASE Head(mailbox[p]).s = s
  <2>1. /\ room'[s] = p /\ conn' = conn /\ found' = found /\ handler' = handler /\ leaving' = leaving
        /\ \A q \in Rooms : s \in members'[q] <=> s \in members[q] \/ q = p
        /\ conn[s] = "up" => view'[s] = p
        /\ conn[s] # "up" => awaiting' = awaiting
        /\ awaiting[s] # "enter" => awaiting'[s] = awaiting[s]
    BY <1>3 DEF Enter, RoomsInv, Shapes
  <2>2. MoveJob(s, p, 1)
    BY <1>1, <1>3
  <2>3. CASE conn[s] \in {"up", "down"}
    <3>1. OneMove(s) /\ Placed(s)
      BY <1>0, <2>3 DEF SessionInv
    <3>2. /\ ~ Moving(s) /\ room[s] = NoRoom
          /\ \A q \in Rooms : \A l \in leaving[q] : l.job.s # s
      BY <1>1, <2>2, <3>1 DEF OneMove, Placed
    <3>3. \A q \in Rooms : \A i \in Nat : ~ MoveJob(s, q, i)'
      <4> SUFFICES ASSUME NEW q \in Rooms, NEW i \in Nat, MoveJob(s, q, i)' PROVE FALSE
        OBVIOUS
      <4>1. MoveJob(s, q, i + Shift(p, q))
        BY <1>0, Taken
      <4>2. q = p /\ i + Shift(p, q) = 1 /\ i + Shift(p, q) \in Nat
        BY <2>2, <3>1, <4>1 DEF OneMove, Shift
      <4>3. i = 0
        BY <4>2 DEF Shift
      <4> QED  BY <4>3 DEF MoveJob
    <3>4. ~ Moving(s)'
      BY <2>1, <3>2 DEF Moving
    <3>5. OneMove(s)'
      BY <2>1, <3>2, <3>3, <3>4 DEF OneMove
    <3>6. \A q \in Rooms : s \notin members[q]
      BY <3>1, <3>2, Assumptions DEF Placed, Assumptions
    <3>7. Placed(s)'
      BY <2>1, <3>2, <3>3, <3>4, <3>6 DEF Placed
    <3> QED  BY <2>1, <2>3, <3>4, <3>5, <3>7 DEF SessionInv
  <2>4. CASE conn[s] \notin {"up", "down"}
    <3>1. Departing(s) /\ awaiting'[s] = awaiting[s] /\ (Moving(s)' <=> Moving(s))
          /\ (Moving(s) => awaiting[s] = handler[s].op)
      BY <1>0, <2>1, <2>4 DEF SessionInv, Shapes, Moving
    <3>2. ~ (awaiting[s] # "enter" \/ (Moving(s) /\ handler[s].op = "enter"))
      BY <1>1, <2>2, <3>1 DEF Departing
    <3>3. Departing(s)'
      BY <2>1, <3>1, <3>2 DEF Departing
    <3> QED  BY <2>1, <2>4, <3>1, <3>3 DEF SessionInv
  <2> QED  BY <2>3, <2>4
<1> QED  BY <1>2, <1>3

LEMMA LeaveSession ==
  ASSUME RoomsInv, NEW p \in Rooms, NEW s \in Sessions, Leave(p)
  PROVE  SessionInv(s)'
<1> USE DEF managerVars, sessionVars, clientVars
<1>0. Shapes /\ SessionInv(s) /\ mailbox[p] # <<>> /\ mailbox' = [mailbox EXCEPT ![p] = Tail(@)]
  BY DEF Leave, Runs, RoomsInv
<1>8. Head(mailbox[p]).op \in {"leave", "leaveAndEnter"} /\ leaving[p] = {}
  BY DEF Leave, Runs
<1>1. /\ Head(mailbox[p]) = mailbox[p][1]
      /\ MoveJob(s, p, 1) <=> Head(mailbox[p]).s = s
  BY <1>0, <1>8, FirstJob
<1>9. PICK l : /\ leaving'[p] = {l} /\ \A q \in Rooms : q # p => leaving'[q] = leaving[q]
               /\ l.job = mailbox[p][1] /\ (l.mine <=> room[mailbox[p][1].s] = p)
  <2> DEFINE l == [job |-> mailbox[p][1], mine |-> room[mailbox[p][1].s] = p]
  <2>1. leaving' = [leaving EXCEPT ![p] = {l}]
    BY <1>1 DEF Leave
  <2>2. l.job = mailbox[p][1] /\ l.mine = (room[mailbox[p][1].s] = p)
    OBVIOUS
  <2> HIDE DEF l
  <2> QED  BY <1>0, <2>1, <2>2 DEF Shapes
<1>2. CASE Head(mailbox[p]).s # s
  <2>1. /\ handler' = handler /\ conn' = conn /\ found' = found /\ awaiting' = awaiting
        /\ view' = view /\ room' = room /\ \A r \in Rooms : s \in members'[r] <=> s \in members[r]
    BY <1>2 DEF Leave, RoomsInv, Shapes
  <2>2. Same(s)
    BY <1>1, <1>2, <1>8, <1>9, <2>1 DEF Same
  <2> QED  BY <1>0, <1>1, <1>2, <2>2, OtherTaken
<1>3. CASE Head(mailbox[p]).s = s
  <2>1. /\ room' = room /\ conn' = conn /\ found' = found /\ handler' = handler
        /\ awaiting' = awaiting /\ view' = view
        /\ \A q \in Rooms : s \in members'[q] <=> s \in members[q] /\ q # p
    BY <1>3 DEF Leave, RoomsInv, Shapes
  <2>2. MoveJob(s, p, 1) /\ l.job.s = s
    BY <1>1, <1>3, <1>9
  <2>3. CASE conn[s] \in {"up", "down"}
    <3>1. OneMove(s) /\ Placed(s)
      BY <1>0, <2>3 DEF SessionInv
    <3>2. /\ ~ Moving(s) /\ room[s] = p /\ awaiting[s] = Answer(l.job.op)
          /\ \A q \in Rooms : \A m \in leaving[q] : m.job.s # s
      BY <1>1, <1>8, <1>9, <2>2, <3>1 DEF OneMove, Placed
    <3>3. \A q \in Rooms : \A i \in Nat : ~ MoveJob(s, q, i)'
      <4> SUFFICES ASSUME NEW q \in Rooms, NEW i \in Nat, MoveJob(s, q, i)' PROVE FALSE
        OBVIOUS
      <4>1. MoveJob(s, q, i + Shift(p, q))
        BY <1>0, Taken
      <4>2. q = p /\ i + Shift(p, q) = 1 /\ i + Shift(p, q) \in Nat
        BY <2>2, <3>1, <4>1 DEF OneMove, Shift
      <4>3. i = 0
        BY <4>2 DEF Shift
      <4> QED  BY <4>3 DEF MoveJob
    <3>4. ~ Moving(s)' /\ \A q \in Rooms : \A m \in leaving'[q] : m.job.s = s => q = p /\ m = l
      BY <1>9, <2>1, <3>2 DEF Moving
    <3>5. OneMove(s)'
      BY <2>1, <3>3, <3>4 DEF OneMove
    <3>6. Placed(s)'
      <4>1. \A q \in Rooms : s \in members'[q] => room'[s] = q
        BY <2>1, <3>1 DEF Placed
      <4>2. l \in leaving'[p] /\ l.job.s = s
        BY <1>9, <2>2
      <4>3. \A q \in Rooms : room'[s] = q /\ (\A m \in leaving'[q] : m.job.s # s) => s \in members'[q]
        BY <2>1, <3>2, <4>2
      <4>4. \A q \in Rooms : \A m \in leaving'[q] : m.job.s = s =>
              room'[s] = q /\ s \notin members'[q] /\ m.mine /\ awaiting'[s] = Answer(m.job.op)
        BY <1>1, <1>3, <1>9, <2>1, <3>2, <3>4
      <4> QED  BY <3>3, <3>4, <4>1, <4>3, <4>4 DEF Placed
    <3> QED  BY <1>0, <2>1, <2>3, <3>4, <3>5, <3>6 DEF SessionInv
  <2>4. CASE conn[s] \notin {"up", "down"}
    <3>1. Departing(s) /\ (Moving(s)' <=> Moving(s)) /\ (Moving(s) => awaiting[s] = handler[s].op)
      BY <1>0, <2>1, <2>4 DEF SessionInv, Shapes, Moving
    <3>2. Departing(s)'
      <4> SUFFICES ASSUME awaiting[s] # "enter" \/ (Moving(s) /\ handler[s].op = "enter")
                   PROVE  /\ \A q \in Rooms : \A i \in Nat : MoveJob(s, q, i)' => mailbox'[q][i].op = "leave"
                          /\ \A q \in Rooms : \A m \in leaving'[q] : m.job.s = s => m.job.op = "leave"
                          /\ \A q \in Rooms : s \in members'[q] =>
                               \/ conn'[s] = "read" /\ found'[s] = q
                               \/ conn'[s] \in {"pushed", "gone"} /\ \E i \in Nat : MoveJob(s, q, i)'
        BY <2>1, <3>1 DEF Departing
      <4>1. \A q \in Rooms : \A i \in Nat : MoveJob(s, q, i)' => mailbox'[q][i].op = "leave"
        <5> SUFFICES ASSUME NEW q \in Rooms, NEW i \in Nat, MoveJob(s, q, i)'
                     PROVE  mailbox'[q][i].op = "leave"
          OBVIOUS
        <5>1. i + Shift(p, q) \in Nat
          BY DEF Shift
        <5>2. MoveJob(s, q, i + Shift(p, q)) /\ mailbox'[q][i] = mailbox[q][i + Shift(p, q)]
          BY <1>0, Taken
        <5> QED  BY <3>1, <5>1, <5>2 DEF Departing
      <4>2. mailbox[p][1].op = "leave"
        BY <2>2, <3>1 DEF Departing
      <4>3. \A q \in Rooms : \A m \in leaving'[q] : m.job.s = s => m.job.op = "leave"
        BY <1>9, <3>1, <4>2 DEF Departing
      <4>4. ASSUME NEW q \in Rooms, s \in members'[q]
            PROVE  \/ conn'[s] = "read" /\ found'[s] = q
                   \/ conn'[s] \in {"pushed", "gone"} /\ \E i \in Nat : MoveJob(s, q, i)'
        <5>1. s \in members[q] /\ q # p
          BY <2>1, <4>4
        <5>2. ASSUME NEW i \in Nat, MoveJob(s, q, i) PROVE \E j \in Nat : MoveJob(s, q, j)'
          <6>1. \E j \in Nat : MoveJob(s, q, j)' /\ mailbox'[q][j] = mailbox[q][i]
            BY <1>0, <5>1, <5>2, Taken, ZenonT(30)
          <6> QED  BY <6>1
        <5> QED  BY <2>1, <3>1, <5>1, <5>2 DEF Departing
      <4> QED  BY <4>1, <4>3, <4>4
    <3> QED  BY <2>1, <2>4, <3>1, <3>2 DEF SessionInv
  <2> QED  BY <2>3, <2>4
<1> QED  BY <1>2, <1>3

LEMMA LeaveEndSession ==
  ASSUME RoomsInv, NEW p \in Rooms, NEW s \in Sessions, LeaveEnd(p)
  PROVE  SessionInv(s)'
<1> USE DEF managerVars, sessionVars, clientVars
<1>0. Shapes /\ SessionInv(s)
  BY DEF RoomsInv
<1>1. PICK l \in leaving[p] :
          /\ room' = [room EXCEPT ![l.job.s] = IF l.mine THEN NoRoom ELSE @]
          /\ IF conn[l.job.s] = "up"
               THEN /\ view' = [view EXCEPT ![l.job.s] = NoRoom]
                    /\ awaiting' = [awaiting EXCEPT ![l.job.s] = IF @ = "leave" THEN "no" ELSE @]
               ELSE UNCHANGED <<view, awaiting>>
          /\ IF l.job.op = "leaveAndEnter" THEN Post(l.job.target, Job("enter", l.job.s, NoRoom))
                                           ELSE UNCHANGED mailbox
  BY DEF LeaveEnd
<1>2. /\ l \in Leavings /\ l.job \in GoodJobs /\ l.job.s \in Sessions
      /\ l.job.op \in {"leave", "leaveAndEnter"}
      /\ l.job.op = "leaveAndEnter" => l.job.target \in Rooms
      /\ \A m \in leaving[p] : m = l
  BY <1>0 DEF Shapes, Leavings, GoodJobs, Jobs
<1>3. /\ leaving'[p] = {} /\ \A q \in Rooms : q # p => leaving'[q] = leaving[q]
      /\ conn' = conn /\ found' = found /\ handler' = handler /\ members' = members
  BY <1>0 DEF LeaveEnd, Shapes
<1>4. \/ l.job.op = "leave" /\ mailbox' = mailbox
      \/ /\ l.job.op = "leaveAndEnter"
         /\ \E r \in Rooms, job \in GoodJobs : Post(r, job) /\ job.s = l.job.s /\ job.op = "enter"
  <2>1. CASE l.job.op = "leave"
    BY <1>1, <2>1
  <2>2. CASE l.job.op = "leaveAndEnter"
    <3> DEFINE job == Job("enter", l.job.s, NoRoom)
    <3>1. job \in GoodJobs
      BY <1>2, JobIs DEF MaybeRoom, Ops
    <3>2. job.s = l.job.s /\ job.op = "enter"
      BY DEF Job
    <3>3. Post(l.job.target, job)
      BY <1>1, <2>2
    <3> HIDE DEF job
    <3> QED  BY <1>2, <2>2, <3>1, <3>2, <3>3
  <2> QED  BY <1>2, <2>1, <2>2
<1>5. CASE l.job.s # s
  <2>1. awaiting'[s] = awaiting[s] /\ view'[s] = view[s] /\ room'[s] = room[s]
    <3>1. room'[s] = room[s]
      BY <1>1, <1>5
    <3>2. CASE conn[l.job.s] = "up"
      <4>1. /\ view' = [view EXCEPT ![l.job.s] = NoRoom]
            /\ awaiting' = [awaiting EXCEPT ![l.job.s] = IF @ = "leave" THEN "no" ELSE @]
        BY <1>1, <3>2
      <4>2. view'[s] = view[s] /\ awaiting'[s] = awaiting[s]
        BY <1>5, <4>1 
      <4> QED  BY <3>1, <4>2
    <3>3. CASE conn[l.job.s] # "up"
      BY <1>1, <3>1, <3>3
    <3> QED  BY <3>2, <3>3
  <2>2. Same(s)
    BY <1>2, <1>3, <1>5, <2>1 DEF Same
  <2>3. CASE mailbox' = mailbox
    BY <1>0, <2>2, <2>3, Unmoved
  <2>4. CASE mailbox' # mailbox
    <3>1. PICK r \in Rooms, job \in GoodJobs : Post(r, job) /\ job.s = l.job.s /\ job.op = "enter"
      BY <1>4, <2>4
    <3> QED  BY <1>0, <1>5, <2>2, <3>1, OtherPosted
  <2> QED  BY <2>3, <2>4
<1>6. CASE l.job.s = s
  <2>1. /\ room'[s] = (IF l.mine THEN NoRoom ELSE room[s])
        /\ conn[s] = "up" => /\ view'[s] = NoRoom
                             /\ awaiting'[s] = (IF awaiting[s] = "leave" THEN "no" ELSE awaiting[s])
        /\ conn[s] # "up" => awaiting'[s] = awaiting[s]
    BY <1>0, <1>1, <1>6 DEF Shapes
  <2>2. Moving(s)' <=> Moving(s)
    BY <1>3 DEF Moving
  <2>3. CASE conn[s] \in {"up", "down"}
    <3>1. OneMove(s) /\ Placed(s)
      BY <1>0, <2>3 DEF SessionInv
    <3>2. /\ ~ Moving(s) /\ \A q \in Rooms : \A i \in Nat : ~ MoveJob(s, q, i)
          /\ \A q \in Rooms : \A m \in leaving[q] : m.job.s = s => q = p
      BY <1>6, <3>1 DEF OneMove
    <3>3. room[s] = p /\ s \notin members[p] /\ l.mine /\ awaiting[s] = Answer(l.job.op)
      BY <1>6, <3>1 DEF Placed
    <3>4. \A q \in Rooms : \A m \in leaving'[q] : m.job.s # s
      BY <1>3, <3>2
    <3>5. \A q \in Rooms : s \notin members'[q]
      BY <1>3, <3>1, <3>3 DEF Placed
    <3>6. room'[s] = NoRoom
      BY <2>1, <3>3
    <3>7. CASE l.job.op = "leave"
      <4>1. \A q \in Rooms : \A i \in Nat : ~ MoveJob(s, q, i)'
        BY <1>4, <3>2, <3>7 DEF MoveJob
      <4>2. OneMove(s)' /\ Placed(s)'
        BY <2>2, <3>2, <3>4, <3>5, <3>6, <4>1, Assumptions DEF OneMove, Placed, Assumptions
      <4> QED  BY <1>3, <2>1, <2>2, <2>3, <3>2, <3>6, <4>2 DEF SessionInv
    <3>8. CASE l.job.op = "leaveAndEnter"
      <4>1. PICK r \in Rooms, job \in GoodJobs : Post(r, job) /\ job.s = l.job.s /\ job.op = "enter"
        BY <1>4, <3>8
      <4>2. \A q \in Rooms : \A i \in Nat : MoveJob(s, q, i)' =>
              q = r /\ i = Len(mailbox[r]) + 1 /\ mailbox'[q][i] = job
        BY <1>0, <3>2, <4>1, Posted
      <4>3. OneMove(s)'
        BY <2>2, <3>2, <3>4, <4>2 DEF OneMove
      <4>4. awaiting'[s] = "enter" /\ Answer(job.op) = "enter"
        BY <2>1, <3>3, <3>8, <4>1 DEF Answer
      <4>5. Placed(s)'
        BY <2>2, <3>2, <3>4, <3>5, <3>6, <4>1, <4>2, <4>4, Assumptions DEF Placed, Assumptions
      <4> QED  BY <1>3, <2>1, <2>2, <2>3, <3>2, <3>6, <4>3, <4>5 DEF SessionInv
    <3> QED  BY <1>2, <3>7, <3>8
  <2>4. CASE conn[s] \notin {"up", "down"}
    <3>1. Departing(s) /\ (Moving(s) => awaiting[s] = handler[s].op) /\ awaiting'[s] = awaiting[s]
      BY <1>0, <2>1, <2>4 DEF SessionInv, Shapes
    <3>2. Departing(s)'
      <4> SUFFICES ASSUME awaiting[s] # "enter" \/ (Moving(s) /\ handler[s].op = "enter") PROVE Departing(s)'
        BY <1>3, <2>2, <3>1 DEF Departing
      <4>1. l.job.op = "leave"
        BY <1>6, <3>1 DEF Departing
      <4>2. mailbox' = mailbox
        BY <1>4, <4>1
      <4>3. \A q \in Rooms : \A i \in Nat : MoveJob(s, q, i)' <=> MoveJob(s, q, i)
        BY <4>2 DEF MoveJob
      <4>4. \A q \in Rooms : \A m \in leaving'[q] : m \in leaving[q]
        BY <1>3
      <4> QED  BY <1>3, <3>1, <4>2, <4>3, <4>4 DEF Departing
    <3> QED  BY <1>3, <2>2, <2>4, <3>1, <3>2 DEF SessionInv
  <2> QED  BY <2>3, <2>4
<1> QED  BY <1>5, <1>6

-----------------------------------------------------------------------------
LEMMA RoomsInit == Init => RoomsInv
<1> SUFFICES ASSUME Init PROVE RoomsInv
  OBVIOUS
<1> SUFFICES ASSUME NEW s \in Sessions PROVE SessionInv(s)
  BY ShapesInit DEF RoomsInv
<1>1. /\ ~ Moving(s) /\ conn[s] = "up" /\ view[s] = NoRoom /\ room[s] = NoRoom
      /\ \A r \in Rooms : leaving[r] = {} /\ members[r] = {}
  BY DEF Init, Moving, Idle
<1>2. \A r \in Rooms : \A i \in Nat : ~ MoveJob(s, r, i)
  BY DEF Init, MoveJob
<1>3. OneMove(s)
  BY <1>1, <1>2 DEF OneMove
<1>4. Placed(s)
  BY <1>1, <1>2, Assumptions DEF Placed, Assumptions
<1> QED  BY <1>1, <1>3, <1>4 DEF SessionInv

LEMMA RoomsNext == RoomsInv /\ ~ Pipelined /\ [Next]_vars => RoomsInv'
<1> SUFFICES ASSUME RoomsInv, ~ Pipelined, [Next]_vars PROVE RoomsInv'
  OBVIOUS
<1>1. Shapes'
  BY ShapesNext DEF RoomsInv
<1>2. ASSUME NEW s \in Sessions PROVE SessionInv(s)'
  <2>1. ASSUME NEW p \in Sessions,
               \/ RecvBegin(p) \/ Disconnect(p) \/ RecvEnd(p) \/ FindRoom(p)
               \/ CreateRoom(p) \/ ReadRoom(p) \/ PushJob(p)
               \/ OnDisconnected(p) \/ DisconnectLeave(p) \/ DisconnectClear(p)
        PROVE  SessionInv(s)'
    BY <2>1, RecvSession, DisconnectSession, FindSession, ReadSession, PushSession,
       OnDisconnectedSession, DisconnectLeaveSession, DisconnectClearSession
  <2>2. ASSUME NEW p \in Sessions, NEW op \in Ops, NEW id \in RoomIds, Packet(p, op, id)
        PROVE  SessionInv(s)'
    BY <2>2, PacketSession
  <2>3. ASSUME NEW r \in Rooms, Enter(r) \/ Leave(r) \/ LeaveEnd(r) \/ HandleChat(r)
        PROVE  SessionInv(s)'
    BY <2>3, EnterSession, LeaveSession, LeaveEndSession, ChatSession
  <2>4. ASSUME UNCHANGED vars PROVE SessionInv(s)'
    <3>1. Same(s) /\ mailbox' = mailbox
      BY <2>4 DEF vars, Same, managerVars, roomVars, sessionVars, clientVars
    <3> QED  BY <3>1, Unmoved DEF RoomsInv
  <2> QED  BY <2>1, <2>2, <2>3, <2>4, RoomSteps
<1> QED  BY <1>1, <1>2 DEF RoomsInv

LEMMA RoomsInvariant == ~ Pipelined /\ Spec => []RoomsInv
<1> SUFFICES ASSUME ~ Pipelined PROVE Spec => []RoomsInv
  OBVIOUS
<1>1. RoomsInv /\ [Next]_vars => RoomsInv'
  BY RoomsNext
<1> QED  BY <1>1, RoomsInit, PTL DEF Spec

(* No connected client that waits for its answers is a member of two rooms,   *)
(* however the workers of the rooms interleave the halves of LeaveAndEnter    *)
(* with each other and with the handlers.                                     *)
THEOREM OneRoomOnly == ~ Pipelined /\ Spec => []OneRoomAtATime
<1>1. RoomsInv => OneRoomAtATime
  BY DEF RoomsInv, SessionInv, Placed, OneRoomAtATime
<1> QED  BY <1>1, RoomsInvariant, PTL

(* A room broadcasts only to clients that were told they are in it, and were  *)
(* not told since that they left.                                             *)
THEOREM BroadcastsAreExpected == ~ Pipelined /\ Spec => []MembersWereTold
<1>1. RoomsInv => MembersWereTold
  BY DEF RoomsInv, SessionInv, Placed, MembersWereTold
<1> QED  BY <1>1, RoomsInvariant, PTL

(* When nothing is under way for a connected session, ClientSession::_room    *)
(* and Room::_members agree: it can leave the room it is in, and the room of  *)
(* a session that is in none has let it go.                                   *)
THEOREM RoomAndMembersAgree == ~ Pipelined /\ Spec => []RoomMatchesMembers
<1>1. RoomsInv => RoomMatchesMembers
  <2> SUFFICES ASSUME RoomsInv, NEW s \in Sessions, NEW r \in Rooms, conn[s] = "up", ~ Underway(s)
               PROVE  s \in members[r] <=> room[s] = r
    BY DEF RoomMatchesMembers
  <2>1. Placed(s)
    BY DEF RoomsInv, SessionInv
  <2>2. \A l \in leaving[r] : l.job.s # s
    BY DEF Underway
  <2> QED  BY <2>1, <2>2 DEF Placed
<1> QED  BY <1>1, RoomsInvariant, PTL

(* OnDisconnected takes a session out of the room it was in: a session that   *)
(* is gone and has no job left is a member of no room, unless the connection  *)
(* was lost while a request to enter was unanswered (NoGhostMember fails in   *)
(* that window, and only there).                                              *)
THEOREM GhostsEnterLate == ~ Pipelined /\ Spec => []GhostOnlyWhileEntering
<1>1. RoomsInv => GhostOnlyWhileEntering
  <2> SUFFICES ASSUME RoomsInv, NEW s \in Sessions, NEW r \in Rooms,
                      conn[s] = "gone", ~ Underway(s), s \in members[r], awaiting[s] # "enter"
               PROVE  FALSE
    BY DEF GhostOnlyWhileEntering
  <2>1. Departing(s)
    BY DEF RoomsInv, SessionInv
  <2>2. PICK i \in Nat : MoveJob(s, r, i)
    BY <2>1 DEF Departing
  <2> QED  BY <2>2 DEF MoveJob, Underway
<1> QED  BY <1>1, RoomsInvariant, PTL
=============================================================================
