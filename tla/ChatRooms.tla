------------------------------ MODULE ChatRooms ------------------------------
(* The chat logic of ChatServer: the packet handlers that route room requests *)
(* (Protocol/PacketHandlerImpl.cpp), the RoomManager, the Room jobs, and the  *)
(* automatic leave of a ClientSession that disconnects.  A Room is a JobQueue *)
(* and is used here as what JobSystem shows it to be, a serial mailbox.       *)
(*                                                                            *)
(* ClientSession::_room is read and written by the handler thread of the      *)
(* session, by the workers that run jobs of different rooms and by the thread *)
(* that runs OnDisconnected, without a lock: each access is a step of its own *)
(* and sees what the last write left.                                         *)
EXTENDS Naturals, Sequences, FiniteSets

CONSTANTS Sessions,     \* client sessions
          Rooms,        \* Room objects, made or not yet made
          RoomIds,      \* ids clients ask for
          FirstRoom,    \* the Room RoomManager::Init makes, known as FirstId
          FirstId,
          NoRoom,       \* nullptr
          Pipelined,    \* clients send a room request before the last one is answered
          MaxRequests   \* bound: packets of each client

ASSUME Assumptions == /\ FirstRoom \in Rooms /\ FirstId \in RoomIds
                      /\ NoRoom \notin Rooms
                      /\ Pipelined \in BOOLEAN
                      /\ MaxRequests \in [Sessions -> Nat]
                      /\ IsFiniteSet(Rooms) /\ IsFiniteSet(RoomIds)
                      /\ Cardinality(Rooms) >= Cardinality(RoomIds)

VARIABLES rooms,     \* RoomManager::_rooms
          mailbox,   \* jobs waiting in each Room
          leaving,   \* the Leave in progress, past its test of _room
          members,   \* Room::_members
          room,      \* ClientSession::_room
          conn,      \* "up", "down" (_connected is false), then OnDisconnected: "read",
                     \* "pushed", "gone"
          found,     \* the room OnDisconnected read
          inRecv,    \* the session's thread is inside PacketSession::OnRecv
          handler,   \* the packet a session's thread is handling
          sent,      \* packets the client has sent
          awaiting,  \* the client's room request that has no answer yet
          view       \* the room the client was last told it is in

managerVars == <<rooms>>
roomVars == <<mailbox, leaving, members>>
sessionVars == <<conn, found>>
clientVars == <<sent, awaiting, view>>
vars == <<managerVars, roomVars, room, sessionVars, inRecv, handler, clientVars>>

MaybeRoom == Rooms \cup {NoRoom}
Ops == {"enter", "leave", "chat"}

(* Jobs: Room::Enter(s), Leave(s), LeaveAndEnter(s, target), HandleChat(s).   *)
Job(op, s, target) == [op |-> op, s |-> s, target |-> target]
Jobs == [op : Ops \cup {"leaveAndEnter"}, s : Sessions, target : MaybeRoom]

Idle == [at |-> "idle", op |-> "chat", id |-> FirstId, target |-> NoRoom, old |-> NoRoom]

TypeOK ==
  /\ rooms \in [RoomIds -> MaybeRoom]
  /\ mailbox \in [Rooms -> Seq(Jobs)]
  /\ leaving \in [Rooms -> SUBSET [job : Jobs, mine : BOOLEAN]]
  /\ inRecv \in [Sessions -> BOOLEAN]
  /\ members \in [Rooms -> SUBSET Sessions]
  /\ room \in [Sessions -> MaybeRoom]
  /\ conn \in [Sessions -> {"up", "down", "read", "pushed", "gone"}]
  /\ found \in [Sessions -> MaybeRoom]
  /\ handler \in [Sessions -> [at : {"idle", "find", "create", "read", "push"}, op : Ops,
                               id : RoomIds, target : MaybeRoom, old : MaybeRoom]]
  /\ sent \in [Sessions -> Nat]
  /\ awaiting \in [Sessions -> {"no", "enter", "leave"}]
  /\ view \in [Sessions -> MaybeRoom]
  /\ \A s \in Sessions :   \* no null room is used
       /\ handler[s].op = "enter" /\ handler[s].at \in {"read", "push"} =>
            handler[s].target # NoRoom
       /\ handler[s].op # "enter" /\ handler[s].at = "push" => handler[s].old # NoRoom
       /\ conn[s] = "read" => found[s] # NoRoom

Init ==
  /\ rooms = [i \in RoomIds |-> IF i = FirstId THEN FirstRoom ELSE NoRoom]
  /\ mailbox = [r \in Rooms |-> <<>>]
  /\ leaving = [r \in Rooms |-> {}]
  /\ inRecv = [s \in Sessions |-> FALSE]
  /\ members = [r \in Rooms |-> {}]
  /\ room = [s \in Sessions |-> NoRoom]
  /\ conn = [s \in Sessions |-> "up"]
  /\ found = [s \in Sessions |-> NoRoom]
  /\ handler = [s \in Sessions |-> Idle]
  /\ sent = [s \in Sessions |-> 0]
  /\ awaiting = [s \in Sessions |-> "no"]
  /\ view = [s \in Sessions |-> NoRoom]

Post(r, job) == mailbox' = [mailbox EXCEPT ![r] = Append(@, job)]

-----------------------------------------------------------------------------
(* Receiving.  PacketSession::OnRecv hands every complete packet of the       *)
(* buffer to its handler and does not look at _connected in between; only the *)
(* next RegisterRecv does.                                                    *)
RecvBegin(s) ==
  /\ conn[s] = "up" /\ ~ inRecv[s]
  /\ sent[s] < MaxRequests[s]
  /\ inRecv' = [inRecv EXCEPT ![s] = TRUE]
  /\ UNCHANGED <<managerVars, roomVars, room, sessionVars, handler, clientVars>>

RecvEnd(s) ==
  /\ inRecv[s] /\ handler[s] = Idle
  /\ inRecv' = [inRecv EXCEPT ![s] = FALSE]
  /\ UNCHANGED <<managerVars, roomVars, room, sessionVars, handler, clientVars>>

(* A client that waits for answers asks for a room other than the one it is   *)
(* in, leaves a room it is in and chats in a room it is in; one that          *)
(* pipelines (the stress client switches rooms without waiting) asks anything.*)
Sensible(s, op, id) ==
  \/ Pipelined
  \/ op = "enter" /\ awaiting[s] = "no" /\ (view[s] = NoRoom \/ view[s] # rooms[id])
  \/ op \in {"leave", "chat"} /\ awaiting[s] = "no" /\ view[s] # NoRoom

Packet(s, op, id) ==
  /\ inRecv[s] /\ handler[s] = Idle
  /\ sent[s] < MaxRequests[s] /\ Sensible(s, op, id)
  /\ op # "enter" => id = FirstId   \* not part of the packet
  /\ sent' = [sent EXCEPT ![s] = @ + 1]
  /\ awaiting' = [awaiting EXCEPT ![s] = IF op = "chat" THEN @ ELSE op]
  /\ handler' = [handler EXCEPT ![s] =
                   [Idle EXCEPT !.at = IF op = "enter" THEN "find" ELSE "read",
                                !.op = op, !.id = id]]
  /\ UNCHANGED <<managerVars, roomVars, room, sessionVars, inRecv, view>>

(* RoomManager::GetOrCreateRoom: look under the read lock, ...                *)
FindRoom(s) ==
  /\ handler[s].at = "find"
  /\ handler' = [handler EXCEPT ![s].at = IF rooms[handler[s].id] = NoRoom THEN "create" ELSE "read",
                                ![s].target = rooms[handler[s].id]]
  /\ UNCHANGED <<managerVars, roomVars, room, sessionVars, inRecv, clientVars>>

NewRoom == CHOOSE r \in Rooms : \A i \in RoomIds : rooms[i] # r

(* Mutant: CreateRoom does not look again under the write lock.               *)
CreateRoomBlind(s) ==
  /\ handler[s].at = "create"
  /\ \E made \in Rooms \ {rooms[i] : i \in RoomIds} :
       /\ rooms' = [rooms EXCEPT ![handler[s].id] = made]
       /\ handler' = [handler EXCEPT ![s].at = "read", ![s].target = made]
  /\ UNCHANGED <<roomVars, room, sessionVars, inRecv, clientVars>>

(* ... then CreateRoom, which looks again under the write lock.               *)
CreateRoom(s) ==
  /\ handler[s].at = "create"
  /\ LET old == rooms[handler[s].id]
         made == IF old # NoRoom THEN old ELSE NewRoom
     IN /\ rooms' = [rooms EXCEPT ![handler[s].id] = made]
        /\ handler' = [handler EXCEPT ![s].at = "read", ![s].target = made]
  /\ UNCHANGED <<roomVars, room, sessionVars, inRecv, clientVars>>

(* GetRoom().  Entering the room one is in, leaving none and chatting in none *)
(* is ignored without an answer.                                              *)
ReadRoom(s) ==
  /\ handler[s].at = "read"
  /\ LET h == handler[s]
         ignored == IF h.op = "enter" THEN room[s] = h.target ELSE room[s] = NoRoom
     IN /\ handler' = [handler EXCEPT ![s] =
                         IF ignored THEN Idle ELSE [h EXCEPT !.at = "push", !.old = room[s]]]
        /\ awaiting' = [awaiting EXCEPT ![s] = IF ignored /\ h.op # "chat" THEN "no" ELSE @]
  /\ UNCHANGED <<managerVars, roomVars, room, sessionVars, inRecv, sent, view>>

(* Mutant: Leave goes to the old room and Enter to the target at once.        *)
PushBothJobs(s) ==
  /\ handler[s].at = "push"
  /\ LET h == handler[s]
     IN IF h.op # "enter" THEN Post(h.old, Job(h.op, s, NoRoom))
        ELSE IF h.old # NoRoom
          THEN mailbox' = [mailbox EXCEPT ![h.old] = Append(@, Job("leave", s, NoRoom)),
                                          ![h.target] = Append(@, Job("enter", s, NoRoom))]
          ELSE Post(h.target, Job("enter", s, NoRoom))
  /\ handler' = [handler EXCEPT ![s] = Idle]
  /\ UNCHANGED <<managerVars, leaving, members, room, sessionVars, inRecv, clientVars>>

(* One job is pushed: to the old room if there is one, which will hand the    *)
(* session on, else to the target.                                            *)
PushJob(s) ==
  /\ handler[s].at = "push"
  /\ LET h == handler[s]
     IN IF h.op # "enter" THEN Post(h.old, Job(h.op, s, NoRoom))
        ELSE IF h.old # NoRoom THEN Post(h.old, Job("leaveAndEnter", s, h.target))
        ELSE Post(h.target, Job("enter", s, NoRoom))
  /\ handler' = [handler EXCEPT ![s] = Idle]
  /\ UNCHANGED <<managerVars, leaving, members, room, sessionVars, inRecv, clientVars>>

-----------------------------------------------------------------------------
(* Room jobs: one at a time per room, on any worker.                          *)
Runs(r, ops) == leaving[r] = {} /\ mailbox[r] # <<>> /\ Head(mailbox[r]).op \in ops

(* Room::Enter: insert into _members, SetRoom(this), answer S_ENTER_ROOM      *)
(* (Send drops it when the session is not connected).                         *)
Enter(r) ==
  /\ Runs(r, {"enter"})
  /\ LET s == Head(mailbox[r]).s
     IN /\ members' = [members EXCEPT ![r] = @ \cup {s}]
        /\ room' = [room EXCEPT ![s] = r]
        /\ IF conn[s] = "up"
             THEN /\ view' = [view EXCEPT ![s] = r]
                  /\ awaiting' = [awaiting EXCEPT ![s] = IF @ = "enter" THEN "no" ELSE @]
             ELSE UNCHANGED <<view, awaiting>>
  /\ mailbox' = [mailbox EXCEPT ![r] = Tail(@)]
  /\ UNCHANGED <<managerVars, leaving, sessionVars, inRecv, handler, sent>>

(* Mutant: Leave forgets to erase the member.                                 *)
LeaveKeepsMember(r) ==
  /\ Runs(r, {"leave", "leaveAndEnter"})
  /\ LET job == Head(mailbox[r])
     IN leaving' = [leaving EXCEPT ![r] = {[job |-> job, mine |-> room[job.s] = r]}]
  /\ mailbox' = [mailbox EXCEPT ![r] = Tail(@)]
  /\ UNCHANGED <<managerVars, members, room, sessionVars, inRecv, handler, clientVars>>

(* Room::Leave and LeaveAndEnter, up to the test GetRoom().get() == this.     *)
Leave(r) ==
  /\ Runs(r, {"leave", "leaveAndEnter"})
  /\ LET job == Head(mailbox[r])
     IN /\ members' = [members EXCEPT ![r] = @ \ {job.s}]
        /\ leaving' = [leaving EXCEPT ![r] = {[job |-> job, mine |-> room[job.s] = r]}]
  /\ mailbox' = [mailbox EXCEPT ![r] = Tail(@)]
  /\ UNCHANGED <<managerVars, room, sessionVars, inRecv, handler, clientVars>>

(* Mutant: Enter is pushed to the target although the session is still in     *)
(* this room as far as _room says.                                            *)
LeaveEndKeepsRoom(r) ==
  /\ \E l \in leaving[r] :
       LET s == l.job.s
       IN /\ IF l.job.op = "leaveAndEnter" THEN Post(l.job.target, Job("enter", s, NoRoom))
                                           ELSE UNCHANGED mailbox
          /\ IF conn[s] = "up"
               THEN /\ view' = [view EXCEPT ![s] = NoRoom]
                    /\ awaiting' = [awaiting EXCEPT ![s] = IF @ = "leave" THEN "no" ELSE @]
               ELSE UNCHANGED <<view, awaiting>>
  /\ leaving' = [leaving EXCEPT ![r] = {}]
  /\ UNCHANGED <<managerVars, members, room, sessionVars, inRecv, handler, sent>>

(* Mutant: LeaveAndEnter loses the hand-over to the target room.              *)
LeaveEndForgets(r) ==
  /\ \E l \in leaving[r] :
       LET s == l.job.s
       IN /\ room' = [room EXCEPT ![s] = IF l.mine THEN NoRoom ELSE @]
          /\ IF conn[s] = "up"
               THEN /\ view' = [view EXCEPT ![s] = NoRoom]
                    /\ awaiting' = [awaiting EXCEPT ![s] = IF @ = "leave" THEN "no" ELSE @]
               ELSE UNCHANGED <<view, awaiting>>
  /\ leaving' = [leaving EXCEPT ![r] = {}]
  /\ UNCHANGED <<managerVars, mailbox, members, sessionVars, inRecv, handler, sent>>

(* The rest: SetRoom(nullptr) if it was this room, answer S_LEAVE_ROOM, and   *)
(* for LeaveAndEnter push Enter to the target.                                *)
LeaveEnd(r) ==
  /\ \E l \in leaving[r] :
       LET s == l.job.s
       IN /\ room' = [room EXCEPT ![s] = IF l.mine THEN NoRoom ELSE @]
          /\ IF conn[s] = "up"
               THEN /\ view' = [view EXCEPT ![s] = NoRoom]
                    /\ awaiting' = [awaiting EXCEPT ![s] = IF @ = "leave" THEN "no" ELSE @]
               ELSE UNCHANGED <<view, awaiting>>
          /\ IF l.job.op = "leaveAndEnter" THEN Post(l.job.target, Job("enter", s, NoRoom))
                                           ELSE UNCHANGED mailbox
  /\ leaving' = [leaving EXCEPT ![r] = {}]
  /\ UNCHANGED <<managerVars, members, sessionVars, inRecv, handler, sent>>

(* Room::HandleChat broadcasts to _members and changes nothing.               *)
HandleChat(r) ==
  /\ Runs(r, {"chat"})
  /\ mailbox' = [mailbox EXCEPT ![r] = Tail(@)]
  /\ UNCHANGED <<managerVars, leaving, members, room, sessionVars, inRecv, handler, clientVars>>

-----------------------------------------------------------------------------
(* Session::Disconnect (any cause), then ClientSession::OnDisconnected on the *)
(* worker that gets the completion.                                           *)
Disconnect(s) ==
  /\ conn[s] = "up"
  /\ conn' = [conn EXCEPT ![s] = "down"]
  /\ UNCHANGED <<managerVars, roomVars, room, found, inRecv, handler, clientVars>>

OnDisconnected(s) ==
  /\ conn[s] = "down"
  /\ found' = [found EXCEPT ![s] = room[s]]
  /\ conn' = [conn EXCEPT ![s] = IF room[s] = NoRoom THEN "gone" ELSE "read"]
  /\ UNCHANGED <<managerVars, roomVars, room, inRecv, handler, clientVars>>

(* Mutant: the Leave job of a disconnected session is not pushed.             *)
DisconnectLeaveDropped(s) ==
  /\ conn[s] = "read"
  /\ conn' = [conn EXCEPT ![s] = "pushed"]
  /\ UNCHANGED <<managerVars, roomVars, room, found, inRecv, handler, clientVars>>

DisconnectLeave(s) ==
  /\ conn[s] = "read"
  /\ Post(found[s], Job("leave", s, NoRoom))
  /\ conn' = [conn EXCEPT ![s] = "pushed"]
  /\ UNCHANGED <<managerVars, leaving, members, room, found, inRecv, handler, clientVars>>

DisconnectClear(s) ==
  /\ conn[s] = "pushed"
  /\ room' = [room EXCEPT ![s] = NoRoom]
  /\ conn' = [conn EXCEPT ![s] = "gone"]
  /\ UNCHANGED <<managerVars, roomVars, found, inRecv, handler, clientVars>>

-----------------------------------------------------------------------------
HandlerStep(s) == RecvEnd(s) \/ FindRoom(s) \/ CreateRoom(s) \/ ReadRoom(s) \/ PushJob(s)
RoomStep(r) == Enter(r) \/ Leave(r) \/ LeaveEnd(r) \/ HandleChat(r)
CloseStep(s) == OnDisconnected(s) \/ DisconnectLeave(s) \/ DisconnectClear(s)

Next == \/ \E s \in Sessions : \/ RecvBegin(s) \/ Disconnect(s)
                               \/ HandlerStep(s) \/ CloseStep(s)
                               \/ \E op \in Ops, id \in RoomIds : Packet(s, op, id)
        \/ \E r \in Rooms : RoomStep(r)

Spec == Init /\ [][Next]_vars

(* Workers go on with the handler they are in, with completions and with the  *)
(* jobs of every room (JobSystem!EveryJobRuns).                               *)
Fairness == /\ \A s \in Sessions : WF_vars(HandlerStep(s)) /\ WF_vars(CloseStep(s))
            /\ \A r \in Rooms : WF_vars(RoomStep(r))

FairSpec == Spec /\ Fairness

-----------------------------------------------------------------------------
(* Work about session s that has not been done yet.                           *)
Underway(s) == \/ handler[s] # Idle
               \/ conn[s] \in {"down", "read", "pushed"}
               \/ \E r \in Rooms : \/ \E i \in 1..Len(mailbox[r]) : mailbox[r][i].s = s
                                   \/ \E l \in leaving[r] : l.job.s = s

(* A connected session is a member of one room at most, also while it is      *)
(* handed from one room's worker to another's.                                *)
OneRoomAtATime ==
  \A s \in Sessions, r1, r2 \in Rooms :
    conn[s] = "up" /\ s \in members[r1] \cap members[r2] => r1 = r2

(* Two clients that ask for the same id, even at the same time, are sent to   *)
(* the same Room object, the one RoomManager keeps under that id.             *)
SameIdSameRoom ==
  \A s \in Sessions : handler[s].op = "enter" /\ handler[s].target # NoRoom
                        => rooms[handler[s].id] = handler[s].target

(* The rooms are sound: one object for an id, and every variable in its type. *)
RoomsSound == TypeOK /\ SameIdSameRoom

(* What a room broadcasts reaches a client only while the client has been     *)
(* told that it is in that room: S_ENTER_ROOM comes first, nothing comes      *)
(* after S_LEAVE_ROOM, across rooms that run on different workers.            *)
MembersWereTold ==
  \A s \in Sessions, r \in Rooms : s \in members[r] /\ conn[s] = "up" => view[s] = r

(* When nothing about a connected session is underway, _room and _members     *)
(* agree: the session can leave the room it is in.                            *)
RoomMatchesMembers ==
  \A s \in Sessions, r \in Rooms :
    conn[s] = "up" /\ ~ Underway(s) => (s \in members[r] <=> room[s] = r)

(* A session that is gone stays in a room at most if the connection was lost  *)
(* while a request to enter was unanswered.                                   *)
GhostOnlyWhileEntering ==
  \A s \in Sessions, r \in Rooms :
    conn[s] = "gone" /\ ~ Underway(s) /\ s \in members[r] => awaiting[s] = "enter"

(* Every room request of a client that waits for answers is answered, or the  *)
(* connection ends.                                                           *)
RequestsAnswered ==
  \A s \in Sessions : awaiting[s] # "no" ~> (awaiting[s] = "no" \/ conn[s] # "up")

(* "On disconnect the session leaves the room it is in automatically"         *)
(* (ClientSession.cpp): once OnDisconnected and all jobs about a session are  *)
(* done, no room has it as a member.                                          *)
NoGhostMember ==
  \A s \in Sessions, r \in Rooms :
    conn[s] = "gone" /\ ~ Underway(s) /\ ~ inRecv[s] => s \notin members[r]
=============================================================================
