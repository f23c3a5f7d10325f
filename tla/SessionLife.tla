----------------------------- MODULE SessionLife -----------------------------
(* The life of the server's sessions: Listener (AcceptEx), ProcessConnect,    *)
(* the receive chain as far as it keeps a session open, Disconnect and        *)
(* ProcessDisconnect of Session.cpp, the set of sessions of Service.cpp, the  *)
(* count of users of ServerStats.cpp, the heartbeat check of the timer thread *)
(* (AbuseMonitor.cpp) and the shutdown of Main.cpp.                           *)
(*                                                                            *)
(* Completions are handled by any worker: the steps of a session's accept     *)
(* chain, receive chain and disconnection interleave with each other, with    *)
(* the timer thread and with the main thread.  Time is GetTickCount64, with a *)
(* unit of the model's choice; differences are taken modulo Wrap as uint64.   *)
EXTENDS Integers, FiniteSets

CONSTANTS Sessions,      \* session objects the factory can make
          NoSession,     \* nullptr
          AcceptCount,   \* accept events waiting at the same time
          Timeout,       \* TIME_OUT_MS
          Wrap,          \* 2^64
          MaxTime        \* bound: time stops here

ASSUME LifeAssumption == /\ IsFiniteSet(Sessions) /\ NoSession \notin Sessions
                         /\ AcceptCount \in Nat
                         /\ Timeout \in Nat /\ MaxTime \in Nat \ {0}
                         /\ Wrap \in Nat /\ Wrap > 2 * MaxTime

VARIABLES
  now,
  isRunning, stopped,     \* main: shutdown begun and listener closed; Service::Stop done
  slots,         \* accept events to be registered (again)
  accept,        \* accept chain of the session
  connected,     \* _connected
  recv,          \* receive chain of the session
  disc,          \* DisconnectEx and its completion
  sessions, sessionCount, ccu,     \* Service::_sessions, _sessionCount; users
  heartbeat,     \* _lastHeartbeatTick
  timer,         \* heartbeat check: place, its now, sessions to check, the one to cut
  closed         \* history: OnDisconnected calls

mainVars == <<isRunning, stopped>>
chainVars == <<accept, recv>>
serviceVars == <<sessions, sessionCount, ccu>>
vars == <<now, mainVars, slots, chainVars, connected, disc, serviceVars, heartbeat, timer, closed>>

IdleTimer == [at |-> "idle", now |-> 0, todo |-> {}, cut |-> NoSession]

TypeOK ==
  /\ now \in 1..MaxTime
  /\ isRunning \in BOOLEAN /\ stopped \in BOOLEAN
  /\ slots \in 0..AcceptCount
  /\ accept \in [Sessions -> {"new", "waiting", "accepted", "connected", "added", "greeted",
                              "done", "dropped"}]
  /\ connected \in [Sessions -> BOOLEAN]
  /\ recv \in [Sessions -> {"none", "posted", "again"}]
  /\ disc \in [Sessions -> {"none", "posted", "failed", "told", "done"}]
  /\ sessions \subseteq Sessions
  /\ sessionCount \in 0..Cardinality(Sessions)
  /\ ccu \in -Cardinality(Sessions)..Cardinality(Sessions)
  /\ heartbeat \in [Sessions -> 0..now]
  /\ timer \in [at : {"idle", "snapshot", "scan", "cut"}, now : 0..now,
                todo : SUBSET Sessions, cut : Sessions \cup {NoSession}]
  /\ closed \in [Sessions -> Nat]

Init ==
  /\ now = 1
  /\ isRunning = TRUE /\ stopped = FALSE
  /\ slots = AcceptCount
  /\ accept = [s \in Sessions |-> "new"]
  /\ connected = [s \in Sessions |-> FALSE]
  /\ recv = [s \in Sessions |-> "none"]
  /\ disc = [s \in Sessions |-> "none"]
  /\ sessions = {} /\ sessionCount = 0 /\ ccu = 0
  /\ heartbeat = [s \in Sessions |-> 0]
  /\ timer = IdleTimer
  /\ closed = [s \in Sessions |-> 0]

(* Mutant: Disconnect does not look whether the session is connected.         *)
DisconnectAlways(cut) ==
  /\ connected' = [s \in Sessions |-> connected[s] /\ s \notin cut]
  /\ \E failed \in SUBSET cut :
       disc' = [s \in Sessions |-> IF s \in failed THEN "failed"
                                  ELSE IF s \in cut THEN "posted" ELSE disc[s]]

(* Session::Disconnect of the sessions in cut: the first caller issues        *)
(* DisconnectEx, which is pending or fails.  A failure is passed to           *)
(* HandleError, whose own Disconnect does nothing any more.                   *)
Disconnect(cut) ==
  /\ connected' = [s \in Sessions |-> connected[s] /\ s \notin cut]
  /\ \E failed \in SUBSET {s \in cut : connected[s]} :
       disc' = [s \in Sessions |-> IF s \in failed THEN "failed"
                                  ELSE IF s \in cut /\ connected[s] THEN "posted" ELSE disc[s]]

-----------------------------------------------------------------------------
(* Listener::RegisterAccept: a session is made (its constructor sets the      *)
(* heartbeat) and waits in AcceptEx; a closed listener gives the event up.    *)
(* When AcceptEx fails at once the session is dropped: the event is used      *)
(* again, or given up too if the socket was closed or the call cancelled.     *)
Answers == {"pending", "failed", "cancelled"}
RegisterAccept(s, answer) ==
  /\ slots > 0 /\ accept[s] = "new"
  /\ slots' = IF isRunning /\ answer = "failed" THEN slots ELSE slots - 1
  /\ IF isRunning
        THEN /\ accept' = [accept EXCEPT ![s] = IF answer = "pending" THEN "waiting" ELSE "dropped"]
             /\ heartbeat' = [heartbeat EXCEPT ![s] = now]
        ELSE UNCHANGED <<accept, heartbeat>>
  /\ UNCHANGED <<now, mainVars, recv, connected, disc, serviceVars, timer, closed>>

(* Listener::ProcessAccept: the event of a closed listener is dropped.  A     *)
(* socket that cannot be set up is dropped too, and the event used again.     *)
ProcessAccept(s, usable) ==
  /\ accept[s] = "waiting"
  /\ accept' = [accept EXCEPT ![s] = IF isRunning /\ usable THEN "accepted" ELSE "dropped"]
  /\ slots' = IF isRunning /\ ~ usable THEN slots + 1 ELSE slots
  /\ UNCHANGED <<now, mainVars, recv, connected, disc, serviceVars, heartbeat, timer, closed>>

(* Session::ProcessConnect, step by step: _connected, ...                     *)
ProcessConnect(s) ==
  /\ accept[s] = "accepted"
  /\ accept' = [accept EXCEPT ![s] = "connected"]
  /\ connected' = [connected EXCEPT ![s] = TRUE]
  /\ UNCHANGED <<now, mainVars, slots, recv, disc, serviceVars, heartbeat, timer, closed>>

(* ... Service::AddSession, ...                                               *)
AddSession(s) ==
  /\ accept[s] = "connected"
  /\ accept' = [accept EXCEPT ![s] = "added"]
  /\ sessions' = sessions \cup {s}
  /\ sessionCount' = sessionCount + 1
  /\ UNCHANGED <<now, mainVars, slots, recv, connected, disc, ccu, heartbeat, timer, closed>>

(* ... ClientSession::OnConnected, ...                                        *)
OnConnected(s) ==
  /\ accept[s] = "added"
  /\ accept' = [accept EXCEPT ![s] = "greeted"]
  /\ heartbeat' = [heartbeat EXCEPT ![s] = now]
  /\ ccu' = ccu + 1
  /\ UNCHANGED <<now, mainVars, slots, recv, connected, disc, sessions, sessionCount, timer, closed>>

(* RegisterRecv: nothing on a closed session; WSARecv may fail, then          *)
(* HandleError disconnects.                                                   *)
PostRecv(s, posted) ==
  /\ recv' = [recv EXCEPT ![s] = IF connected[s] /\ posted THEN "posted" ELSE "none"]
  /\ IF posted THEN UNCHANGED <<connected, disc>> ELSE Disconnect({s})

(* ... and the first RegisterRecv.  Then the accept event is used again.      *)
FirstRecv(s, posted) ==
  /\ accept[s] = "greeted"
  /\ accept' = [accept EXCEPT ![s] = "done"]
  /\ PostRecv(s, posted)
  /\ slots' = slots + 1
  /\ UNCHANGED <<now, mainVars, serviceVars, heartbeat, timer, closed>>

-----------------------------------------------------------------------------
(* Session::ProcessRecv: the stream has ended or cannot be read on, ...       *)
PeerClosed(s) ==
  /\ recv[s] = "posted"
  /\ recv' = [recv EXCEPT ![s] = "none"]
  /\ Disconnect({s})
  /\ UNCHANGED <<now, mainVars, slots, accept, serviceVars, heartbeat, timer, closed>>

(* ... or a packet came.  ClientSession::OnRecvPacket: beyond the rate limit  *)
(* it disconnects, any other renews the heartbeat; one that no handler        *)
(* understands disconnects after that.                                        *)
OnRecvPacket(s, verdict) ==
  /\ recv[s] = "posted"
  /\ recv' = [recv EXCEPT ![s] = "again"]
  /\ IF verdict = "flooding" THEN UNCHANGED heartbeat
                             ELSE heartbeat' = [heartbeat EXCEPT ![s] = now]
  /\ IF verdict = "ok" THEN UNCHANGED <<connected, disc>> ELSE Disconnect({s})
  /\ UNCHANGED <<now, mainVars, slots, accept, serviceVars, timer, closed>>

RecvAgain(s, posted) ==
  /\ recv[s] = "again"
  /\ PostRecv(s, posted)
  /\ UNCHANGED <<now, mainVars, slots, accept, serviceVars, heartbeat, timer, closed>>

(* Disconnect from the send path of any thread that has the session: a full   *)
(* queue, a failed WSASend.                                                   *)
SendFails(s) ==
  /\ s \in sessions /\ connected[s]
  /\ Disconnect({s})
  /\ UNCHANGED <<now, mainVars, slots, chainVars, serviceVars, heartbeat, timer, closed>>

(* Session::ProcessDisconnect: OnDisconnected, ...                            *)
OnDisconnected(s) ==
  /\ disc[s] = "posted"
  /\ disc' = [disc EXCEPT ![s] = "told"]
  /\ ccu' = ccu - 1
  /\ closed' = [closed EXCEPT ![s] = @ + 1]
  /\ UNCHANGED <<now, mainVars, slots, chainVars, connected, sessions, sessionCount, heartbeat, timer>>

(* Mutant: the session is taken out of the set but still counted.             *)
ReleaseSessionCounted(s) ==
  /\ disc[s] = "told"
  /\ disc' = [disc EXCEPT ![s] = "done"]
  /\ sessions' = sessions \ {s}
  /\ UNCHANGED <<now, mainVars, slots, chainVars, connected, ccu, sessionCount, heartbeat, timer, closed>>

(* Mutant: the session is released only when its last receive has completed.  *)
ReleaseSessionIdle(s) ==
  /\ disc[s] = "told" /\ recv[s] = "none"
  /\ disc' = [disc EXCEPT ![s] = "done"]
  /\ sessions' = sessions \ {s}
  /\ sessionCount' = sessionCount - 1
  /\ UNCHANGED <<now, mainVars, slots, chainVars, connected, ccu, heartbeat, timer, closed>>

(* ... Service::ReleaseSession.                                               *)
ReleaseSession(s) ==
  /\ disc[s] = "told"
  /\ disc' = [disc EXCEPT ![s] = "done"]
  /\ sessions' = sessions \ {s}
  /\ sessionCount' = sessionCount - 1
  /\ UNCHANGED <<now, mainVars, slots, chainVars, connected, ccu, heartbeat, timer, closed>>

-----------------------------------------------------------------------------
(* AbuseMonitor::CheckHeartbeatTimeouts: the time, then the sessions, then    *)
(* one session after the other.                                               *)
CheckBegin ==
  /\ timer.at = "idle" /\ isRunning
  /\ timer' = [IdleTimer EXCEPT !.at = "snapshot", !.now = now]
  /\ UNCHANGED <<now, mainVars, slots, chainVars, connected, disc, serviceVars, heartbeat, closed>>

GetSessionsSnapshot ==
  /\ timer.at = "snapshot"
  /\ timer' = [timer EXCEPT !.at = "scan", !.todo = sessions]
  /\ UNCHANGED <<now, mainVars, slots, chainVars, connected, disc, serviceVars, heartbeat, closed>>

(* Mutant: without the test now <= lastHeartbeat.                             *)
TimedOutUnguarded(s) ==
  /\ connected[s] /\ heartbeat[s] # 0
  /\ (timer.now - heartbeat[s]) % Wrap > Timeout

(* Mutant: every session counts as before its first heartbeat.                *)
TimedOutNever(s) == s # s

TimedOut(s) ==
  /\ connected[s] /\ heartbeat[s] # 0
  /\ timer.now > heartbeat[s]
  /\ (timer.now - heartbeat[s]) % Wrap > Timeout

CheckSession(s) ==
  /\ timer.at = "scan" /\ s \in timer.todo
  /\ timer' = IF TimedOut(s) THEN [timer EXCEPT !.at = "cut", !.cut = s, !.todo = @ \ {s}]
                             ELSE [timer EXCEPT !.todo = @ \ {s}]
  /\ UNCHANGED <<now, mainVars, slots, chainVars, connected, disc, serviceVars, heartbeat, closed>>

(* ReportAbuse and Disconnect.                                                *)
CutSession ==
  /\ timer.at = "cut"
  /\ Disconnect({timer.cut})
  /\ timer' = [timer EXCEPT !.at = "scan", !.cut = NoSession]
  /\ UNCHANGED <<now, mainVars, slots, chainVars, serviceVars, heartbeat, closed>>

CheckEnd ==
  /\ timer.at = "scan" /\ timer.todo = {}
  /\ timer' = IdleTimer
  /\ UNCHANGED <<now, mainVars, slots, chainVars, connected, disc, serviceVars, heartbeat, closed>>

-----------------------------------------------------------------------------
(* main: isRunning is cleared and ServerService::Stop closes the listener;    *)
(* then Service::Stop disconnects all sessions and empties the set, under     *)
(* _lock.                                                                     *)
Shutdown ==
  /\ isRunning /\ isRunning' = FALSE
  /\ UNCHANGED <<now, stopped, slots, chainVars, connected, disc, serviceVars,
                 heartbeat, timer, closed>>

(* Mutant: the set is emptied before the sessions are disconnected.           *)
StopEmpty ==
  /\ ~ isRunning /\ ~ stopped
  /\ stopped' = TRUE
  /\ Disconnect({})
  /\ sessions' = {}
  /\ UNCHANGED <<now, isRunning, slots, chainVars, sessionCount, ccu, heartbeat, timer, closed>>

Stop ==
  /\ ~ isRunning /\ ~ stopped
  /\ stopped' = TRUE
  /\ Disconnect(sessions)
  /\ sessions' = {}
  /\ UNCHANGED <<now, isRunning, slots, chainVars, sessionCount, ccu, heartbeat, timer, closed>>

Tick ==
  /\ now < MaxTime /\ ~ stopped   \* nobody looks at the time any more
  /\ now' = now + 1
  /\ UNCHANGED <<mainVars, slots, chainVars, connected, disc, serviceVars, heartbeat, timer, closed>>

-----------------------------------------------------------------------------
WorkerStep(s) ==
  \/ ProcessConnect(s) \/ AddSession(s) \/ OnConnected(s)
  \/ \E posted \in BOOLEAN : FirstRecv(s, posted) \/ RecvAgain(s, posted)
  \/ OnDisconnected(s) \/ ReleaseSession(s)
TimerStep == \/ CheckBegin \/ GetSessionsSnapshot \/ CheckEnd
             \/ \E s \in Sessions : CheckSession(s)
             \/ CutSession
NetworkStep(s) == \/ \E answer \in Answers : RegisterAccept(s, answer)
                  \/ \E usable \in BOOLEAN : ProcessAccept(s, usable)
                  \/ \E verdict \in {"ok", "flooding", "invalid"} : OnRecvPacket(s, verdict)
                  \/ PeerClosed(s) \/ SendFails(s)

Next == \/ \E s \in Sessions : WorkerStep(s) \/ NetworkStep(s)
        \/ TimerStep \/ Stop
        \/ Shutdown
        \/ Tick

Spec == Init /\ [][Next]_vars

(* Workers and the timer thread are scheduled while the server runs.  Peers   *)
(* may be silent for ever, the server may run for ever.                       *)
Fairness == /\ \A s \in Sessions : WF_vars(isRunning /\ WorkerStep(s))
            /\ WF_vars(TimerStep)

FairSpec == Spec /\ Fairness

-----------------------------------------------------------------------------
(* However many threads disconnect a session at once, OnDisconnected runs     *)
(* once, and only for a session that was in the Service.                      *)
DisconnectedOnce == \A s \in Sessions : closed[s] <= 1

(* A session that was released is gone: it is not connected, not in the set,  *)
(* and does not come back.                                                    *)
ReleasedIsGone ==
  \A s \in Sessions : disc[s] = "done" => ~ connected[s] /\ s \notin sessions

(* The life of a session is sound: closed once, gone when released, and every *)
(* variable in its type.                                                      *)
LifeSound == TypeOK /\ DisconnectedOnce /\ ReleasedIsGone

(* When the server runs and no connection is being made or closed, the set,   *)
(* the count of sessions and the count of users all say how many sessions are *)
(* connected, although OnDisconnected may have overtaken OnConnected.         *)
CountsAgree ==
  LET quiet == \A s \in Sessions : /\ accept[s] \in {"new", "waiting", "dropped", "done"}
                                   /\ disc[s] \in {"none", "done"}
  IN isRunning /\ quiet =>
       /\ sessions = {s \in Sessions : connected[s]}
       /\ sessionCount = Cardinality(sessions)
       /\ ccu = sessionCount

(* The heartbeat check gives up a session only after it was silent for longer *)
(* than the timeout, although its clock is older than the heartbeats it reads.*)
SilentBeforeCut ==
  [][timer.at = "scan" /\ timer'.at = "cut" => now - heartbeat[timer'.cut] > Timeout]_vars

(* After Service::Stop the only connected sessions are those whose accept was *)
(* in progress when the listener was closed.                                  *)
OnlyLateAcceptsSurvive ==
  stopped => \A s \in Sessions : connected[s] => accept[s] = "connected" \/ s \in sessions

(* A connected session that stays silent past the timeout is disconnected.    *)
ZombiesAreCut ==
  \A s \in Sessions :
    (connected[s] /\ accept[s] = "done" /\ now = MaxTime /\ heartbeat[s] # 0
       /\ MaxTime - heartbeat[s] > Timeout)
    ~> (~ connected[s] \/ heartbeat[s] = MaxTime \/ ~ isRunning)

(* A session that was disconnected is taken out of the Service, unless        *)
(* DisconnectEx failed or the workers stop first.                             *)
ClosingCompletes ==
  \A s \in Sessions :
    (disc[s] = "posted") ~> ((disc[s] = "done" /\ s \notin sessions) \/ ~ isRunning)

(* A connection is given up for a missing heartbeat only when OnConnected has *)
(* started its first heartbeat.                                               *)
FreshSessionSpared ==
  [][timer.at = "scan" /\ timer'.at = "cut" => accept[timer'.cut] \in {"greeted", "done"}]_vars
=============================================================================
