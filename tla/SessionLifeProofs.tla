-------------------------- MODULE SessionLifeProofs --------------------------
(* Proofs about SessionLife for any number of sessions and accept events, any *)
(* timeout and any bound of the time.                                         *)
EXTENDS SessionLife, FiniteSetTheorems, TLAPS

-----------------------------------------------------------------------------
(* How far the sessions have come: in the Service, greeted by OnConnected,    *)
(* told by OnDisconnected, released; and the accept events in use.            *)
AddedAt == {"added", "greeted", "done"}
Added == {s \in Sessions : accept[s] \in AddedAt}
Greeted == {s \in Sessions : accept[s] \in {"greeted", "done"}}
Told == {s \in Sessions : disc[s] \in {"told", "done"}}
Released == {s \in Sessions : disc[s] = "done"}
Accepting == {s \in Sessions : accept[s] \in {"waiting", "accepted", "connected", "added", "greeted"}}

Values ==
  /\ now \in 1..MaxTime
  /\ isRunning \in BOOLEAN /\ stopped \in BOOLEAN
  /\ slots \in Nat
  /\ accept \in [Sessions -> {"new", "waiting", "accepted", "connected", "added", "greeted",
                              "done", "dropped"}]
  /\ connected \in [Sessions -> BOOLEAN]
  /\ recv \in [Sessions -> {"none", "posted", "again"}]
  /\ disc \in [Sessions -> {"none", "posted", "failed", "told", "done"}]
  /\ sessions \in SUBSET Sessions
  /\ sessionCount \in Int /\ ccu \in Int
  /\ heartbeat \in [Sessions -> 0..now]
  /\ closed \in [Sessions -> Nat]

(* Where a session is: it is connected from ProcessConnect to the first       *)
(* Disconnect, only a session in the Service is disconnected, and             *)
(* OnDisconnected is counted with the step that calls it.                     *)
Place(s) ==
  /\ connected[s] <=> accept[s] \in AddedAt \cup {"connected"} /\ disc[s] = "none"
  /\ disc[s] # "none" => accept[s] \in AddedAt
  /\ recv[s] # "none" => accept[s] = "done"
  /\ closed[s] = IF disc[s] \in {"told", "done"} THEN 1 ELSE 0

(* The set of sessions: who was added and not released, until Stop empties    *)
(* it, and then no one who is still connected is missing but a late accept.   *)
Members ==
  /\ sessions \subseteq Added \ Released
  /\ ~ stopped => Added \ Released \subseteq sessions
  /\ stopped => ~ isRunning
  /\ \A s \in Sessions : connected[s] => accept[s] = "connected" \/ s \in sessions

(* The heartbeat check works on sessions that were in the set.                *)
Timers ==
  /\ timer \in [at : {"idle", "snapshot", "scan", "cut"}, now : 0..now,
                todo : SUBSET Added, cut : Added \cup {NoSession}]
  /\ timer.at = "cut" => timer.cut # NoSession

(* The counters, which different threads move by one at a time.               *)
Counts ==
  /\ sessionCount = Cardinality(Added) - Cardinality(Released)
  /\ ccu = Cardinality(Greeted) - Cardinality(Told)
  /\ slots + Cardinality(Accepting) <= AcceptCount

LifeInv == Values /\ (\A s \in Sessions : Place(s)) /\ Members /\ Timers /\ Counts

-----------------------------------------------------------------------------
LEMMA LifeSteps ==
  ASSUME [Next]_vars
  PROVE  \/ \E s \in Sessions :
              \/ \E answer \in Answers : RegisterAccept(s, answer)
              \/ \E usable \in BOOLEAN : ProcessAccept(s, usable)
              \/ ProcessConnect(s) \/ AddSession(s) \/ OnConnected(s)
              \/ \E posted \in BOOLEAN : FirstRecv(s, posted) \/ RecvAgain(s, posted)
              \/ \E verdict \in {"ok", "flooding", "invalid"} : OnRecvPacket(s, verdict)
              \/ PeerClosed(s) \/ SendFails(s) \/ OnDisconnected(s) \/ ReleaseSession(s)
              \/ CheckSession(s)
         \/ CheckBegin \/ GetSessionsSnapshot \/ CutSession \/ CheckEnd
         \/ Shutdown \/ Stop \/ Tick
         \/ UNCHANGED vars
BY DEF Next, WorkerStep, NetworkStep, TimerStep

(* Disconnect of the sessions in cut, whichever of the calls fail.            *)
Cut(cut) ==
  /\ connected' \in [Sessions -> BOOLEAN]
  /\ disc' \in [Sessions -> {"none", "posted", "failed", "told", "done"}]
  /\ \A s \in Sessions :
       \/ s \in cut /\ connected[s] /\ ~ connected'[s] /\ disc'[s] \in {"posted", "failed"}
       \/ ~ (s \in cut /\ connected[s]) /\ (connected'[s] <=> connected[s]) /\ disc'[s] = disc[s]

LEMMA CutIs ==
  ASSUME Values, NEW cut, Disconnect(cut)
  PROVE  Cut(cut)
<1>1. connected' = [s \in Sessions |-> connected[s] /\ s \notin cut]
  BY DEF Disconnect
<1>2. PICK failed \in SUBSET {s \in cut : connected[s]} :
        disc' = [s \in Sessions |-> IF s \in failed THEN "failed"
                                   ELSE IF s \in cut /\ connected[s] THEN "posted" ELSE disc[s]]
  BY DEF Disconnect
<1>3. connected' \in [Sessions -> BOOLEAN]
      /\ \A s \in Sessions : connected'[s] <=> connected[s] /\ s \notin cut
  BY <1>1
<1>4. disc' \in [Sessions -> {"none", "posted", "failed", "told", "done"}]
  BY <1>2 DEF Values
<1>5. \A s \in Sessions : IF s \in cut /\ connected[s] THEN disc'[s] \in {"posted", "failed"}
                                                      ELSE disc'[s] = disc[s]
  BY <1>2
<1> QED  BY <1>3, <1>4, <1>5 DEF Cut

LEMMA NoCut ==
  ASSUME Values, connected' = connected, disc' = disc
  PROVE  Cut({})
BY DEF Values, Cut

(* Only sessions that were added are disconnected.                            *)
Cuts == \E cut \in SUBSET Added : Cut(cut)

LEMMA CutsAre ==
  ASSUME Values, \A s \in Sessions : Place(s), Members, Timers, NEW cut \in SUBSET Added,
         \/ Disconnect(cut)
         \/ connected' = connected /\ disc' = disc
  PROVE  Cuts
<1>1. CASE Disconnect(cut)
  BY <1>1, CutIs DEF Cuts
<1>2. CASE connected' = connected /\ disc' = disc
  BY <1>2, NoCut DEF Cuts
<1> QED  BY <1>1, <1>2

LEMMA Cutting ==
  ASSUME Values, \A s \in Sessions : Place(s), Members, Timers,
         \/ \E s \in Sessions :
              \/ \E posted \in BOOLEAN : FirstRecv(s, posted) \/ RecvAgain(s, posted)
              \/ \E verdict \in {"ok", "flooding", "invalid"} : OnRecvPacket(s, verdict)
              \/ PeerClosed(s) \/ SendFails(s)
         \/ CutSession \/ Stop
  PROVE  Cuts
<1>1. ASSUME NEW s \in Sessions,
             \/ \E posted \in BOOLEAN : FirstRecv(s, posted) \/ RecvAgain(s, posted)
             \/ \E verdict \in {"ok", "flooding", "invalid"} : OnRecvPacket(s, verdict)
             \/ PeerClosed(s) \/ SendFails(s)
      PROVE  Cuts
  <2>1. s \in Added
    BY <1>1 DEF FirstRecv, RecvAgain, OnRecvPacket, PeerClosed, SendFails, Added, AddedAt, Place,
       Members
  <2>2. \/ Disconnect({s})
        \/ connected' = connected /\ disc' = disc
    BY <1>1 DEF FirstRecv, RecvAgain, OnRecvPacket, PeerClosed, SendFails, PostRecv
  <2>3. {s} \in SUBSET Added
    BY <2>1
  <2> QED  BY <2>2, <2>3, CutsAre
<1>2. CASE CutSession
  <2>1. {timer.cut} \in SUBSET Added /\ Disconnect({timer.cut})
    BY <1>2 DEF CutSession, Timers
  <2> QED  BY <2>1, CutsAre
<1>3. CASE Stop
  <2>1. sessions \in SUBSET Added /\ Disconnect(sessions)
    BY <1>3 DEF Stop, Members
  <2> QED  BY <2>1, CutsAre
<1> QED  BY <1>1, <1>2, <1>3

LEMMA ValuesNext == LifeInv /\ [Next]_vars => Values'
<1> SUFFICES ASSUME LifeInv, [Next]_vars PROVE Values'
  OBVIOUS
<1> USE DEF mainVars, chainVars, serviceVars
<1> USE DEF LifeInv
<1>1. ASSUME NEW s \in Sessions, NEW answer \in Answers, RegisterAccept(s, answer) PROVE Values'
  BY <1>1 DEF RegisterAccept, Values
<1>2. ASSUME NEW s \in Sessions, NEW usable \in BOOLEAN, ProcessAccept(s, usable) PROVE Values'
  BY <1>2 DEF ProcessAccept, Values
<1>3. ASSUME NEW s \in Sessions, ProcessConnect(s) PROVE Values'
  BY <1>3 DEF ProcessConnect, Values
<1>4. ASSUME NEW s \in Sessions, AddSession(s) PROVE Values'
  BY <1>4 DEF AddSession, Values
<1>5. ASSUME NEW s \in Sessions, OnConnected(s) PROVE Values'
  BY <1>5 DEF OnConnected, Values
<1>6. ASSUME NEW s \in Sessions, NEW posted \in BOOLEAN, FirstRecv(s, posted) PROVE Values'
  <2>1. Cuts
    BY <1>6, Cutting
  <2>2. recv' \in [Sessions -> {"none", "posted", "again"}]
    BY <1>6 DEF FirstRecv, PostRecv, Values
  <2>3. connected' \in [Sessions -> BOOLEAN] /\ disc' \in [Sessions -> {"none", "posted", "failed", "told", "done"}]
    BY <2>1 DEF Cuts, Cut
  <2>4. /\ accept' \in [Sessions -> {"new", "waiting", "accepted", "connected", "added", "greeted",
                                    "done", "dropped"}]
        /\ slots' \in Nat
    BY <1>6 DEF FirstRecv, Values
  <2> QED  BY <1>6, <2>2, <2>3, <2>4 DEF FirstRecv, Values
<1>7. ASSUME NEW s \in Sessions, PeerClosed(s) PROVE Values'
  <2>1. Cuts
    BY <1>7, Cutting
  <2> QED  BY <1>7, <2>1 DEF PeerClosed, Cuts, Cut, Values
<1>8. ASSUME NEW s \in Sessions, NEW verdict \in {"ok", "flooding", "invalid"}, OnRecvPacket(s, verdict) PROVE Values'
  <2>1. Cuts
    BY <1>8, Cutting
  <2>2. heartbeat' \in [Sessions -> 0..now]
    BY <1>8 DEF OnRecvPacket, Values
  <2>3. connected' \in [Sessions -> BOOLEAN] /\ disc' \in [Sessions -> {"none", "posted", "failed", "told", "done"}]
    BY <2>1 DEF Cuts, Cut
  <2> QED  BY <1>8, <2>2, <2>3 DEF OnRecvPacket, Values
<1>9. ASSUME NEW s \in Sessions, NEW posted \in BOOLEAN, RecvAgain(s, posted) PROVE Values'
  <2>1. Cuts
    BY <1>9, Cutting
  <2>2. recv' \in [Sessions -> {"none", "posted", "again"}]
    BY <1>9 DEF RecvAgain, PostRecv, Values
  <2>3. connected' \in [Sessions -> BOOLEAN] /\ disc' \in [Sessions -> {"none", "posted", "failed", "told", "done"}]
    BY <2>1 DEF Cuts, Cut
  <2>4. /\ accept' \in [Sessions -> {"new", "waiting", "accepted", "connected", "added", "greeted",
                                    "done", "dropped"}]
        /\ slots' \in Nat
    BY <1>9 DEF RecvAgain, Values
  <2> QED  BY <1>9, <2>2, <2>3, <2>4 DEF RecvAgain, Values
<1>10. ASSUME NEW s \in Sessions, SendFails(s) PROVE Values'
  <2>1. Cuts
    BY <1>10, Cutting
  <2> QED  BY <1>10, <2>1 DEF SendFails, Cuts, Cut, Values
<1>11. ASSUME NEW s \in Sessions, OnDisconnected(s) PROVE Values'
  BY <1>11 DEF OnDisconnected, Values
<1>12. ASSUME NEW s \in Sessions, ReleaseSession(s) PROVE Values'
  BY <1>12 DEF ReleaseSession, Values
<1>13. ASSUME CheckBegin PROVE Values'
  BY <1>13 DEF CheckBegin, Values
<1>14. ASSUME GetSessionsSnapshot PROVE Values'
  BY <1>14 DEF GetSessionsSnapshot, Values
<1>15. ASSUME NEW s \in Sessions, CheckSession(s) PROVE Values'
  BY <1>15 DEF CheckSession, Values
<1>16. ASSUME CutSession PROVE Values'
  <2>1. Cuts
    BY <1>16, Cutting
  <2> QED  BY <1>16, <2>1 DEF CutSession, Cuts, Cut, Values
<1>17. ASSUME CheckEnd PROVE Values'
  BY <1>17 DEF CheckEnd, Values
<1>18. ASSUME Shutdown PROVE Values'
  BY <1>18 DEF Shutdown, Values
<1>19. ASSUME Stop PROVE Values'
  <2>1. Cuts
    BY <1>19, Cutting
  <2> QED  BY <1>19, <2>1 DEF Stop, Cuts, Cut, Values
<1>20. ASSUME Tick PROVE Values'
  <2>1. now' \in 1..MaxTime /\ now < now'
    BY <1>20, LifeAssumption DEF Tick, Values, LifeAssumption
  <2>2. 0..now \subseteq 0..now'
    BY <2>1 DEF Values
  <2>3. heartbeat' \in [Sessions -> 0..now']
    BY <1>20, <2>2 DEF Tick, Values
  <2> QED  BY <1>20, <2>1, <2>3 DEF Tick, Values
<1>21. ASSUME UNCHANGED vars PROVE Values'
  BY <1>21 DEF vars, Values
<1> QED
  BY <1>1, <1>2, <1>3, <1>4, <1>5, <1>6, <1>7, <1>8, <1>9,
     <1>10, <1>11, <1>12, <1>13, <1>14, <1>15, <1>16, <1>17, <1>18,
     <1>19, <1>20, <1>21, LifeSteps

LEMMA PlaceNext == LifeInv /\ [Next]_vars => (\A p \in Sessions : Place(p))'
<1> SUFFICES ASSUME LifeInv, [Next]_vars PROVE (\A p \in Sessions : Place(p))'
  OBVIOUS
<1> USE DEF mainVars, chainVars, serviceVars
<1> USE DEF LifeInv
<1>1. ASSUME NEW s \in Sessions, NEW answer \in Answers, RegisterAccept(s, answer) PROVE (\A p \in Sessions : Place(p))'
  BY <1>1 DEF RegisterAccept, Values, Place, AddedAt
<1>2. ASSUME NEW s \in Sessions, NEW usable \in BOOLEAN, ProcessAccept(s, usable) PROVE (\A p \in Sessions : Place(p))'
  BY <1>2 DEF ProcessAccept, Values, Place, AddedAt
<1>3. ASSUME NEW s \in Sessions, ProcessConnect(s) PROVE (\A p \in Sessions : Place(p))'
  BY <1>3 DEF ProcessConnect, Values, Place, AddedAt
<1>4. ASSUME NEW s \in Sessions, AddSession(s) PROVE (\A p \in Sessions : Place(p))'
  BY <1>4 DEF AddSession, Values, Place, AddedAt
<1>5. ASSUME NEW s \in Sessions, OnConnected(s) PROVE (\A p \in Sessions : Place(p))'
  BY <1>5 DEF OnConnected, Values, Place, AddedAt
<1>6. ASSUME NEW s \in Sessions, NEW posted \in BOOLEAN, FirstRecv(s, posted) PROVE (\A p \in Sessions : Place(p))'
  <2>1. Cuts
    BY <1>6, Cutting
  <2>2. /\ closed' = closed /\ \A p \in Sessions : (accept[p] \in AddedAt => accept'[p] \in AddedAt)
        /\ \A p \in Sessions : accept[p] \notin AddedAt \cup {"connected"} => accept'[p] \notin AddedAt \cup {"connected"}
        /\ \A p \in Sessions : recv'[p] # "none" => accept'[p] = "done"
    BY <1>6 DEF FirstRecv, PostRecv, Values, Place, AddedAt
  <2>3. \A p \in Sessions : accept[p] = "connected" => accept'[p] = "connected"
    BY <1>6 DEF FirstRecv, PostRecv, Values, Place, AddedAt
  <2> QED  BY <2>1, <2>2, <2>3 DEF Cuts, Cut, Added, Place
<1>7. ASSUME NEW s \in Sessions, PeerClosed(s) PROVE (\A p \in Sessions : Place(p))'
  <2>1. Cuts
    BY <1>7, Cutting
  <2>2. /\ closed' = closed /\ \A p \in Sessions : (accept[p] \in AddedAt => accept'[p] \in AddedAt)
        /\ \A p \in Sessions : accept[p] \notin AddedAt \cup {"connected"} => accept'[p] \notin AddedAt \cup {"connected"}
        /\ \A p \in Sessions : recv'[p] # "none" => accept'[p] = "done"
    BY <1>7 DEF PeerClosed, PostRecv, Values, Place, AddedAt
  <2>3. \A p \in Sessions : accept[p] = "connected" => accept'[p] = "connected"
    BY <1>7 DEF PeerClosed, PostRecv, Values, Place, AddedAt
  <2> QED  BY <2>1, <2>2, <2>3 DEF Cuts, Cut, Added, Place
<1>8. ASSUME NEW s \in Sessions, NEW verdict \in {"ok", "flooding", "invalid"}, OnRecvPacket(s, verdict) PROVE (\A p \in Sessions : Place(p))'
  <2>1. Cuts
    BY <1>8, Cutting
  <2>2. /\ closed' = closed /\ \A p \in Sessions : (accept[p] \in AddedAt => accept'[p] \in AddedAt)
        /\ \A p \in Sessions : accept[p] \notin AddedAt \cup {"connected"} => accept'[p] \notin AddedAt \cup {"connected"}
        /\ \A p \in Sessions : recv'[p] # "none" => accept'[p] = "done"
    BY <1>8 DEF OnRecvPacket, PostRecv, Values, Place, AddedAt
  <2>3. \A p \in Sessions : accept[p] = "connected" => accept'[p] = "connected"
    BY <1>8 DEF OnRecvPacket, PostRecv, Values, Place, AddedAt
  <2> QED  BY <2>1, <2>2, <2>3 DEF Cuts, Cut, Added, Place
<1>9. ASSUME NEW s \in Sessions, NEW posted \in BOOLEAN, RecvAgain(s, posted) PROVE (\A p \in Sessions : Place(p))'
  <2>1. Cuts
    BY <1>9, Cutting
  <2>2. /\ closed' = closed /\ \A p \in Sessions : (accept[p] \in AddedAt => accept'[p] \in AddedAt)
        /\ \A p \in Sessions : accept[p] \notin AddedAt \cup {"connected"} => accept'[p] \notin AddedAt \cup {"connected"}
        /\ \A p \in Sessions : recv'[p] # "none" => accept'[p] = "done"
    BY <1>9 DEF RecvAgain, PostRecv, Values, Place, AddedAt
  <2>3. \A p \in Sessions : accept[p] = "connected" => accept'[p] = "connected"
    BY <1>9 DEF RecvAgain, PostRecv, Values, Place, AddedAt
  <2> QED  BY <2>1, <2>2, <2>3 DEF Cuts, Cut, Added, Place
<1>10. ASSUME NEW s \in Sessions, SendFails(s) PROVE (\A p \in Sessions : Place(p))'
  <2>1. Cuts
    BY <1>10, Cutting
  <2>2. accept' = accept /\ recv' = recv /\ closed' = closed
    BY <1>10 DEF SendFails
  <2> QED  BY <2>1, <2>2 DEF Cuts, Cut, Added, Place, AddedAt
<1>11. ASSUME NEW s \in Sessions, OnDisconnected(s) PROVE (\A p \in Sessions : Place(p))'
  BY <1>11 DEF OnDisconnected, Values, Place, AddedAt
<1>12. ASSUME NEW s \in Sessions, ReleaseSession(s) PROVE (\A p \in Sessions : Place(p))'
  BY <1>12 DEF ReleaseSession, Values, Place, AddedAt
<1>13. ASSUME CheckBegin PROVE (\A p \in Sessions : Place(p))'
  BY <1>13 DEF CheckBegin, Values, Place, AddedAt
<1>14. ASSUME GetSessionsSnapshot PROVE (\A p \in Sessions : Place(p))'
  BY <1>14 DEF GetSessionsSnapshot, Values, Place, AddedAt
<1>15. ASSUME NEW s \in Sessions, CheckSession(s) PROVE (\A p \in Sessions : Place(p))'
  BY <1>15 DEF CheckSession, Values, Place, AddedAt
<1>16. ASSUME CutSession PROVE (\A p \in Sessions : Place(p))'
  <2>1. Cuts
    BY <1>16, Cutting
  <2>2. accept' = accept /\ recv' = recv /\ closed' = closed
    BY <1>16 DEF CutSession
  <2> QED  BY <2>1, <2>2 DEF Cuts, Cut, Added, Place, AddedAt
<1>17. ASSUME CheckEnd PROVE (\A p \in Sessions : Place(p))'
  BY <1>17 DEF CheckEnd, Values, Place, AddedAt
<1>18. ASSUME Shutdown PROVE (\A p \in Sessions : Place(p))'
  BY <1>18 DEF Shutdown, Values, Place, AddedAt
<1>19. ASSUME Stop PROVE (\A p \in Sessions : Place(p))'
  <2>1. Cuts
    BY <1>19, Cutting
  <2>2. accept' = accept /\ recv' = recv /\ closed' = closed
    BY <1>19 DEF Stop
  <2> QED  BY <2>1, <2>2 DEF Cuts, Cut, Added, Place, AddedAt
<1>20. ASSUME Tick PROVE (\A p \in Sessions : Place(p))'
  BY <1>20 DEF Tick, Values, Place, AddedAt
<1>21. ASSUME UNCHANGED vars PROVE (\A p \in Sessions : Place(p))'
  BY <1>21 DEF vars, Values, Place, AddedAt
<1> QED
  BY <1>1, <1>2, <1>3, <1>4, <1>5, <1>6, <1>7, <1>8, <1>9,
     <1>10, <1>11, <1>12, <1>13, <1>14, <1>15, <1>16, <1>17, <1>18,
     <1>19, <1>20, <1>21, LifeSteps

LEMMA CutsKeep ==
  ASSUME \A s \in Sessions : Place(s), Cuts
  PROVE  /\ Released' = Released /\ Told' = Told
         /\ \A s \in Sessions : connected'[s] => connected[s]
<1>1. PICK cut \in SUBSET Added : Cut(cut)
  BY DEF Cuts
<1>2. \A s \in Sessions : /\ disc'[s] \in {"told", "done"} <=> disc[s] \in {"told", "done"}
                          /\ disc'[s] = "done" <=> disc[s] = "done"
  <2> SUFFICES ASSUME NEW s \in Sessions
               PROVE  /\ disc'[s] \in {"told", "done"} <=> disc[s] \in {"told", "done"}
                      /\ disc'[s] = "done" <=> disc[s] = "done"
    OBVIOUS
  <2>1. CASE s \in cut /\ connected[s]
    <3>1. disc[s] = "none" /\ disc'[s] \in {"posted", "failed"}
      BY <1>1, <2>1 DEF Cut, Place
    <3> QED  BY <3>1
  <2>2. CASE ~ (s \in cut /\ connected[s])
    <3>1. disc'[s] = disc[s]
      BY <1>1, <2>2 DEF Cut
    <3> QED  BY <3>1
  <2> QED  BY <2>1, <2>2
<1>3. \A s \in Sessions : connected'[s] => connected[s]
  BY <1>1 DEF Cut
<1>4. Released' = Released
  BY <1>2 DEF Released
<1>5. Told' = Told
  BY <1>2 DEF Told
<1> QED  BY <1>3, <1>4, <1>5

LEMMA MembersNext == LifeInv /\ [Next]_vars => Members'
<1> SUFFICES ASSUME LifeInv, [Next]_vars PROVE Members'
  OBVIOUS
<1> USE DEF mainVars, chainVars, serviceVars
<1> USE DEF LifeInv
<1>1. ASSUME NEW s \in Sessions, NEW answer \in Answers, RegisterAccept(s, answer) PROVE Members'
  BY <1>1 DEF RegisterAccept, Values, Members, Place, Added, Released, AddedAt
<1>2. ASSUME NEW s \in Sessions, NEW usable \in BOOLEAN, ProcessAccept(s, usable) PROVE Members'
  BY <1>2 DEF ProcessAccept, Values, Members, Place, Added, Released, AddedAt
<1>3. ASSUME NEW s \in Sessions, ProcessConnect(s) PROVE Members'
  BY <1>3 DEF ProcessConnect, Values, Members, Place, Added, Released, AddedAt
<1>4. ASSUME NEW s \in Sessions, AddSession(s) PROVE Members'
  BY <1>4 DEF AddSession, Values, Members, Place, Added, Released, AddedAt
<1>5. ASSUME NEW s \in Sessions, OnConnected(s) PROVE Members'
  BY <1>5 DEF OnConnected, Values, Members, Place, Added, Released, AddedAt
<1>6. ASSUME NEW s \in Sessions, NEW posted \in BOOLEAN, FirstRecv(s, posted) PROVE Members'
  <2>1. Cuts
    BY <1>6, Cutting
  <2>2. /\ isRunning' = isRunning /\ sessions' = sessions /\ stopped' = stopped
        /\ \A p \in Sessions : accept[p] = "connected" => accept'[p] = "connected"
    BY <1>6 DEF FirstRecv, Values
  <2>3. Added' = Added
    BY <1>6 DEF FirstRecv, Values, Added, AddedAt
  <2>4. Released' = Released /\ \A p \in Sessions : connected'[p] => connected[p]
    BY <2>1, CutsKeep
  <2> QED  BY <2>2, <2>3, <2>4 DEF Members
<1>7. ASSUME NEW s \in Sessions, PeerClosed(s) PROVE Members'
  <2>1. Cuts
    BY <1>7, Cutting
  <2>2. /\ isRunning' = isRunning /\ sessions' = sessions /\ stopped' = stopped
        /\ \A p \in Sessions : accept[p] = "connected" => accept'[p] = "connected"
    BY <1>7 DEF PeerClosed, Values
  <2>3. Added' = Added
    BY <1>7 DEF PeerClosed, Values, Added, AddedAt
  <2>4. Released' = Released /\ \A p \in Sessions : connected'[p] => connected[p]
    BY <2>1, CutsKeep
  <2> QED  BY <2>2, <2>3, <2>4 DEF Members
<1>8. ASSUME NEW s \in Sessions, NEW verdict \in {"ok", "flooding", "invalid"}, OnRecvPacket(s, verdict) PROVE Members'
  <2>1. Cuts
    BY <1>8, Cutting
  <2>2. /\ isRunning' = isRunning /\ sessions' = sessions /\ stopped' = stopped
        /\ \A p \in Sessions : accept[p] = "connected" => accept'[p] = "connected"
    BY <1>8 DEF OnRecvPacket, Values
  <2>3. Added' = Added
    BY <1>8 DEF OnRecvPacket, Values, Added, AddedAt
  <2>4. Released' = Released /\ \A p \in Sessions : connected'[p] => connected[p]
    BY <2>1, CutsKeep
  <2> QED  BY <2>2, <2>3, <2>4 DEF Members
<1>9. ASSUME NEW s \in Sessions, NEW posted \in BOOLEAN, RecvAgain(s, posted) PROVE Members'
  <2>1. Cuts
    BY <1>9, Cutting
  <2>2. /\ isRunning' = isRunning /\ sessions' = sessions /\ stopped' = stopped
        /\ \A p \in Sessions : accept[p] = "connected" => accept'[p] = "connected"
    BY <1>9 DEF RecvAgain, Values
  <2>3. Added' = Added
    BY <1>9 DEF RecvAgain, Values, Added, AddedAt
  <2>4. Released' = Released /\ \A p \in Sessions : connected'[p] => connected[p]
    BY <2>1, CutsKeep
  <2> QED  BY <2>2, <2>3, <2>4 DEF Members
<1>10. ASSUME NEW s \in Sessions, SendFails(s) PROVE Members'
  <2>1. Cuts
    BY <1>10, Cutting
  <2>2. /\ isRunning' = isRunning /\ sessions' = sessions /\ stopped' = stopped
        /\ \A p \in Sessions : accept[p] = "connected" => accept'[p] = "connected"
    BY <1>10 DEF SendFails, Values
  <2>3. Added' = Added
    BY <1>10 DEF SendFails, Values, Added, AddedAt
  <2>4. Released' = Released /\ \A p \in Sessions : connected'[p] => connected[p]
    BY <2>1, CutsKeep
  <2> QED  BY <2>2, <2>3, <2>4 DEF Members
<1>11. ASSUME NEW s \in Sessions, OnDisconnected(s) PROVE Members'
  BY <1>11 DEF OnDisconnected, Values, Members, Place, Added, Released, AddedAt
<1>12. ASSUME NEW s \in Sessions, ReleaseSession(s) PROVE Members'
  BY <1>12 DEF ReleaseSession, Values, Members, Place, Added, Released, AddedAt
<1>13. ASSUME CheckBegin PROVE Members'
  BY <1>13 DEF CheckBegin, Values, Members, Place, Added, Released, AddedAt
<1>14. ASSUME GetSessionsSnapshot PROVE Members'
  BY <1>14 DEF GetSessionsSnapshot, Values, Members, Place, Added, Released, AddedAt
<1>15. ASSUME NEW s \in Sessions, CheckSession(s) PROVE Members'
  BY <1>15 DEF CheckSession, Values, Members, Place, Added, Released, AddedAt
<1>16. ASSUME CutSession PROVE Members'
  <2>1. Cuts
    BY <1>16, Cutting
  <2>2. /\ isRunning' = isRunning /\ sessions' = sessions /\ stopped' = stopped
        /\ \A p \in Sessions : accept[p] = "connected" => accept'[p] = "connected"
    BY <1>16 DEF CutSession, Values
  <2>3. Added' = Added
    BY <1>16 DEF CutSession, Values, Added, AddedAt
  <2>4. Released' = Released /\ \A p \in Sessions : connected'[p] => connected[p]
    BY <2>1, CutsKeep
  <2> QED  BY <2>2, <2>3, <2>4 DEF Members
<1>17. ASSUME CheckEnd PROVE Members'
  BY <1>17 DEF CheckEnd, Values, Members, Place, Added, Released, AddedAt
<1>18. ASSUME Shutdown PROVE Members'
  BY <1>18 DEF Shutdown, Values, Members, Place, Added, Released, AddedAt
<1>19. ASSUME Stop PROVE Members'
  <2>1. Cut(sessions)
    BY <1>19, CutIs DEF Stop
  <2>2. /\ accept' = accept /\ isRunning' = isRunning /\ ~ isRunning /\ sessions' = {} /\ stopped' = TRUE
    BY <1>19 DEF Stop
  <2> QED  BY <2>1, <2>2 DEF Members, Cut
<1>20. ASSUME Tick PROVE Members'
  BY <1>20 DEF Tick, Values, Members, Place, Added, Released, AddedAt
<1>21. ASSUME UNCHANGED vars PROVE Members'
  BY <1>21 DEF vars, Values, Members, Place, Added, Released, AddedAt
<1> QED
  BY <1>1, <1>2, <1>3, <1>4, <1>5, <1>6, <1>7, <1>8, <1>9,
     <1>10, <1>11, <1>12, <1>13, <1>14, <1>15, <1>16, <1>17, <1>18,
     <1>19, <1>20, <1>21, LifeSteps

LEMMA TimersKept ==
  ASSUME LifeInv, timer' = timer, Added \subseteq Added', now' \in Nat, now <= now'
  PROVE  Timers'
BY DEF LifeInv, Values, Timers

LEMMA TimersNext == LifeInv /\ [Next]_vars => Timers'
<1> SUFFICES ASSUME LifeInv, [Next]_vars PROVE Timers'
  OBVIOUS
<1> USE DEF mainVars, chainVars, serviceVars
<1> USE DEF LifeInv
<1>1. ASSUME NEW s \in Sessions, NEW answer \in Answers, RegisterAccept(s, answer) PROVE Timers'
  <2>1. timer' = timer /\ now' \in Nat /\ now <= now'
    BY <1>1 DEF RegisterAccept, Values
  <2>2. Added \subseteq Added'
    BY <1>1 DEF RegisterAccept, Values, Added, AddedAt
  <2> QED  BY <2>1, <2>2, TimersKept
<1>2. ASSUME NEW s \in Sessions, NEW usable \in BOOLEAN, ProcessAccept(s, usable) PROVE Timers'
  <2>1. timer' = timer /\ now' \in Nat /\ now <= now'
    BY <1>2 DEF ProcessAccept, Values
  <2>2. Added \subseteq Added'
    BY <1>2 DEF ProcessAccept, Values, Added, AddedAt
  <2> QED  BY <2>1, <2>2, TimersKept
<1>3. ASSUME NEW s \in Sessions, ProcessConnect(s) PROVE Timers'
  <2>1. timer' = timer /\ now' \in Nat /\ now <= now'
    BY <1>3 DEF ProcessConnect, Values
  <2>2. Added \subseteq Added'
    BY <1>3 DEF ProcessConnect, Values, Added, AddedAt
  <2> QED  BY <2>1, <2>2, TimersKept
<1>4. ASSUME NEW s \in Sessions, AddSession(s) PROVE Timers'
  <2>1. timer' = timer /\ now' \in Nat /\ now <= now'
    BY <1>4 DEF AddSession, Values
  <2>2. Added \subseteq Added'
    BY <1>4 DEF AddSession, Values, Added, AddedAt
  <2> QED  BY <2>1, <2>2, TimersKept
<1>5. ASSUME NEW s \in Sessions, OnConnected(s) PROVE Timers'
  <2>1. timer' = timer /\ now' \in Nat /\ now <= now'
    BY <1>5 DEF OnConnected, Values
  <2>2. Added \subseteq Added'
    BY <1>5 DEF OnConnected, Values, Added, AddedAt
  <2> QED  BY <2>1, <2>2, TimersKept
<1>6. ASSUME NEW s \in Sessions, NEW posted \in BOOLEAN, FirstRecv(s, posted) PROVE Timers'
  <2>1. timer' = timer /\ now' \in Nat /\ now <= now'
    BY <1>6 DEF FirstRecv, Values
  <2>2. Added \subseteq Added'
    BY <1>6 DEF FirstRecv, Values, Added, AddedAt
  <2> QED  BY <2>1, <2>2, TimersKept
<1>7. ASSUME NEW s \in Sessions, PeerClosed(s) PROVE Timers'
  <2>1. timer' = timer /\ now' \in Nat /\ now <= now'
    BY <1>7 DEF PeerClosed, Values
  <2>2. Added \subseteq Added'
    BY <1>7 DEF PeerClosed, Values, Added, AddedAt
  <2> QED  BY <2>1, <2>2, TimersKept
<1>8. ASSUME NEW s \in Sessions, NEW verdict \in {"ok", "flooding", "invalid"}, OnRecvPacket(s, verdict) PROVE Timers'
  <2>1. timer' = timer /\ now' \in Nat /\ now <= now'
    BY <1>8 DEF OnRecvPacket, Values
  <2>2. Added \subseteq Added'
    BY <1>8 DEF OnRecvPacket, Values, Added, AddedAt
  <2> QED  BY <2>1, <2>2, TimersKept
<1>9. ASSUME NEW s \in Sessions, NEW posted \in BOOLEAN, RecvAgain(s, posted) PROVE Timers'
  <2>1. timer' = timer /\ now' \in Nat /\ now <= now'
    BY <1>9 DEF RecvAgain, Values
  <2>2. Added \subseteq Added'
    BY <1>9 DEF RecvAgain, Values, Added, AddedAt
  <2> QED  BY <2>1, <2>2, TimersKept
<1>10. ASSUME NEW s \in Sessions, SendFails(s) PROVE Timers'
  <2>1. timer' = timer /\ now' \in Nat /\ now <= now'
    BY <1>10 DEF SendFails, Values
  <2>2. Added \subseteq Added'
    BY <1>10 DEF SendFails, Values, Added, AddedAt
  <2> QED  BY <2>1, <2>2, TimersKept
<1>11. ASSUME NEW s \in Sessions, OnDisconnected(s) PROVE Timers'
  <2>1. timer' = timer /\ now' \in Nat /\ now <= now'
    BY <1>11 DEF OnDisconnected, Values
  <2>2. Added \subseteq Added'
    BY <1>11 DEF OnDisconnected, Values, Added, AddedAt
  <2> QED  BY <2>1, <2>2, TimersKept
<1>12. ASSUME NEW s \in Sessions, ReleaseSession(s) PROVE Timers'
  <2>1. timer' = timer /\ now' \in Nat /\ now <= now'
    BY <1>12 DEF ReleaseSession, Values
  <2>2. Added \subseteq Added'
    BY <1>12 DEF ReleaseSession, Values, Added, AddedAt
  <2> QED  BY <2>1, <2>2, TimersKept
<1>13. ASSUME CheckBegin PROVE Timers'
  <2>1. Added' = Added /\ now' = now /\ now \in Nat
    BY <1>13 DEF CheckBegin, Values, Added
  <2>2. timer'.at # "cut" /\ timer' = [IdleTimer EXCEPT !.at = timer'.at, !.now = timer'.now] /\ timer'.now \in 0..now
        /\ timer'.at \in {"idle", "snapshot"}
    BY <1>13, <2>1 DEF CheckBegin, IdleTimer
  <2>3. timer' \in [at : {"idle", "snapshot", "scan", "cut"}, now : 0..now,
                   todo : SUBSET Added, cut : Added \cup {NoSession}]
    BY <2>2 DEF IdleTimer
  <2> QED  BY <2>1, <2>2, <2>3 DEF Timers
<1>14. ASSUME GetSessionsSnapshot PROVE Timers'
  <2>1. Added' = Added /\ now' = now /\ sessions \in SUBSET Added
    BY <1>14 DEF GetSessionsSnapshot, Values, Added, Members
  <2> QED  BY <1>14, <2>1 DEF GetSessionsSnapshot, Timers
<1>15. ASSUME NEW s \in Sessions, CheckSession(s) PROVE Timers'
  <2>1. Added' = Added /\ now' = now /\ s \in Added /\ s # NoSession /\ timer.at = "scan"
    BY <1>15, LifeAssumption DEF CheckSession, Values, Added, Timers, LifeAssumption
  <2> QED  BY <1>15, <2>1 DEF CheckSession, Timers
<1>16. ASSUME CutSession PROVE Timers'
  <2>1. Added' = Added /\ now' = now
    BY <1>16 DEF CutSession, Values, Added
  <2> QED  BY <1>16, <2>1 DEF CutSession, Timers
<1>17. ASSUME CheckEnd PROVE Timers'
  <2>1. Added' = Added /\ now' = now /\ now \in Nat /\ timer' = IdleTimer
    BY <1>17 DEF CheckEnd, Values, Added
  <2>2. IdleTimer \in [at : {"idle", "snapshot", "scan", "cut"}, now : 0..now,
                        todo : SUBSET Added, cut : Added \cup {NoSession}] /\ IdleTimer.at # "cut"
    BY <2>1 DEF IdleTimer
  <2> QED  BY <2>1, <2>2 DEF Timers
<1>18. ASSUME Shutdown PROVE Timers'
  <2>1. timer' = timer /\ now' \in Nat /\ now <= now'
    BY <1>18 DEF Shutdown, Values
  <2>2. Added \subseteq Added'
    BY <1>18 DEF Shutdown, Values, Added, AddedAt
  <2> QED  BY <2>1, <2>2, TimersKept
<1>19. ASSUME Stop PROVE Timers'
  <2>1. timer' = timer /\ now' \in Nat /\ now <= now'
    BY <1>19 DEF Stop, Values
  <2>2. Added \subseteq Added'
    BY <1>19 DEF Stop, Values, Added, AddedAt
  <2> QED  BY <2>1, <2>2, TimersKept
<1>20. ASSUME Tick PROVE Timers'
  <2>1. timer' = timer /\ now' \in Nat /\ now <= now'
    BY <1>20 DEF Tick, Values
  <2>2. Added \subseteq Added'
    BY <1>20 DEF Tick, Values, Added, AddedAt
  <2> QED  BY <2>1, <2>2, TimersKept
<1>21. ASSUME UNCHANGED vars PROVE Timers'
  <2>1. timer' = timer /\ now' \in Nat /\ now <= now'
    BY <1>21 DEF vars, Values
  <2>2. Added \subseteq Added'
    BY <1>21 DEF vars, Values, Added, AddedAt
  <2> QED  BY <2>1, <2>2, TimersKept
<1> QED
  BY <1>1, <1>2, <1>3, <1>4, <1>5, <1>6, <1>7, <1>8, <1>9,
     <1>10, <1>11, <1>12, <1>13, <1>14, <1>15, <1>16, <1>17, <1>18,
     <1>19, <1>20, <1>21, LifeSteps

LEMMA SomeSessions ==
  ASSUME NEW A \in SUBSET Sessions
  PROVE  IsFiniteSet(A) /\ Cardinality(A) \in Nat
<1>1. IsFiniteSet(Sessions)
  BY LifeAssumption DEF LifeAssumption
<1>2. IsFiniteSet(A)
  BY <1>1, FS_Subset
<1> QED  BY <1>2, FS_CardinalityType

LEMMA OneMore ==
  ASSUME NEW A \in SUBSET Sessions, NEW B \in SUBSET Sessions, NEW s \in Sessions,
         s \notin A, s \in B, \A p \in Sessions : p # s => (p \in B <=> p \in A)
  PROVE  Cardinality(B) = Cardinality(A) + 1 /\ Cardinality(A) \in Nat
<1>1. IsFiniteSet(A) /\ Cardinality(A) \in Nat
  BY SomeSessions
<1>2. B = A \cup {s}
  OBVIOUS
<1> QED  BY <1>1, <1>2, FS_AddElement

Counted == <<sessionCount, ccu, slots>>

LEMMA CountsKept ==
  ASSUME Counts, Added' = Added, Released' = Released, Greeted' = Greeted, Told' = Told,
         Accepting' = Accepting, UNCHANGED Counted
  PROVE  Counts'
BY DEF Counts, Counted

LEMMA CountsNext == LifeInv /\ [Next]_vars => Counts'
<1> SUFFICES ASSUME LifeInv, [Next]_vars PROVE Counts'
  OBVIOUS
<1> USE DEF mainVars, chainVars, serviceVars
<1> USE DEF LifeInv
<1>1. ASSUME NEW s \in Sessions, NEW answer \in Answers, RegisterAccept(s, answer) PROVE Counts'
  <2>1. CASE isRunning /\ answer = "pending"
    <3>1. Added' = Added /\ Greeted' = Greeted /\ Released' = Released /\ Told' = Told
      BY <1>1, <2>1 DEF RegisterAccept, Values, Added, Greeted, Released, Told, AddedAt
    <3>3. Cardinality(Accepting') = Cardinality(Accepting) + 1 /\ Cardinality(Accepting) \in Nat
      <4>1. /\ s \notin Accepting /\ s \in Accepting' /\ Accepting \in SUBSET Sessions /\ Accepting' \in SUBSET Sessions
            /\ \A p \in Sessions : p # s => (p \in Accepting' <=> p \in Accepting)
        BY <1>1, <2>1 DEF RegisterAccept, Values, Place, Accepting, AddedAt
      <4> QED  BY <4>1, OneMore
    <3>4. sessionCount' = sessionCount /\ ccu' = ccu /\ slots' = slots - 1
      BY <1>1, <2>1 DEF RegisterAccept
    <3>5. Cardinality(Added) \in Nat /\ Cardinality(Released) \in Nat /\ Cardinality(Greeted) \in Nat
          /\ Cardinality(Told) \in Nat /\ Cardinality(Accepting) \in Nat
      BY SomeSessions DEF Added, Released, Greeted, Told, Accepting
    <3> QED  BY <3>1, <3>3, <3>4, <3>5, LifeAssumption DEF Counts, Values, LifeAssumption
  <2>2. CASE ~ (isRunning /\ answer = "pending")
    <3>1. Added' = Added /\ Greeted' = Greeted /\ Accepting' = Accepting /\ Released' = Released /\ Told' = Told
      BY <1>1, <2>2 DEF RegisterAccept, Values, Added, Greeted, Accepting, Released, Told, AddedAt
    <3>2. sessionCount' = sessionCount /\ ccu' = ccu /\ slots' \in {slots - 1, slots}
      BY <1>1, <2>2 DEF RegisterAccept
    <3>3. Cardinality(Accepting) \in Nat
      BY SomeSessions DEF Accepting
    <3> QED  BY <3>1, <3>2, <3>3, LifeAssumption DEF Counts, Values, LifeAssumption
  <2> QED  BY <2>1, <2>2
<1>2. ASSUME NEW s \in Sessions, NEW usable \in BOOLEAN, ProcessAccept(s, usable) PROVE Counts'
  <2>1. CASE ~ (isRunning /\ usable)
    <3>1. Added' = Added /\ Greeted' = Greeted /\ Released' = Released /\ Told' = Told
      BY <1>2, <2>1 DEF ProcessAccept, Values, Added, Greeted, Released, Told, AddedAt
    <3>3. Cardinality(Accepting) = Cardinality(Accepting') + 1 /\ Cardinality(Accepting') \in Nat
      <4>1. /\ s \notin Accepting' /\ s \in Accepting /\ Accepting' \in SUBSET Sessions /\ Accepting \in SUBSET Sessions
            /\ \A p \in Sessions : p # s => (p \in Accepting <=> p \in Accepting')
        BY <1>2, <2>1 DEF ProcessAccept, Values, Place, Accepting, AddedAt
      <4> QED  BY <4>1, OneMore
    <3>4. sessionCount' = sessionCount /\ ccu' = ccu /\ slots' \in {slots, slots + 1}
      BY <1>2, <2>1 DEF ProcessAccept
    <3>5. Cardinality(Added) \in Nat /\ Cardinality(Released) \in Nat /\ Cardinality(Greeted) \in Nat
          /\ Cardinality(Told) \in Nat /\ Cardinality(Accepting) \in Nat
      BY SomeSessions DEF Added, Released, Greeted, Told, Accepting
    <3> QED  BY <3>1, <3>3, <3>4, <3>5, LifeAssumption DEF Counts, Values, LifeAssumption
  <2>2. CASE isRunning /\ usable
    <3>1. Added' = Added /\ Greeted' = Greeted /\ Accepting' = Accepting
      BY <1>2, <2>2 DEF ProcessAccept, Added, Greeted, Accepting, AddedAt, Values
    <3>2. Released' = Released /\ Told' = Told /\ UNCHANGED Counted
      BY <1>2, <2>2 DEF ProcessAccept, Released, Told, Counted
    <3> QED  BY <3>1, <3>2, CountsKept
  <2> QED  BY <2>1, <2>2
<1>3. ASSUME NEW s \in Sessions, ProcessConnect(s) PROVE Counts'
  <2>1. Added' = Added /\ Greeted' = Greeted /\ Accepting' = Accepting
    BY <1>3 DEF ProcessConnect, Values, Added, Greeted, Accepting, AddedAt
  <2>2. Released' = Released /\ Told' = Told /\ UNCHANGED Counted
    BY <1>3 DEF ProcessConnect, Values, Released, Told, Counted
  <2> QED  BY <2>1, <2>2, CountsKept
<1>4. ASSUME NEW s \in Sessions, AddSession(s) PROVE Counts'
  <2>1. Greeted' = Greeted /\ Accepting' = Accepting /\ Released' = Released /\ Told' = Told
    BY <1>4 DEF AddSession, Values, Greeted, Accepting, Released, Told, AddedAt
  <2>3. Cardinality(Added') = Cardinality(Added) + 1 /\ Cardinality(Added) \in Nat
    <3>1. /\ s \notin Added /\ s \in Added' /\ Added \in SUBSET Sessions /\ Added' \in SUBSET Sessions
          /\ \A p \in Sessions : p # s => (p \in Added' <=> p \in Added)
      BY <1>4 DEF AddSession, Values, Place, Added, AddedAt
    <3> QED  BY <3>1, OneMore
  <2>4. sessionCount' = sessionCount + 1 /\ ccu' = ccu /\ slots' = slots
    BY <1>4 DEF AddSession
  <2>5. Cardinality(Added) \in Nat /\ Cardinality(Released) \in Nat /\ Cardinality(Greeted) \in Nat
        /\ Cardinality(Told) \in Nat /\ Cardinality(Accepting) \in Nat
    BY SomeSessions DEF Added, Released, Greeted, Told, Accepting
  <2> QED  BY <2>1, <2>3, <2>4, <2>5, LifeAssumption DEF Counts, Values, LifeAssumption
<1>5. ASSUME NEW s \in Sessions, OnConnected(s) PROVE Counts'
  <2>1. Added' = Added /\ Accepting' = Accepting /\ Released' = Released /\ Told' = Told
    BY <1>5 DEF OnConnected, Values, Added, Accepting, Released, Told, AddedAt
  <2>3. Cardinality(Greeted') = Cardinality(Greeted) + 1 /\ Cardinality(Greeted) \in Nat
    <3>1. /\ s \notin Greeted /\ s \in Greeted' /\ Greeted \in SUBSET Sessions /\ Greeted' \in SUBSET Sessions
          /\ \A p \in Sessions : p # s => (p \in Greeted' <=> p \in Greeted)
      BY <1>5 DEF OnConnected, Values, Place, Greeted, AddedAt
    <3> QED  BY <3>1, OneMore
  <2>4. sessionCount' = sessionCount /\ ccu' = ccu + 1 /\ slots' = slots
    BY <1>5 DEF OnConnected
  <2>5. Cardinality(Added) \in Nat /\ Cardinality(Released) \in Nat /\ Cardinality(Greeted) \in Nat
        /\ Cardinality(Told) \in Nat /\ Cardinality(Accepting) \in Nat
    BY SomeSessions DEF Added, Released, Greeted, Told, Accepting
  <2> QED  BY <2>1, <2>3, <2>4, <2>5, LifeAssumption DEF Counts, Values, LifeAssumption
<1>6. ASSUME NEW s \in Sessions, NEW posted \in BOOLEAN, FirstRecv(s, posted) PROVE Counts'
  <2>1. Added' = Added /\ Greeted' = Greeted
    BY <1>6 DEF FirstRecv, Values, Added, Greeted, AddedAt
  <2>2. Released' = Released /\ Told' = Told
    BY <1>6, Cutting, CutsKeep
  <2>3. Cardinality(Accepting) = Cardinality(Accepting') + 1 /\ Cardinality(Accepting') \in Nat
    <3>1. /\ s \notin Accepting' /\ s \in Accepting /\ Accepting' \in SUBSET Sessions /\ Accepting \in SUBSET Sessions
          /\ \A p \in Sessions : p # s => (p \in Accepting <=> p \in Accepting')
      BY <1>6 DEF FirstRecv, Values, Place, Accepting, AddedAt
    <3> QED  BY <3>1, OneMore
  <2>4. sessionCount' = sessionCount /\ ccu' = ccu /\ slots' = slots + 1
    BY <1>6 DEF FirstRecv
  <2>5. Cardinality(Added) \in Nat /\ Cardinality(Released) \in Nat /\ Cardinality(Greeted) \in Nat
        /\ Cardinality(Told) \in Nat /\ Cardinality(Accepting) \in Nat
    BY SomeSessions DEF Added, Released, Greeted, Told, Accepting
  <2> QED  BY <2>1, <2>2, <2>3, <2>4, <2>5, LifeAssumption DEF Counts, Values, LifeAssumption
<1>7. ASSUME NEW s \in Sessions, PeerClosed(s) PROVE Counts'
  <2>1. Added' = Added /\ Greeted' = Greeted /\ Accepting' = Accepting /\ UNCHANGED Counted
    BY <1>7 DEF PeerClosed, Added, Greeted, Accepting, Counted
  <2>2. Released' = Released /\ Told' = Told
    BY <1>7, Cutting, CutsKeep
  <2> QED  BY <2>1, <2>2, CountsKept
<1>8. ASSUME NEW s \in Sessions, NEW verdict \in {"ok", "flooding", "invalid"}, OnRecvPacket(s, verdict) PROVE Counts'
  <2>1. Added' = Added /\ Greeted' = Greeted /\ Accepting' = Accepting /\ UNCHANGED Counted
    BY <1>8 DEF OnRecvPacket, Added, Greeted, Accepting, Counted
  <2>2. Released' = Released /\ Told' = Told
    BY <1>8, Cutting, CutsKeep
  <2> QED  BY <2>1, <2>2, CountsKept
<1>9. ASSUME NEW s \in Sessions, NEW posted \in BOOLEAN, RecvAgain(s, posted) PROVE Counts'
  <2>1. Added' = Added /\ Greeted' = Greeted /\ Accepting' = Accepting /\ UNCHANGED Counted
    BY <1>9 DEF RecvAgain, Added, Greeted, Accepting, Counted
  <2>2. Released' = Released /\ Told' = Told
    BY <1>9, Cutting, CutsKeep
  <2> QED  BY <2>1, <2>2, CountsKept
<1>10. ASSUME NEW s \in Sessions, SendFails(s) PROVE Counts'
  <2>1. Added' = Added /\ Greeted' = Greeted /\ Accepting' = Accepting /\ UNCHANGED Counted
    BY <1>10 DEF SendFails, Added, Greeted, Accepting, Counted
  <2>2. Released' = Released /\ Told' = Told
    BY <1>10, Cutting, CutsKeep
  <2> QED  BY <2>1, <2>2, CountsKept
<1>11. ASSUME NEW s \in Sessions, OnDisconnected(s) PROVE Counts'
  <2>1. Added' = Added /\ Greeted' = Greeted /\ Accepting' = Accepting /\ Released' = Released
    BY <1>11 DEF OnDisconnected, Values, Added, Greeted, Accepting, Released, AddedAt
  <2>3. Cardinality(Told') = Cardinality(Told) + 1 /\ Cardinality(Told) \in Nat
    <3>1. /\ s \notin Told /\ s \in Told' /\ Told \in SUBSET Sessions /\ Told' \in SUBSET Sessions
          /\ \A p \in Sessions : p # s => (p \in Told' <=> p \in Told)
      BY <1>11 DEF OnDisconnected, Values, Place, Told, AddedAt
    <3> QED  BY <3>1, OneMore
  <2>4. sessionCount' = sessionCount /\ ccu' = ccu - 1 /\ slots' = slots
    BY <1>11 DEF OnDisconnected
  <2>5. Cardinality(Added) \in Nat /\ Cardinality(Released) \in Nat /\ Cardinality(Greeted) \in Nat
        /\ Cardinality(Told) \in Nat /\ Cardinality(Accepting) \in Nat
    BY SomeSessions DEF Added, Released, Greeted, Told, Accepting
  <2> QED  BY <2>1, <2>3, <2>4, <2>5, LifeAssumption DEF Counts, Values, LifeAssumption
<1>12. ASSUME NEW s \in Sessions, ReleaseSession(s) PROVE Counts'
  <2>1. Added' = Added /\ Greeted' = Greeted /\ Accepting' = Accepting /\ Told' = Told
    BY <1>12 DEF ReleaseSession, Values, Added, Greeted, Accepting, Told, AddedAt
  <2>3. Cardinality(Released') = Cardinality(Released) + 1 /\ Cardinality(Released) \in Nat
    <3>1. /\ s \notin Released /\ s \in Released' /\ Released \in SUBSET Sessions /\ Released' \in SUBSET Sessions
          /\ \A p \in Sessions : p # s => (p \in Released' <=> p \in Released)
      BY <1>12 DEF ReleaseSession, Values, Place, Released, AddedAt
    <3> QED  BY <3>1, OneMore
  <2>4. sessionCount' = sessionCount - 1 /\ ccu' = ccu /\ slots' = slots
    BY <1>12 DEF ReleaseSession
  <2>5. Cardinality(Added) \in Nat /\ Cardinality(Released) \in Nat /\ Cardinality(Greeted) \in Nat
        /\ Cardinality(Told) \in Nat /\ Cardinality(Accepting) \in Nat
    BY SomeSessions DEF Added, Released, Greeted, Told, Accepting
  <2> QED  BY <2>1, <2>3, <2>4, <2>5, LifeAssumption DEF Counts, Values, LifeAssumption
<1>13. ASSUME CheckBegin PROVE Counts'
  <2>1. Added' = Added /\ Greeted' = Greeted /\ Accepting' = Accepting
    BY <1>13 DEF CheckBegin, Values, Added, Greeted, Accepting, AddedAt
  <2>2. Released' = Released /\ Told' = Told /\ UNCHANGED Counted
    BY <1>13 DEF CheckBegin, Values, Released, Told, Counted
  <2> QED  BY <2>1, <2>2, CountsKept
<1>14. ASSUME GetSessionsSnapshot PROVE Counts'
  <2>1. Added' = Added /\ Greeted' = Greeted /\ Accepting' = Accepting
    BY <1>14 DEF GetSessionsSnapshot, Values, Added, Greeted, Accepting, AddedAt
  <2>2. Released' = Released /\ Told' = Told /\ UNCHANGED Counted
    BY <1>14 DEF GetSessionsSnapshot, Values, Released, Told, Counted
  <2> QED  BY <2>1, <2>2, CountsKept
<1>15. ASSUME NEW s \in Sessions, CheckSession(s) PROVE Counts'
  <2>1. Added' = Added /\ Greeted' = Greeted /\ Accepting' = Accepting
    BY <1>15 DEF CheckSession, Values, Added, Greeted, Accepting, AddedAt
  <2>2. Released' = Released /\ Told' = Told /\ UNCHANGED Counted
    BY <1>15 DEF CheckSession, Values, Released, Told, Counted
  <2> QED  BY <2>1, <2>2, CountsKept
<1>16. ASSUME CutSession PROVE Counts'
  <2>1. Added' = Added /\ Greeted' = Greeted /\ Accepting' = Accepting /\ UNCHANGED Counted
    BY <1>16 DEF CutSession, Added, Greeted, Accepting, Counted
  <2>2. Released' = Released /\ Told' = Told
    BY <1>16, Cutting, CutsKeep
  <2> QED  BY <2>1, <2>2, CountsKept
<1>17. ASSUME CheckEnd PROVE Counts'
  <2>1. Added' = Added /\ Greeted' = Greeted /\ Accepting' = Accepting
    BY <1>17 DEF CheckEnd, Values, Added, Greeted, Accepting, AddedAt
  <2>2. Released' = Released /\ Told' = Told /\ UNCHANGED Counted
    BY <1>17 DEF CheckEnd, Values, Released, Told, Counted
  <2> QED  BY <2>1, <2>2, CountsKept
<1>18. ASSUME Shutdown PROVE Counts'
  <2>1. Added' = Added /\ Greeted' = Greeted /\ Accepting' = Accepting
    BY <1>18 DEF Shutdown, Values, Added, Greeted, Accepting, AddedAt
  <2>2. Released' = Released /\ Told' = Told /\ UNCHANGED Counted
    BY <1>18 DEF Shutdown, Values, Released, Told, Counted
  <2> QED  BY <2>1, <2>2, CountsKept
<1>19. ASSUME Stop PROVE Counts'
  <2>1. Added' = Added /\ Greeted' = Greeted /\ Accepting' = Accepting /\ UNCHANGED Counted
    BY <1>19 DEF Stop, Added, Greeted, Accepting, Counted
  <2>2. Released' = Released /\ Told' = Told
    BY <1>19, Cutting, CutsKeep
  <2> QED  BY <2>1, <2>2, CountsKept
<1>20. ASSUME Tick PROVE Counts'
  <2>1. Added' = Added /\ Greeted' = Greeted /\ Accepting' = Accepting
    BY <1>20 DEF Tick, Values, Added, Greeted, Accepting, AddedAt
  <2>2. Released' = Released /\ Told' = Told /\ UNCHANGED Counted
    BY <1>20 DEF Tick, Values, Released, Told, Counted
  <2> QED  BY <2>1, <2>2, CountsKept
<1>21. ASSUME UNCHANGED vars PROVE Counts'
  <2>1. Added' = Added /\ Greeted' = Greeted /\ Accepting' = Accepting
    BY <1>21 DEF vars, Values, Added, Greeted, Accepting, AddedAt
  <2>2. Released' = Released /\ Told' = Told /\ UNCHANGED Counted
    BY <1>21 DEF vars, Values, Released, Told, Counted
  <2> QED  BY <2>1, <2>2, CountsKept
<1> QED
  BY <1>1, <1>2, <1>3, <1>4, <1>5, <1>6, <1>7, <1>8, <1>9,
     <1>10, <1>11, <1>12, <1>13, <1>14, <1>15, <1>16, <1>17, <1>18,
     <1>19, <1>20, <1>21, LifeSteps

-----------------------------------------------------------------------------
LEMMA LifeInit == Init => LifeInv
<1> SUFFICES ASSUME Init PROVE LifeInv
  OBVIOUS
<1>1. Values
  <2>1. now \in 1..MaxTime /\ slots \in Nat /\ 0 \in 0..now
    BY LifeAssumption DEF Init, LifeAssumption
  <2>2. heartbeat \in [Sessions -> 0..now] /\ closed \in [Sessions -> Nat]
    BY <2>1 DEF Init
  <2>3. isRunning \in BOOLEAN /\ stopped \in BOOLEAN /\ connected \in [Sessions -> BOOLEAN]
    BY DEF Init
  <2>4. /\ accept \in [Sessions -> {"new", "waiting", "accepted", "connected", "added", "greeted",
                                    "done", "dropped"}]
        /\ recv \in [Sessions -> {"none", "posted", "again"}]
        /\ disc \in [Sessions -> {"none", "posted", "failed", "told", "done"}]
    BY DEF Init
  <2>5. sessions \in SUBSET Sessions /\ sessionCount \in Int /\ ccu \in Int
    BY DEF Init
  <2> QED  BY <2>1, <2>2, <2>3, <2>4, <2>5 DEF Values
<1>2. \A s \in Sessions : Place(s)
  BY DEF Init, Place, AddedAt
<1>3. Added = {} /\ Released = {} /\ Greeted = {} /\ Told = {} /\ Accepting = {}
  BY DEF Init, Added, Released, Greeted, Told, Accepting, AddedAt
<1>4. Members
  BY <1>3 DEF Init, Members
<1>5. Timers
  BY <1>3 DEF Init, Timers, IdleTimer
<1>6. Counts
  BY <1>3, FS_EmptySet, LifeAssumption DEF Init, Counts, LifeAssumption
<1> QED  BY <1>1, <1>2, <1>4, <1>5, <1>6 DEF LifeInv

LEMMA LifeInvariant == Spec => []LifeInv
<1>1. LifeInv /\ [Next]_vars => LifeInv'
  BY ValuesNext, PlaceNext, MembersNext, TimersNext, CountsNext DEF LifeInv
<1> QED  BY <1>1, LifeInit, PTL DEF Spec

LEMMA CountRanges ==
  ASSUME LifeInv
  PROVE  /\ slots \in 0..AcceptCount
         /\ sessionCount \in 0..Cardinality(Sessions)
         /\ ccu \in -Cardinality(Sessions)..Cardinality(Sessions)
<1>1. /\ Cardinality(Added) \in Nat /\ Cardinality(Released) \in Nat /\ Cardinality(Greeted) \in Nat
      /\ Cardinality(Told) \in Nat /\ Cardinality(Accepting) \in Nat /\ Cardinality(Sessions) \in Nat
  BY SomeSessions DEF Added, Released, Greeted, Told, Accepting
<1>2. Released \subseteq Added
  BY DEF LifeInv, Place, Released, Added
<1>3. Cardinality(Released) <= Cardinality(Added)
  <2>1. IsFiniteSet(Added)
    BY SomeSessions DEF Added
  <2> QED  BY <1>2, <2>1, FS_Subset
<1>4. /\ Cardinality(Added) <= Cardinality(Sessions) /\ Cardinality(Greeted) <= Cardinality(Sessions)
      /\ Cardinality(Told) <= Cardinality(Sessions)
  <2>1. IsFiniteSet(Sessions) /\ Added \in SUBSET Sessions /\ Greeted \in SUBSET Sessions
        /\ Told \in SUBSET Sessions
    BY LifeAssumption DEF LifeAssumption, Added, Greeted, Told
  <2> QED  BY <2>1, FS_Subset
<1>5. slots \in 0..AcceptCount
  BY <1>1, LifeAssumption DEF LifeInv, Values, Counts, LifeAssumption
<1>6. sessionCount \in 0..Cardinality(Sessions)
  BY <1>1, <1>3, <1>4 DEF LifeInv, Counts
<1>7. ccu \in -Cardinality(Sessions)..Cardinality(Sessions)
  BY <1>1, <1>4 DEF LifeInv, Counts
<1> QED  BY <1>5, <1>6, <1>7

(* However many threads disconnect a session at once, OnDisconnected runs     *)
(* once and a released session does not come back; the counters stay within   *)
(* the number of sessions and of accept events.                               *)
THEOREM LifeIsSound == Spec => []LifeSound
<1>1. LifeInv => LifeSound
  <2> SUFFICES ASSUME LifeInv PROVE LifeSound
    OBVIOUS
  <2>1. timer \in [at : {"idle", "snapshot", "scan", "cut"}, now : 0..now,
                   todo : SUBSET Sessions, cut : Sessions \cup {NoSession}]
    <3>1. Added \subseteq Sessions
      BY DEF Added
    <3> QED  BY <3>1 DEF LifeInv, Timers
  <2>2. TypeOK
    BY <2>1, CountRanges DEF TypeOK, LifeInv, Values
  <2>3. DisconnectedOnce
    BY DEF DisconnectedOnce, LifeInv, Place
  <2>4. ReleasedIsGone
    BY DEF ReleasedIsGone, LifeInv, Place, Members, Released
  <2> QED  BY <2>2, <2>3, <2>4 DEF LifeSound
<1> QED  BY <1>1, LifeInvariant, PTL

(* With no connection being made or closed, the set of sessions, the count of *)
(* Service and the count of ServerStats say how many sessions are connected:  *)
(* what AddSession, OnConnected, OnDisconnected and ReleaseSession of many    *)
(* workers add and take away balances out, in whatever order they ran.        *)
THEOREM CountsAreRight == Spec => []CountsAgree
<1>1. LifeInv => CountsAgree
  <2> SUFFICES ASSUME LifeInv, isRunning,
                      \A s \in Sessions : /\ accept[s] \in {"new", "waiting", "dropped", "done"}
                                          /\ disc[s] \in {"none", "done"}
               PROVE  /\ sessions = {s \in Sessions : connected[s]}
                      /\ sessionCount = Cardinality(sessions)
                      /\ ccu = sessionCount
    BY DEF CountsAgree
  <2>1. sessions = Added \ Released /\ Released \subseteq Added
    BY DEF LifeInv, Members, Place, Added, Released
  <2>2. sessions = {s \in Sessions : connected[s]}
    <3>1. \A s \in Sessions : connected[s] <=> s \in Added /\ s \notin Released
      BY DEF LifeInv, Place, Added, Released, AddedAt
    <3> QED  BY <2>1, <3>1 DEF Added
  <2>3. Greeted = Added /\ Told = Released
    BY DEF Greeted, Added, Told, Released, AddedAt
  <2>4. Cardinality(Added \ Released) = Cardinality(Added) - Cardinality(Released)
    <3>1. IsFiniteSet(Added) /\ Added \cap Released = Released
      BY <2>1, SomeSessions DEF Added
    <3> QED  BY <3>1, FS_Difference
  <2>5. sessionCount = Cardinality(sessions) /\ ccu = sessionCount
    BY <2>1, <2>3, <2>4 DEF LifeInv, Counts
  <2> QED  BY <2>2, <2>5
<1> QED  BY <1>1, LifeInvariant, PTL

(* Service::Stop leaves no session connected but those whose accept was in    *)
(* progress: a worker that adds a session after Stop has emptied the set does *)
(* not lose it.                                                               *)
THEOREM StopLeavesLateAccepts == Spec => []OnlyLateAcceptsSurvive
<1>1. LifeInv => OnlyLateAcceptsSurvive
  BY DEF LifeInv, Members, OnlyLateAcceptsSurvive
<1> QED  BY <1>1, LifeInvariant, PTL

(* The heartbeat check gives a session up only after a silence longer than    *)
(* TIME_OUT_MS: its own clock may be older than the heartbeat it reads, and   *)
(* the difference of the two is taken modulo 2^64.                            *)
THEOREM OnlyTheSilentAreCut == Spec => SilentBeforeCut
<1>1. LifeInv /\ [Next]_vars =>
        [timer.at = "scan" /\ timer'.at = "cut" => now - heartbeat[timer'.cut] > Timeout]_vars
  <2> SUFFICES ASSUME LifeInv, [Next]_vars, timer.at = "scan", timer'.at = "cut"
               PROVE  now - heartbeat[timer'.cut] > Timeout
    OBVIOUS
  <2>1. PICK s \in Sessions : CheckSession(s)
    <3>1. timer' # timer
      OBVIOUS
    <3>2. ~ CheckBegin /\ ~ GetSessionsSnapshot /\ ~ CutSession /\ ~ CheckEnd
      BY DEF CheckBegin, GetSessionsSnapshot, CutSession, CheckEnd, IdleTimer
    <3>3. ~ Shutdown /\ ~ Stop /\ ~ Tick /\ ~ UNCHANGED vars
      BY <3>1 DEF Shutdown, Stop, Tick, vars
    <3>4. \A s \in Sessions :
            ~ \/ \E answer \in Answers : RegisterAccept(s, answer)
              \/ \E usable \in BOOLEAN : ProcessAccept(s, usable)
              \/ ProcessConnect(s) \/ AddSession(s) \/ OnConnected(s)
              \/ \E posted \in BOOLEAN : FirstRecv(s, posted) \/ RecvAgain(s, posted)
              \/ \E verdict \in {"ok", "flooding", "invalid"} : OnRecvPacket(s, verdict)
              \/ PeerClosed(s) \/ SendFails(s) \/ OnDisconnected(s) \/ ReleaseSession(s)
      BY <3>1 DEF RegisterAccept, ProcessAccept, ProcessConnect, AddSession, OnConnected, FirstRecv,
         RecvAgain, OnRecvPacket, PeerClosed, SendFails, OnDisconnected, ReleaseSession
    <3> QED  BY <3>2, <3>3, <3>4, LifeSteps
  <2>2. TimedOut(s) /\ timer'.cut = s
    BY <2>1 DEF CheckSession, LifeInv, Timers
  <2>3. /\ timer.now \in 0..now /\ now \in 1..MaxTime /\ heartbeat[s] \in 0..now
        /\ MaxTime \in Nat /\ Wrap \in Nat /\ Wrap > 2 * MaxTime /\ Timeout \in Nat
    BY LifeAssumption DEF LifeInv, Timers, Values, LifeAssumption
  <2>4. /\ timer.now > heartbeat[s] /\ (timer.now - heartbeat[s]) % Wrap > Timeout
    BY <2>2 DEF TimedOut
  <2>5. ASSUME NEW t \in Nat, NEW h \in Nat, t > h, t <= MaxTime PROVE (t - h) % Wrap = t - h
    BY <2>3, <2>5
  <2>6. (timer.now - heartbeat[s]) % Wrap = timer.now - heartbeat[s]
    BY <2>3, <2>4, <2>5
  <2> QED  BY <2>2, <2>3, <2>4, <2>6
<1> QED  BY <1>1, LifeInvariant, PTL DEF Spec, SilentBeforeCut
=============================================================================
