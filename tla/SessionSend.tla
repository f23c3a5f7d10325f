----------------------------- MODULE SessionSend -----------------------------
(* The send side of ServerEngine/Network/Session.cpp: Send (one buffer or a   *)
(* vector), RegisterSend, WSASend and its completion in ProcessSend.  Any     *)
(* worker may call Send; the completion is handled by whichever worker gets   *)
(* it (Completer stands for that one).  A section under _sendLock, an atomic  *)
(* access and a system call are steps.                                        *)
EXTENDS Naturals, Sequences, FiniteSets, SequencesExt

CONSTANTS Senders,     \* threads that call Send
          Completer,   \* the worker that handles the send completion
          MaxQueue,    \* MAX_SEND_QUEUE_SIZE (500)
          MaxGather,   \* MAX_GATHER (64)
          MaxSend,     \* bound: buffers each thread sends
          Size         \* WriteSize of the n-th buffer of a thread, in bytes

Threads == Senders \cup {Completer}
Buffers == Senders \X (1..MaxSend)

ASSUME Assumptions == /\ Completer \notin Senders
                      /\ MaxQueue \in Nat \ {0} /\ MaxGather \in Nat \ {0}
                      /\ MaxSend \in Nat
                      /\ Size \in [1..MaxSend -> Nat \ {0}]

VARIABLES connected,   \* _connected
          sendQueue,   \* _sendQueue
          isSending,   \* _isSending
          sendOffset,  \* _sendOffset
          event,       \* _sendEvent.sendBuffers
          wsaBufs,     \* the bytes handed to WSASend
          kernel,      \* <<>>, <<"posted">>, or <<"done", n>>: completion with n bytes queued
          pc, want,    \* place of each thread, buffers it is sending
          made,        \* buffers each thread has sent
          stalled,     \* history: WSASend failed with a "recoverable" error
          accepted,    \* history: buffers put into _sendQueue, in order
          wire         \* history: bytes the network took, in order

threadVars == <<pc, want, made>>
queueVars == <<sendQueue, isSending, sendOffset>>
ioVars == <<event, wsaBufs, kernel>>
history == <<stalled, accepted, wire>>
vars == <<connected, queueVars, ioVars, threadVars, history>>

(* The bytes of a buffer after the first off, of a sequence of buffers the    *)
(* first of which starts at off.                                              *)
BytesFrom(b, off) == [i \in 1..(Size[b[2]] - off) |-> <<b, off + i>>]
Bytes(bufs, off) ==
  FlattenSeq([i \in 1..Len(bufs) |-> BytesFrom(bufs[i], IF i = 1 THEN off ELSE 0)])

TypeOK ==
  /\ connected \in BOOLEAN
  /\ sendQueue \in Seq(Buffers)
  /\ isSending \in BOOLEAN
  /\ sendOffset \in Nat
  /\ connected /\ sendQueue # <<>> /\ event = <<>> => sendOffset < Size[sendQueue[1][2]]
  /\ event \in Seq(Buffers)
  /\ Len(wsaBufs) <= Len(Bytes(event, 0))
  /\ kernel \in {<<>>, <<"posted">>} \cup {<<"done", n>> : n \in 0..Len(wsaBufs)}
  /\ pc \in [Threads -> {"idle", "send", "overflow", "register", "gather", "post", "fatal"}]
  /\ want \in [Threads -> 0..MaxSend]
  /\ made \in [Threads -> 0..MaxSend]
  /\ stalled \in BOOLEAN
  /\ accepted \in Seq(Buffers)

Init ==
  /\ connected = TRUE
  /\ sendQueue = <<>> /\ isSending = FALSE /\ sendOffset = 0
  /\ event = <<>> /\ wsaBufs = <<>> /\ kernel = <<>>
  /\ pc = [t \in Threads |-> "idle"] /\ want = [t \in Threads |-> 0]
  /\ made = [t \in Threads |-> 0]
  /\ stalled = FALSE /\ accepted = <<>> /\ wire = <<>>

Goto(t, place) == pc' = [pc EXCEPT ![t] = place]

-----------------------------------------------------------------------------
(* Send: the test of IsConnected() outside the lock.  k buffers: k = 1 is     *)
(* Send(buffer), more is Send(vector).                                        *)
SendCheck(t, k) ==
  /\ pc[t] = "idle" /\ connected
  /\ made[t] + k <= MaxSend
  /\ Goto(t, "send")
  /\ want' = [want EXCEPT ![t] = k]
  /\ UNCHANGED <<connected, queueVars, ioVars, made, history>>

(* Overflow is tested differently by the two overloads.                       *)
Overflows(k) == IF k = 1 THEN Len(sendQueue) >= MaxQueue
                         ELSE Len(sendQueue) + k >= MaxQueue

Fresh(t) == [i \in 1..want[t] |-> <<t, made[t] + i>>]

Enqueue(t, overflow, register) ==
  /\ pc[t] = "send"
  /\ IF overflow
       THEN /\ Goto(t, "overflow")
            /\ UNCHANGED <<sendQueue, isSending, accepted>>
       ELSE /\ sendQueue' = sendQueue \o Fresh(t)
            /\ accepted' = accepted \o Fresh(t)
            /\ isSending' = TRUE
            /\ Goto(t, IF register THEN "register" ELSE "idle")
  /\ made' = [made EXCEPT ![t] = @ + want[t]]
  /\ want' = [want EXCEPT ![t] = 0]
  /\ UNCHANGED <<connected, sendOffset, ioVars, stalled, wire>>

(* Mutants: a thread that finds _isSending set registers nevertheless; the    *)
(* limit of the queue is not tested.                                          *)
SendEnqueueAlways(t) == Enqueue(t, Overflows(want[t]), TRUE)
SendEnqueueNoLimit(t) == Enqueue(t, FALSE, ~ isSending)

(* The section under _sendLock: only the thread that sets _isSending goes on  *)
(* to RegisterSend.                                                           *)
SendEnqueue(t) == Enqueue(t, Overflows(want[t]), ~ isSending)

(* Disconnect("SendQueue Overflow").                                          *)
SendOverflow(t) ==
  /\ pc[t] = "overflow"
  /\ connected' = FALSE
  /\ Goto(t, "idle")
  /\ UNCHANGED <<queueVars, ioVars, want, made, history>>

-----------------------------------------------------------------------------
(* RegisterSend.  A session that is not connected stays marked as sending.    *)
RegisterCheck(t) ==
  /\ pc[t] = "register"
  /\ Goto(t, IF connected THEN "gather" ELSE "idle")
  /\ UNCHANGED <<connected, queueVars, ioVars, want, made, history>>

(* Under _sendLock up to MaxGather buffers move to the event; the first one   *)
(* starts at _sendOffset.  With none the session stops sending.               *)
Gather(t) ==
  /\ pc[t] = "gather"
  /\ LET n == IF Len(sendQueue) < MaxGather THEN Len(sendQueue) ELSE MaxGather
         taken == SubSeq(sendQueue, 1, n)
     IN /\ event' = event \o taken
        /\ wsaBufs' = Bytes(taken, sendOffset)
        /\ sendQueue' = SubSeq(sendQueue, n + 1, Len(sendQueue))
        /\ isSending' = (n # 0)
        /\ Goto(t, IF n = 0 THEN "idle" ELSE "post")
  /\ UNCHANGED <<connected, sendOffset, kernel, want, made, history>>

(* WSASend: accepted (or pending), ...                                        *)
PostSend(t) ==
  /\ pc[t] = "post"
  /\ kernel' = <<"posted">>
  /\ Goto(t, "idle")
  /\ UNCHANGED <<connected, queueVars, event, wsaBufs, want, made, history>>

(* ... failed with WSAEWOULDBLOCK or WSA_IO_INCOMPLETE: nothing is done, ...  *)
PostRecoverable(t) ==
  /\ pc[t] = "post"
  /\ stalled' = TRUE
  /\ Goto(t, "idle")
  /\ UNCHANGED <<connected, queueVars, ioVars, want, made, accepted, wire>>

(* ... or failed for good: HandleError disconnects, then the send is undone.  *)
PostFatal(t) ==
  /\ pc[t] = "post"
  /\ connected' = FALSE
  /\ Goto(t, "fatal")
  /\ UNCHANGED <<queueVars, ioVars, want, made, history>>

FatalCleanup(t) ==
  /\ pc[t] = "fatal"
  /\ event' = <<>> /\ wsaBufs' = <<>>
  /\ isSending' = FALSE
  /\ Goto(t, "idle")
  /\ UNCHANGED <<connected, sendQueue, sendOffset, kernel, want, made, history>>

(* The system takes the first n bytes (0 when the connection broke).          *)
KernelComplete(n) ==
  /\ kernel = <<"posted">>
  /\ kernel' = <<"done", n>>
  /\ wire' = wire \o SubSeq(wsaBufs, 1, n)
  /\ UNCHANGED <<connected, queueVars, event, wsaBufs, threadVars, stalled, accepted>>

-----------------------------------------------------------------------------
(* ProcessSend(n): bytes of event[1..i] that were pending, counted from       *)
(* _sendOffset, and the number of buffers that n bytes complete.              *)
PendingUpTo(i) == Len(Bytes(SubSeq(event, 1, i), sendOffset))
Completed(n) == CHOOSE i \in 0..Len(event) :
                  /\ PendingUpTo(i) <= n
                  /\ \A j \in (i + 1)..Len(event) : PendingUpTo(j) > n

HasBytes == kernel # <<>> /\ kernel[1] = "done" /\ kernel[2] > 0
Rest == SubSeq(event, Completed(kernel[2]) + 1, Len(event))
NextOffset == LET i == Completed(kernel[2])
              IN (IF i = 0 THEN sendOffset ELSE 0) + kernel[2] - PendingUpTo(i)

Resume(offset, more) ==
  /\ pc[Completer] = "idle" /\ HasBytes
  /\ sendQueue' = Rest \o sendQueue
  /\ sendOffset' = offset
  /\ isSending' = more
  /\ Goto(Completer, IF more THEN "register" ELSE "idle")
  /\ event' = <<>> /\ wsaBufs' = <<>> /\ kernel' = <<>>
  /\ UNCHANGED <<connected, want, made, history>>

(* Mutants: the offset of a buffer interrupted twice starts anew; _isSending  *)
(* is cleared without a look at the queue.                                    *)
ProcessSendNewOffset ==
  Resume(IF Rest = <<>> THEN 0 ELSE kernel[2] - PendingUpTo(Completed(kernel[2])),
         Rest \o sendQueue # <<>>)
ProcessSendForgets == Resume(IF Rest = <<>> THEN 0 ELSE NextOffset, Rest # <<>>)

(* Some bytes went: unfinished buffers return to the front of the queue, and  *)
(* the worker sends on unless nothing is left.                                *)
ProcessSend == Resume(IF Rest = <<>> THEN 0 ELSE NextOffset, Rest \o sendQueue # <<>>)

(* No bytes: the buffers are dropped and the session disconnects, still       *)
(* marked as sending.                                                         *)
ProcessSendBroken ==
  /\ pc[Completer] = "idle" /\ kernel = <<"done", 0>>
  /\ connected' = FALSE
  /\ event' = <<>> /\ wsaBufs' = <<>> /\ kernel' = <<>>
  /\ UNCHANGED <<queueVars, threadVars, history>>

(* Disconnect for a reason outside the send path.                             *)
Disconnect ==
  /\ connected
  /\ connected' = FALSE
  /\ UNCHANGED <<queueVars, ioVars, threadVars, history>>

RegisterStep(t) == RegisterCheck(t) \/ Gather(t) \/ PostSend(t) \/ PostRecoverable(t)
                     \/ PostFatal(t) \/ FatalCleanup(t)
SendStep(t) == SendEnqueue(t) \/ SendOverflow(t) \/ RegisterStep(t)
CompleteStep == ProcessSend \/ ProcessSendBroken \/ RegisterStep(Completer)
KernelStep == \E n \in 0..Len(wsaBufs) : KernelComplete(n)

Next == \/ \E t \in Senders : SendStep(t) \/ \E k \in 1..MaxSend : SendCheck(t, k)
        \/ CompleteStep
        \/ KernelStep
        \/ Disconnect

Spec == Init /\ [][Next]_vars

(* Threads inside Send and the worker with the completion go on, and the      *)
(* network takes bytes or breaks.                                             *)
Fairness == /\ \A t \in Senders : WF_vars(SendStep(t))
            /\ WF_vars(CompleteStep)
            /\ WF_vars(KernelStep)

FairSpec == Spec /\ Fairness

-----------------------------------------------------------------------------
(* Who holds the right to send: a thread inside RegisterSend, the system with *)
(* an outstanding WSASend, or its completion.                                 *)
Registering == {t \in Threads : pc[t] \in {"register", "gather", "post", "fatal"}}

(* At most one WSASend is outstanding or about to be issued, so that _sendEvent *)
(* and _sendOffset, which have no lock of their own, are never shared.        *)
OneSendAtATime ==
  /\ \A t, u \in Registering : t = u
  /\ Registering # {} => kernel = <<>>

(* A connected session with something queued is being sent (or WSASend failed *)
(* with a "recoverable" error, after which nobody sends): no Send slips in    *)
(* between the last look at the queue and the reset of _isSending.            *)
NoLostSend ==
  connected /\ sendQueue # <<>> => isSending /\ (Registering # {} \/ kernel # <<>> \/ stalled)

(* RegisterSend always finds something to send.                               *)
GatherFindsBuffers == \A t \in Threads : pc[t] = "gather" => sendQueue # <<>>

(* The queue passes its limit by what one WSASend had taken, and no more.     *)
QueueBounded == Len(sendQueue) <= MaxQueue + MaxGather

(* The queue is sound: within its limit, not empty when a WSASend is to be    *)
(* made of it, and every variable in its type.                                *)
QueueSound == TypeOK /\ GatherFindsBuffers /\ QueueBounded

(* The bytes not yet on the wire, wherever they are.                          *)
Unsent == IF event = <<>> THEN Bytes(sendQueue, sendOffset)
          ELSE LET n == IF kernel # <<>> /\ kernel[1] = "done" THEN kernel[2] ELSE 0
               IN SubSeq(wsaBufs, n + 1, Len(wsaBufs)) \o Bytes(sendQueue, 0)

(* As long as the session is connected no byte of an accepted buffer is lost, *)
(* sent twice or sent out of order, however completions cut the buffers.      *)
StreamIntact == connected => wire \o Unsent = Bytes(accepted, 0)

(* Every accepted buffer is sent to its last byte unless the session          *)
(* disconnects or WSASend fails with a "recoverable" error.                   *)
AcceptedIsSent ==
  \A b \in Buffers :
    (b \in Range(accepted)) ~>
      (<<b, Size[b[2]]>> \in Range(wire) \/ ~ connected \/ stalled)
=============================================================================
