------------------------------- MODULE SpinLock -------------------------------
(* SpinLock of ServerEngine/Lock/SpinLock.h: exchange, and while the lock is  *)
(* taken read until it looks free and exchange again.  The program using the  *)
(* lock says when a thread locks and unlocks.  The pause and the yield of the *)
(* waiting loop change no state.  TryLock has no caller.                      *)
CONSTANT LockThreads

VARIABLES locked,   \* _locked
          lockAt    \* where a thread is in Lock: outside, waiting, retrying or past it

lockVars == <<locked, lockAt>>

LockTypeOK == /\ locked \in BOOLEAN
              /\ lockAt \in [LockThreads -> {"out", "wait", "retry", "in"}]

LockInit == locked = FALSE /\ lockAt = [t \in LockThreads |-> "out"]

(* Mutant: load and store instead of exchange: a thread that saw the lock     *)
(* free takes it.                                                             *)
ExchangeBlind(t) ==
  /\ locked' = TRUE
  /\ lockAt' = [lockAt EXCEPT ![t] = IF locked /\ lockAt[t] = "out" THEN "wait" ELSE "in"]

(* _locked.exchange(true): whoever turned it from false has the lock.         *)
Exchange(t) ==
  /\ locked' = TRUE
  /\ lockAt' = [lockAt EXCEPT ![t] = IF locked THEN "wait" ELSE "in"]

Lock(t) == lockAt[t] = "out" /\ Exchange(t)

SeesFree(t) == /\ lockAt[t] = "wait" /\ ~ locked
               /\ lockAt' = [lockAt EXCEPT ![t] = "retry"]
               /\ UNCHANGED locked

Retry(t) == lockAt[t] = "retry" /\ Exchange(t)

Unlock(t) == /\ lockAt[t] = "in"
             /\ locked' = FALSE
             /\ lockAt' = [lockAt EXCEPT ![t] = "out"]

(* Of all threads that lock, one at most is past Lock, and _locked says so.   *)
OneOwner == /\ LockTypeOK
            /\ \A s, t \in LockThreads : lockAt[s] = "in" /\ lockAt[t] = "in" => s = t
            /\ locked <=> \E t \in LockThreads : lockAt[t] = "in"
=============================================================================
