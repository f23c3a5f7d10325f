---------------------------- MODULE TokenBucket ----------------------------
(* ServerEngine/Utility/TokenBucket.h: the rate limiter of a session.  The    *)
(* server fills it when the session is connected (ClientSession.cpp:15) and   *)
(* asks it for each packet that is received (ClientSession.cpp:30), also for  *)
(* those that lay behind a refused one.  Packets of a session are handled one *)
(* after the other, so a call is one step.  Times are in milliseconds; the    *)
(* clock moves by pauses.                                                     *)
EXTENDS Integers, Sequences

CONSTANTS BucketCapacity, RefillRate,   \* _capacity, _refillRatePerSec
          Pauses, MaxTime               \* bounds: steps of the clock, its end

ASSUME BucketAssumption == /\ BucketCapacity \in Nat /\ RefillRate \in Nat
                           /\ Pauses \subseteq Nat \ {0} /\ MaxTime \in Nat

VARIABLES
  clock,            \* GetTickCount64, from the construction of the bucket
  tokens,           \* _tokens
  lastRefillTick,   \* _lastRefillTick
  open,             \* the session has been connected
  grants,           \* history: when Consume returned true, each time
  lastCall          \* history: when Reset or Consume was called last, how long
                    \*   after the call before, and what it returned

bucketVars == <<clock, tokens, lastRefillTick, open, grants, lastCall>>

BucketTypeOK ==
  /\ clock \in 0..MaxTime /\ lastRefillTick \in 0..clock
  /\ tokens \in 0..BucketCapacity
  /\ open \in BOOLEAN
  /\ grants \in Seq(0..clock)
  /\ lastCall \in [at : 0..clock, gap : 0..clock, granted : BOOLEAN]

BucketInit ==
  /\ clock = 0 /\ lastRefillTick = 0
  /\ tokens = BucketCapacity
  /\ open = FALSE
  /\ grants = <<>>
  /\ lastCall = [at |-> 0, gap |-> 0, granted |-> TRUE]

(* The session waits in AcceptEx until a client comes, then OnConnected.      *)
Reset ==
  /\ ~ open /\ open' = TRUE
  /\ tokens' = BucketCapacity
  /\ lastRefillTick' = clock
  /\ lastCall' = [at |-> clock, gap |-> 0, granted |-> TRUE]
  /\ UNCHANGED <<clock, grants>>

(* Refill: nothing before 50 ms have passed, then whole tokens only, up to    *)
(* the capacity.                                                              *)
Elapsed == clock - lastRefillTick
DueForRefill == Elapsed >= 50
AddTokens == (Elapsed * RefillRate) \div 1000
Refilled == IF ~ DueForRefill THEN tokens
            ELSE IF tokens + AddTokens < BucketCapacity THEN tokens + AddTokens
            ELSE BucketCapacity

(* What Consume leaves and returns when Refill has set the tick.              *)
ConsumeAt(stored) ==
  /\ open
  /\ lastRefillTick' = stored
  /\ tokens' = IF Refilled >= 1 THEN Refilled - 1 ELSE Refilled
  /\ grants' = IF Refilled >= 1 THEN Append(grants, clock) ELSE grants
  /\ lastCall' = [at |-> clock, gap |-> clock - lastCall.at, granted |-> Refilled >= 1]
  /\ UNCHANGED <<clock, open>>

(* Mutant: the time of a refill is not stored, its interval counts again.     *)
ConsumeKeepsTick == ConsumeAt(lastRefillTick)

Consume == ConsumeAt(IF DueForRefill THEN clock ELSE lastRefillTick)

Pause(ms) ==
  /\ clock + ms <= MaxTime /\ clock' = clock + ms
  /\ UNCHANGED <<tokens, lastRefillTick, open, grants, lastCall>>

BucketNext == Reset \/ Consume \/ \E ms \in Pauses : Pause(ms)

-----------------------------------------------------------------------------
(* However the packets are spread, and at whatever moment one begins to       *)
(* count, the limiter lets through a full bucket and what the rate gives for  *)
(* the time since then and one refill interval, at most.                      *)
WindowBounded ==
  \A i \in 1..Len(grants) :
    (Len(grants) - i + 1) * 1000 <= BucketCapacity * 1000 + RefillRate * (clock - grants[i] + 50)

(* A client that leaves 50 ms between its packets is never refused, although  *)
(* parts of tokens are dropped, when 50 ms are worth a token (as at the       *)
(* server's 20 per second).                                                   *)
SlowNeverRefused ==
  BucketCapacity >= 1 /\ RefillRate * 50 >= 1000 => (lastCall.granted \/ lastCall.gap < 50)

(* The limiter bounds what a client can send in any window, and does not cut  *)
(* a client that keeps to the rate; the bucket never holds more than it can.  *)
RateBounded == BucketTypeOK /\ WindowBounded /\ SlowNeverRefused
=============================================================================
