------------------------- MODULE TokenBucketLimiter -------------------------
(***************************************************************************)
(* src/src/resiliency/rate_limiter.rs: the token bucket the ingestion      *)
(* tasks share.  The two mutexes are always taken together and in the same *)
(* order, and the clock is read under them, so a refill with the grant or  *)
(* refusal that follows it is one step; the sleep of acquire is not.       *)
(*                                                                         *)
(* Time is counted in ticks of the clock and Rate is what one tick refills *)
(* (Instant is monotonic); f64 tokens become natural numbers, so the       *)
(* rounding of floating point is left out.                                 *)
(***************************************************************************)
EXTENDS Integers

CONSTANTS
  Callers,    \* the tasks that share the limiter
  Demand,     \* the counts a caller may ask for
  Capacity,   \* capacity
  Rate,       \* refill_rate_per_sec, per tick
  MaxIdle,    \* bound: ticks that pass without anyone calling
  MaxCalls    \* bound: calls each caller makes

ASSUME BucketAssumption ==
  /\ Capacity \in Nat /\ Rate \in Nat \ {0}
  /\ Demand \subseteq Nat
  /\ MaxIdle \in Nat /\ MaxCalls \in Nat

VARIABLES
  clock,        \* Instant::now()
  tokens,
  last_refill,
  want,         \* count each caller is acquiring, 0 between calls
  wake,         \* when the sleep of each waiting caller ends
  calls,        \* calls each caller has made
  undisturbed,  \* history: since its sleep began, no one was granted tokens
  mark,         \* an instant picked at random by an observer
  granted       \* tokens granted since that instant

bucket  == <<tokens, last_refill>>
callers == <<want, wake, calls, undisturbed>>
vars    == <<clock, bucket, callers, mark, granted>>

Least(a, b) == IF a < b THEN a ELSE b
CeilDiv(a, b) == (a + b - 1) \div b

Init ==
  /\ clock = 0
  /\ tokens = Capacity
  /\ last_refill = 0
  /\ want = [c \in Callers |-> 0]
  /\ wake = [c \in Callers |-> 0]
  /\ calls = [c \in Callers |-> 0]
  /\ undisturbed = [c \in Callers |-> FALSE]
  /\ mark = 0
  /\ granted = 0

\* Mutant: the refill is not capped.
RefilledUncapped == tokens + Rate * (clock - last_refill)

\* The bucket's content at the current instant.
Refilled == Least(Capacity, tokens + Rate * (clock - last_refill))

\* Mutant: the instant of the refill is not recorded.
RefillKeepsInstant(left) == tokens' = left /\ UNCHANGED last_refill

\* The refill at the head of both operations, `left` remaining after it.
Refill(left) == tokens' = left /\ last_refill' = clock

\* try_acquire(n): take n tokens at once, or return false.
TryAcquire(c, n) ==
  /\ want[c] = 0 /\ calls[c] < MaxCalls
  /\ calls' = [calls EXCEPT ![c] = @ + 1]
  /\ \/ /\ Refilled >= n
        /\ Refill(Refilled - n)
        /\ granted' = granted + n
        /\ undisturbed' = [d \in Callers |-> FALSE]
     \/ /\ Refilled < n
        /\ Refill(Refilled)
        /\ UNCHANGED <<granted, undisturbed>>
  /\ UNCHANGED <<clock, want, wake, mark>>

\* acquire(n) is called; its loop starts at once.
CallAcquire(c, n) ==
  /\ want[c] = 0 /\ calls[c] < MaxCalls
  /\ n > 0
  /\ calls' = [calls EXCEPT ![c] = @ + 1]
  /\ want' = [want EXCEPT ![c] = n]
  /\ wake' = [wake EXCEPT ![c] = clock]
  /\ undisturbed' = [undisturbed EXCEPT ![c] = FALSE]
  /\ UNCHANGED <<clock, bucket, mark, granted>>

\* Mutant: granted only when more than enough is there.
GrantStrict(c) ==
  /\ want[c] > 0 /\ wake[c] <= clock
  /\ Refilled > want[c]
  /\ Refill(Refilled - want[c])
  /\ granted' = granted + want[c]
  /\ want' = [want EXCEPT ![c] = 0]
  /\ undisturbed' = [d \in Callers |-> FALSE]
  /\ UNCHANGED <<clock, wake, calls, mark>>

\* Mutant: the grant is not taken from the bucket.
GrantFree(c) ==
  /\ want[c] > 0 /\ wake[c] <= clock
  /\ Refilled >= want[c]
  /\ Refill(Refilled)
  /\ granted' = granted + want[c]
  /\ want' = [want EXCEPT ![c] = 0]
  /\ undisturbed' = [d \in Callers |-> FALSE]
  /\ UNCHANGED <<clock, wake, calls, mark>>

\* A turn of acquire's loop that finds enough tokens: take them and return.
Grant(c) ==
  /\ want[c] > 0 /\ wake[c] <= clock
  /\ Refilled >= want[c]
  /\ Refill(Refilled - want[c])
  /\ granted' = granted + want[c]
  /\ want' = [want EXCEPT ![c] = 0]
  /\ undisturbed' = [d \in Callers |-> FALSE]
  /\ UNCHANGED <<clock, wake, calls, mark>>

\* Mutant: sleeps for the whole count, not for what is missing.
WaitFullCount(c) ==
  /\ want[c] > 0 /\ wake[c] <= clock
  /\ Refilled < want[c]
  /\ Refill(Refilled)
  /\ wake' = [wake EXCEPT ![c] = clock + CeilDiv(want[c], Rate)]
  /\ undisturbed' = [undisturbed EXCEPT ![c] = TRUE]
  /\ UNCHANGED <<clock, want, calls, mark, granted>>

\* Mutant: sleeps for one tick, whatever is missing.
WaitOneTick(c) ==
  /\ want[c] > 0 /\ wake[c] <= clock
  /\ Refilled < want[c]
  /\ Refill(Refilled)
  /\ wake' = [wake EXCEPT ![c] = clock + 1]
  /\ undisturbed' = [undisturbed EXCEPT ![c] = TRUE]
  /\ UNCHANGED <<clock, want, calls, mark, granted>>

\* A turn that does not: sleep until the missing tokens should be there, and
\* at least one tick, then try again.
Wait(c) ==
  /\ want[c] > 0 /\ wake[c] <= clock
  /\ Refilled < want[c]
  /\ Refill(Refilled)
  /\ wake' = [wake EXCEPT ![c] = clock + CeilDiv(want[c] - Refilled, Rate)]
  /\ undisturbed' = [undisturbed EXCEPT ![c] = TRUE]
  /\ UNCHANGED <<clock, want, calls, mark, granted>>

\* Time passes.
Tick ==
  /\ clock - last_refill < MaxIdle
  /\ clock' = clock + 1
  /\ UNCHANGED <<bucket, callers, mark, granted>>

\* The observer starts a new window.
Observe ==
  /\ mark' = clock
  /\ granted' = 0
  /\ UNCHANGED <<clock, bucket, callers>>

Turn(c) == Grant(c) \/ Wait(c)
Call(c) == \E n \in Demand : TryAcquire(c, n) \/ CallAcquire(c, n)

Next == Tick \/ Observe \/ \E c \in Callers : Call(c) \/ Turn(c)

Spec == Init /\ [][Next]_vars

\* Time goes on and every awake task is polled.
FairSpec == Spec /\ WF_vars(Tick) /\ \A c \in Callers : WF_vars(Turn(c))

-----------------------------------------------------------------------------
\* Types; the bucket never holds more than its capacity.
TypeOK ==
  /\ clock \in Nat
  /\ tokens \in 0..Capacity
  /\ last_refill \in 0..clock
  /\ want \in [Callers -> Nat]
  /\ wake \in [Callers -> Nat]
  /\ calls \in [Callers -> Nat]
  /\ undisturbed \in [Callers -> BOOLEAN]
  /\ mark \in 0..clock
  /\ granted \in Nat

\* The rate limit, over every window of time: since any instant, all callers
\* together were granted no more than one full bucket plus what was refilled.
RateBound == granted <= Capacity + Rate * (clock - mark)

\* The strengthening: what could still be granted at this instant counts too.
Budget == granted + Refilled <= Capacity + Rate * (clock - mark)

\* acquire never sleeps past the instant its tokens could be there, whatever the
\* others take and however often they refill meanwhile.
WakesInTime ==
  \A c \in Callers :
    want[c] > 0 /\ want[c] <= Capacity =>
      Rate * (wake[c] - last_refill) < want[c] - tokens + Rate
      \/ wake[c] <= clock

\* Nor does it wake too early: if no one is granted tokens from the moment it
\* goes to sleep, its count is there at its next turn, which is the last one,
\* also when refused calls of the others refill the bucket meanwhile.
SleepsEnough ==
  \A c \in Callers :
    LET turn == IF wake[c] > clock THEN wake[c] ELSE clock
    IN  undisturbed[c] /\ want[c] <= Capacity =>
          tokens + Rate * (turn - last_refill) >= want[c]

\* Every acquire that asks for no more than the capacity returns, although
\* the other callers take tokens while it sleeps: each of them makes finitely
\* many calls, so in the end the tokens it waits for stay in the bucket.
AcquireReturns ==
  \A c \in Callers : want[c] > 0 /\ want[c] <= Capacity ~> want[c] = 0
=============================================================================
