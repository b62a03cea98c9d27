------------------------- MODULE TokenBucketProofs -------------------------
(***************************************************************************)
(* The rate limit of TokenBucketLimiter for every number of callers, every *)
(* capacity, rate and demand, and every window of time.  RateBound is not  *)
(* inductive: what is still in the bucket may be granted at this instant.  *)
(* Budget counts it too, and is.                                           *)
(***************************************************************************)
EXTENDS TokenBucketLimiter, TLAPS

\* What the clock has put into the bucket since the last refill.
Inflow == Rate * (clock - last_refill)

\* What was refilled since the observer's instant.
Allowance == Rate * (clock - mark)

\* Products of the rate with a span of time are natural numbers.
LEMMA Spans ==
  ASSUME NEW a \in Nat, NEW b \in 0..a
  PROVE  /\ Rate * (a - b) \in Nat
         /\ Rate * (a + 1 - b) = Rate * (a - b) + Rate
         /\ Rate * (a - a) = 0
<1>1. a - b \in Nat /\ Rate \in Nat
  BY BucketAssumption
<1>2. PICK d \in Nat : d = a - b
  BY <1>1
<1>3. Rate * d \in Nat /\ Rate * (d + 1) = Rate * d + Rate /\ Rate * 0 = 0
  BY <1>1
<1>4. a + 1 - b = d + 1 /\ a - a = 0
  BY <1>2
<1> QED
  BY <1>2, <1>3, <1>4

\* A refill leaves the content between nothing and the capacity.
LEMMA RefilledRange ==
  ASSUME TypeOK
  PROVE  /\ Refilled \in 0..Capacity
         /\ Refilled <= tokens + Inflow
         /\ Inflow \in Nat /\ Allowance \in Nat
<1>1. Inflow \in Nat /\ Allowance \in Nat
  BY Spans DEF TypeOK, Inflow, Allowance
<1>2. Refilled = Least(Capacity, tokens + Inflow)
  BY DEF Refilled, Inflow
<1>3. tokens \in 0..Capacity /\ Capacity \in Nat
  BY BucketAssumption DEF TypeOK
<1> QED
  BY <1>1, <1>2, <1>3 DEF Least

\* CeilDiv is what the sleep is computed with.
LEMMA CeilDivNat ==
  ASSUME NEW a \in Nat, NEW b \in Nat \ {0}
  PROVE  CeilDiv(a, b) \in Nat
<1>1. a + b - 1 \in Nat
  OBVIOUS
<1> QED
  BY <1>1 DEF CeilDiv

\* The steps that refill the bucket and grant n of it: TryAcquire and Grant
\* with n granted, or with nothing granted.
Serves(n) == /\ n \in 0..Refilled
             /\ tokens' = Refilled - n /\ last_refill' = clock
             /\ granted' = granted + n
             /\ clock' = clock /\ mark' = mark

\* Every step is a tick, a new window, a call, or serves the bucket.
LEMMA StepForms ==
  ASSUME TypeOK, [Next]_vars
  PROVE  \/ Tick \/ Observe
         \/ UNCHANGED <<clock, bucket, mark, granted>>
         \/ \E n \in Nat : Serves(n)
<1> USE RefilledRange
<1>1. ASSUME NEW c \in Callers, NEW n \in Demand, TryAcquire(c, n)
      PROVE  \E m \in Nat : Serves(m)
  <2>1. n \in Nat /\ granted \in Nat
    BY BucketAssumption DEF TypeOK
  <2>2. CASE Refilled >= n
    <3>1. Serves(n)
      BY <1>1, <2>1, <2>2 DEF TryAcquire, Refill, Serves
    <3> QED
      BY <2>1, <3>1
  <2>3. CASE Refilled < n
    <3>1. Serves(0)
      BY <1>1, <2>1, <2>3 DEF TryAcquire, Refill, Serves
    <3> QED
      BY <3>1
  <2> QED
    BY <2>1, <2>2, <2>3
<1>2. ASSUME NEW c \in Callers, Grant(c) PROVE \E m \in Nat : Serves(m)
  <2>1. want[c] \in Nat
    BY DEF TypeOK
  <2>2. Serves(want[c])
    BY <1>2, <2>1 DEF Grant, Refill, Serves
  <2> QED
    BY <2>1, <2>2
<1>3. ASSUME NEW c \in Callers, Wait(c) PROVE \E m \in Nat : Serves(m)
  <2>1. Serves(0)
    BY <1>3 DEF Wait, Refill, Serves, TypeOK
  <2> QED
    BY <2>1
<1>4. ASSUME NEW c \in Callers, NEW n \in Demand, CallAcquire(c, n)
      PROVE  UNCHANGED <<clock, bucket, mark, granted>>
  BY <1>4 DEF CallAcquire
<1>5. CASE UNCHANGED vars
  BY <1>5 DEF vars
<1> QED
  BY <1>1, <1>2, <1>3, <1>4, <1>5 DEF Next, Call, Turn

\* The callers' own variables keep their types.
LEMMA CallerTypes ==
  ASSUME TypeOK, [Next]_vars
  PROVE  /\ want' \in [Callers -> Nat] /\ wake' \in [Callers -> Nat]
         /\ calls' \in [Callers -> Nat] /\ undisturbed' \in [Callers -> BOOLEAN]
<1>0. undisturbed' \in [Callers -> BOOLEAN]
  <2>1. undisturbed \in [Callers -> BOOLEAN]
    BY DEF TypeOK
  <2>2. \/ undisturbed' = undisturbed \/ undisturbed' = [d \in Callers |-> FALSE]
        \/ \E c \in Callers, b \in BOOLEAN : undisturbed' = [undisturbed EXCEPT ![c] = b]
    BY DEF Next, Call, Turn, Tick, Observe, TryAcquire, CallAcquire, Grant, Wait, callers, vars
  <2> QED
    BY <2>1, <2>2
<1>1. /\ want \in [Callers -> Nat] /\ wake \in [Callers -> Nat]
      /\ calls \in [Callers -> Nat] /\ clock \in Nat
  BY DEF TypeOK
<1>2. CASE Tick \/ Observe \/ UNCHANGED vars
  BY <1>0, <1>1, <1>2 DEF Tick, Observe, vars, callers
<1>3. ASSUME NEW c \in Callers, NEW n \in Demand, TryAcquire(c, n)
      PROVE  want' = want /\ wake' = wake /\ calls' \in [Callers -> Nat]
  BY <1>1, <1>3 DEF TryAcquire
<1>4. ASSUME NEW c \in Callers, NEW n \in Demand, CallAcquire(c, n)
      PROVE  /\ want' \in [Callers -> Nat] /\ wake' \in [Callers -> Nat]
             /\ calls' \in [Callers -> Nat]
  <2>1. n \in Nat
    BY BucketAssumption
  <2> QED
    BY <1>1, <1>4, <2>1 DEF CallAcquire
<1>5. ASSUME NEW c \in Callers, Grant(c)
      PROVE  want' \in [Callers -> Nat] /\ wake' = wake /\ calls' = calls
  BY <1>1, <1>5 DEF Grant
<1>6. ASSUME NEW c \in Callers, Wait(c)
      PROVE  want' = want /\ wake' \in [Callers -> Nat] /\ calls' = calls
  <2>1. want[c] - Refilled \in Nat
    BY <1>1, <1>6, RefilledRange DEF Wait
  <2>2. clock + CeilDiv(want[c] - Refilled, Rate) \in Nat
    BY <1>1, <2>1, CeilDivNat, BucketAssumption
  <2> QED
    BY <1>1, <1>6, <2>2 DEF Wait
<1> QED
  BY <1>0, <1>1, <1>2, <1>3, <1>4, <1>5, <1>6 DEF Next, Call, Turn

\* The bucket's variables keep theirs.
LEMMA StepTypes ==
  ASSUME TypeOK, [Next]_vars
  PROVE  TypeOK'
<1>1. /\ clock \in Nat /\ tokens \in 0..Capacity /\ last_refill \in 0..clock
      /\ mark \in 0..clock /\ granted \in Nat /\ Capacity \in Nat
  BY BucketAssumption DEF TypeOK
<1>2. CASE Tick
  BY <1>1, <1>2, CallerTypes DEF Tick, bucket, TypeOK
<1>3. CASE Observe
  BY <1>1, <1>3, CallerTypes DEF Observe, bucket, TypeOK
<1>4. CASE UNCHANGED <<clock, bucket, mark, granted>>
  BY <1>1, <1>4, CallerTypes DEF bucket, TypeOK
<1>5. ASSUME NEW n \in Nat, Serves(n) PROVE TypeOK'
  BY <1>1, <1>5, RefilledRange, CallerTypes DEF Serves, TypeOK
<1> QED
  BY <1>2, <1>3, <1>4, <1>5, StepForms

\* Granting moves tokens from the bucket to the account, time adds the same to
\* both sides, and a new window starts with at most one full bucket.
LEMMA StepBudget ==
  ASSUME TypeOK, TypeOK', Budget, [Next]_vars
  PROVE  Budget'
<1>1. /\ clock \in Nat /\ tokens \in 0..Capacity /\ last_refill \in 0..clock
      /\ mark \in 0..clock /\ granted \in Nat /\ Capacity \in Nat /\ Rate \in Nat
  BY BucketAssumption DEF TypeOK
<1>2. Refilled \in 0..Capacity /\ Inflow \in Nat /\ Allowance \in Nat
  BY RefilledRange
<1>3. granted + Refilled <= Capacity + Allowance
  BY DEF Budget, Allowance
<1>4. CASE Tick
  <2>1. /\ clock' = clock + 1 /\ tokens' = tokens /\ last_refill' = last_refill
        /\ mark' = mark /\ granted' = granted
    BY <1>4 DEF Tick, bucket
  <2>2. Inflow' = Inflow + Rate /\ Allowance' = Allowance + Rate
    BY <1>1, <2>1, Spans DEF Inflow, Allowance
  <2>3. Refilled = Least(Capacity, tokens + Inflow)
        /\ Refilled' = Least(Capacity, tokens + (Inflow + Rate))
    BY <2>1, <2>2 DEF Refilled, Inflow
  <2>4. Refilled' <= Refilled + Rate
    BY <1>1, <1>2, <2>3 DEF Least
  <2>5. Refilled' \in Int
    BY <1>1, <1>2, <2>3 DEF Least
  <2>6. granted' + Refilled' <= Capacity + Allowance'
    <3>1. \A r \in Int : r <= Refilled + Rate
            => granted + r <= Capacity + (Allowance + Rate)
      BY <1>1, <1>2, <1>3
    <3>2. granted + Refilled' <= Capacity + (Allowance + Rate)
      BY <2>4, <2>5, <3>1
    <3> QED
      BY <2>1, <2>2, <3>2
  <2> QED
    BY <2>6 DEF Budget, Allowance
<1>5. CASE Observe
  <2>1. /\ clock' = clock /\ tokens' = tokens /\ last_refill' = last_refill
        /\ mark' = clock /\ granted' = 0
    BY <1>5 DEF Observe, bucket
  <2>2. Refilled' = Refilled /\ Allowance' = 0
    BY <1>1, <2>1, Spans DEF Refilled, Allowance
  <2> QED
    BY <1>1, <1>2, <2>1, <2>2 DEF Budget, Allowance
<1>6. CASE UNCHANGED <<clock, bucket, mark, granted>>
  BY <1>6 DEF bucket, Budget, Refilled
<1>7. ASSUME NEW n \in Nat, Serves(n) PROVE Budget'
  <2>1. /\ n \in 0..Refilled /\ tokens' = Refilled - n /\ last_refill' = clock
        /\ granted' = granted + n /\ clock' = clock /\ mark' = mark
    BY <1>7 DEF Serves
  <2>2. Rate * (clock' - last_refill') = 0
    BY <1>1, <2>1, Spans
  <2>3. Refilled' = Refilled - n
    BY <1>1, <1>2, <2>1, <2>2 DEF Refilled, Least
  <2>4. Allowance' = Allowance
    BY <2>1 DEF Allowance
  <2>5. granted' + Refilled' <= Capacity + Allowance'
    BY <1>1, <1>2, <1>3, <2>1, <2>3, <2>4
  <2> QED
    BY <2>5 DEF Budget, Allowance
<1> QED
  BY <1>4, <1>5, <1>6, <1>7, StepForms

\* The bucket starts full, and nothing was granted.
LEMMA InitBudget ==
  ASSUME Init
  PROVE  TypeOK /\ Budget
<1>1. Capacity \in Nat /\ Rate \in Nat
  BY BucketAssumption
<1>2. TypeOK
  BY <1>1 DEF Init, TypeOK
<1>3. Refilled \in 0..Capacity
  BY <1>2, RefilledRange
<1>4. Allowance = 0
  <2>1. clock = 0 /\ mark = 0
    BY DEF Init
  <2> QED
    BY <1>1, <2>1 DEF Allowance
<1> QED
  BY <1>1, <1>2, <1>3, <1>4 DEF Init, Budget, Allowance

\* The bucket never holds more than its capacity nor less than nothing, and
\* last_refill is never in the future.
THEOREM BucketTyping == Spec => []TypeOK
<1>1. Init => TypeOK
  BY InitBudget
<1>2. TypeOK /\ [Next]_vars => TypeOK'
  BY StepTypes
<1> QED
  BY <1>1, <1>2, PTL DEF Spec

\* Since any instant, the callers of acquire and try_acquire together were
\* granted no more than one full bucket plus what was refilled since.
THEOREM RateLimit == Spec => []RateBound
<1>1. Init => Budget
  BY InitBudget
<1>2. TypeOK /\ TypeOK' /\ Budget /\ [Next]_vars => Budget'
  BY StepBudget
<1>3. TypeOK /\ Budget => RateBound
  <2> SUFFICES ASSUME TypeOK, Budget PROVE RateBound
    OBVIOUS
  <2>1. Refilled \in 0..Capacity /\ Allowance \in Nat /\ granted \in Nat
        /\ Capacity \in Nat
    BY RefilledRange, BucketAssumption DEF TypeOK
  <2>2. granted + Refilled <= Capacity + Allowance
    BY DEF Budget, Allowance
  <2>3. granted <= Capacity + Allowance
    BY <2>1, <2>2
  <2> QED
    BY <2>3 DEF RateBound, Allowance
<1> QED
  BY <1>1, <1>2, <1>3, BucketTyping, PTL DEF Spec

\* Budget, RateBound's strengthening, itself: what was granted since an instant
\* and what the bucket could still grant now fit in the allowance together.
THEOREM BudgetKept == Spec => []Budget
<1>1. Init => Budget
  BY InitBudget
<1>2. TypeOK /\ TypeOK' /\ Budget /\ [Next]_vars => Budget'
  BY StepBudget
<1> QED
  BY <1>1, <1>2, BucketTyping, PTL DEF Spec

-----------------------------------------------------------------------------
(***************************************************************************)
(* The sleep of acquire.                                                   *)
(***************************************************************************)
\* CeilDiv rounds up, by less than one tick's refill.
LEMMA CeilDivTight ==
  ASSUME NEW a \in Nat, NEW b \in Nat \ {0}
  PROVE  b * CeilDiv(a, b) < a + b
<1>1. PICK x \in Nat : x = a + b - 1
  OBVIOUS
<1>2. b * (x \div b) <= x
  OBVIOUS
<1>3. x \div b \in Nat
  OBVIOUS
<1>4. PICK y \in Int : y = b * (x \div b)
  BY <1>3
<1> QED
  BY <1>1, <1>2, <1>4 DEF CeilDiv

\* c does not sleep past the instant its tokens could be there.
InTime(c) ==
  want[c] > 0 /\ want[c] <= Capacity =>
    \/ Rate * (wake[c] - last_refill) < want[c] - tokens + Rate
    \/ wake[c] <= clock

\* A refill by someone else brings the bucket no closer to c's count than its
\* clock brought c to the end of its sleep.
LEMMA ServeInTime ==
  ASSUME TypeOK, NEW c \in Callers, InTime(c), NEW n \in Nat, Serves(n),
         want'[c] = want[c], wake'[c] = wake[c]
  PROVE  InTime(c)'
<1>1. /\ clock \in Nat /\ tokens \in 0..Capacity /\ last_refill \in 0..clock
      /\ want[c] \in Nat /\ wake[c] \in Nat /\ Rate \in Nat /\ Capacity \in Nat
  BY BucketAssumption DEF TypeOK
<1>2. /\ n \in 0..Refilled /\ tokens' = Refilled - n /\ last_refill' = clock
      /\ clock' = clock
  BY DEF Serves
<1>3. Refilled \in 0..Capacity /\ Refilled <= tokens + Inflow /\ Inflow \in Nat
  BY RefilledRange
<1>4. CASE ~(want[c] > 0 /\ want[c] <= Capacity) \/ wake[c] <= clock
  BY <1>2, <1>4 DEF InTime
<1>5. CASE Rate * (wake[c] - last_refill) < want[c] - tokens + Rate
  <2>1. Rate * (wake[c] - clock) = Rate * (wake[c] - last_refill) - Inflow
    <3>1. \A r, x, y, z \in Int : r * (x - z) = r * (x - y) - r * (z - y)
      OBVIOUS
    <3> QED
      BY <1>1, <3>1 DEF Inflow
  <2>2. PICK x \in Int : x = Rate * (wake[c] - last_refill)
    BY <1>1
  <2>3. x - Inflow < want[c] - (Refilled - n) + Rate
    BY <1>1, <1>2, <1>3, <1>5, <2>2
  <2> QED
    BY <1>2, <2>1, <2>2, <2>3 DEF InTime
<1> QED
  BY <1>4, <1>5 DEF InTime

\* The turn of c that starts a sleep asks for just as long as is needed.
LEMMA WaitInTime ==
  ASSUME TypeOK, NEW c \in Callers, Wait(c)
  PROVE  InTime(c)'
<1>1. /\ clock \in Nat /\ want[c] \in Nat /\ Rate \in Nat \ {0}
      /\ wake \in [Callers -> Nat]
  BY BucketAssumption DEF TypeOK
<1>2. Refilled \in Nat /\ Refilled < want[c]
  BY RefilledRange, BucketAssumption DEF Wait
<1>3. PICK m \in Nat : m = want[c] - Refilled
  BY <1>1, <1>2
<1>4. PICK d \in Nat : d = CeilDiv(m, Rate)
  BY <1>1, CeilDivNat
<1>5. /\ tokens' = Refilled /\ last_refill' = clock /\ want' = want
      /\ wake'[c] = clock + d
  BY <1>1, <1>3, <1>4 DEF Wait, Refill
<1>6. Rate * d < m + Rate
  BY <1>1, <1>4, CeilDivTight
<1>7. wake'[c] - last_refill' = d /\ want'[c] - tokens' = m
  BY <1>1, <1>3, <1>5
<1>8. Rate * (wake'[c] - last_refill') < want'[c] - tokens' + Rate
  BY <1>6, <1>7
<1> QED
  BY <1>8 DEF InTime

\* Of the others' steps, each refills the bucket or leaves it alone.
LEMMA StepInTime ==
  ASSUME TypeOK, [Next]_vars, NEW c \in Callers, InTime(c)
  PROVE  InTime(c)'
<1>1. /\ clock \in Nat /\ want \in [Callers -> Nat] /\ wake \in [Callers -> Nat]
      /\ last_refill \in Nat /\ tokens \in Nat
  BY BucketAssumption DEF TypeOK
<1>2. CASE Tick
  <2>1. /\ clock' = clock + 1 /\ tokens' = tokens /\ last_refill' = last_refill
        /\ want' = want /\ wake' = wake
    BY <1>2 DEF Tick, bucket, callers
  <2>2. wake[c] <= clock => wake[c] <= clock + 1
    BY <1>1
  <2> QED
    BY <2>1, <2>2 DEF InTime
<1>3. CASE Observe \/ UNCHANGED vars
  BY <1>3 DEF Observe, bucket, callers, vars, InTime
<1>4. ASSUME NEW d \in Callers, NEW n \in Demand, TryAcquire(d, n)
      PROVE  InTime(c)'
  <2>1. want' = want /\ wake' = wake
    BY <1>4 DEF TryAcquire
  <2>2. (\E m \in Nat : Serves(m)) \/ UNCHANGED <<clock, bucket, mark, granted>>
    <3>1. clock' = clock /\ mark' = mark /\ calls' # calls
      <4>1. calls'[d] = calls[d] + 1 /\ calls[d] \in Nat
        BY <1>4 DEF TryAcquire, TypeOK
      <4> QED
        BY <1>4, <4>1 DEF TryAcquire
    <3> QED
      BY <3>1, StepForms DEF Tick, Observe, callers
  <2> QED
    BY <2>1, <2>2, ServeInTime DEF InTime, bucket
<1>5. ASSUME NEW d \in Callers, NEW n \in Demand, CallAcquire(d, n)
      PROVE  InTime(c)'
  <2>1. /\ UNCHANGED <<clock, bucket>>
        /\ c # d => want'[c] = want[c] /\ wake'[c] = wake[c]
        /\ c = d => wake'[c] = clock
    BY <1>1, <1>5 DEF CallAcquire
  <2> QED
    BY <1>1, <2>1 DEF InTime, bucket
<1>6. ASSUME NEW d \in Callers, Grant(d) PROVE InTime(c)'
  <2>1. CASE c = d
    <3>1. want'[c] = 0
      BY <1>1, <1>6, <2>1 DEF Grant
    <3> QED
      BY <3>1 DEF InTime
  <2>2. CASE c # d
    <3>1. want'[c] = want[c] /\ wake'[c] = wake[c]
      BY <1>1, <1>6, <2>2 DEF Grant
    <3>2. want[d] \in Nat
      BY <1>1
    <3>3. Serves(want[d])
      BY <1>6, <3>2, RefilledRange DEF Grant, Refill, Serves
    <3> QED
      BY <3>1, <3>2, <3>3, ServeInTime
  <2> QED
    BY <2>1, <2>2
<1>7. ASSUME NEW d \in Callers, Wait(d) PROVE InTime(c)'
  <2>1. CASE c = d
    BY <1>7, <2>1, WaitInTime
  <2>2. CASE c # d
    <3>1. want'[c] = want[c] /\ wake'[c] = wake[c]
      BY <1>1, <1>7, <2>2 DEF Wait
    <3>2. Serves(0)
      BY <1>7, RefilledRange DEF Wait, Refill, Serves, TypeOK
    <3> QED
      BY <3>1, <3>2, ServeInTime
  <2> QED
    BY <2>1, <2>2
<1> QED
  BY <1>2, <1>3, <1>4, <1>5, <1>6, <1>7 DEF Next, Call, Turn

\* acquire never sleeps past the instant its tokens could be there, whatever
\* other callers take and however often they refill the bucket meanwhile.
THEOREM SleepsNoLonger == Spec => []WakesInTime
<1>1. Init => WakesInTime
  BY DEF Init, WakesInTime
<1>2. TypeOK /\ WakesInTime /\ [Next]_vars => WakesInTime'
  <2> SUFFICES ASSUME TypeOK, WakesInTime, [Next]_vars PROVE WakesInTime'
    OBVIOUS
  <2>1. \A c \in Callers : InTime(c)
    BY DEF WakesInTime, InTime
  <2>2. \A c \in Callers : InTime(c)'
    BY <2>1, StepInTime
  <2> QED
    BY <2>2 DEF WakesInTime, InTime
<1> QED
  BY <1>1, <1>2, BucketTyping, PTL DEF Spec

-----------------------------------------------------------------------------
\* CeilDiv rounds up.
LEMMA CeilDivEnough ==
  ASSUME NEW a \in Nat, NEW b \in Nat \ {0}
  PROVE  b * CeilDiv(a, b) >= a
<1>1. PICK x \in Nat : x = a + b - 1
  OBVIOUS
<1>2. x \div b \in Nat /\ x < b * (x \div b) + b
  OBVIOUS
<1>3. PICK y \in Int : y = b * (x \div b)
  BY <1>2
<1> QED
  BY <1>1, <1>2, <1>3 DEF CeilDiv

\* The next turn of c: when it wakes, or now.
NextTurn(c) == IF wake[c] > clock THEN wake[c] ELSE clock

\* c finds its count at its next turn, if no one is granted tokens until then.
Enough(c) ==
  undisturbed[c] /\ want[c] <= Capacity =>
    tokens + Rate * (NextTurn(c) - last_refill) >= want[c]

\* Someone is granted tokens, and then nothing is claimed of anyone's sleep; or
\* nobody is, and the history of sleeps stays as it is.
LEMMA GrantsDisturb ==
  ASSUME TypeOK, NEW c \in Callers, NEW d \in Callers,
         Grant(d) \/ \E n \in Demand : TryAcquire(d, n)
  PROVE  \/ undisturbed'[c] = FALSE
         \/ /\ tokens' = Refilled /\ last_refill' = clock
            /\ UNCHANGED <<clock, want, wake, undisturbed>>
<1>1. CASE Grant(d)
  BY <1>1 DEF Grant
<1>2. ASSUME NEW n \in Demand, TryAcquire(d, n)
      PROVE  \/ undisturbed'[c] = FALSE
             \/ /\ tokens' = Refilled /\ last_refill' = clock
                /\ UNCHANGED <<clock, want, wake, undisturbed>>
  BY <1>2 DEF TryAcquire, Refill
<1> QED
  BY <1>1, <1>2

\* A refill that grants nothing keeps what c will find: it moves the inflow into
\* the bucket, and what it cuts off is above the capacity.
LEMMA RefillEnough ==
  ASSUME TypeOK, NEW c \in Callers, Enough(c), tokens' = Refilled, last_refill' = clock,
         clock' = clock, want'[c] = want[c], wake'[c] = wake[c], undisturbed'[c] = undisturbed[c]
  PROVE  Enough(c)'
<1> SUFFICES ASSUME undisturbed[c], want[c] <= Capacity
             PROVE  Refilled + Rate * (NextTurn(c) - clock) >= want[c]
  BY DEF Enough, NextTurn
<1>1. /\ clock \in Nat /\ tokens \in 0..Capacity /\ last_refill \in 0..clock
      /\ want[c] \in Nat /\ wake[c] \in Nat /\ Rate \in Nat /\ Capacity \in Nat
  BY BucketAssumption DEF TypeOK
<1>2. PICK t \in Nat : t = NextTurn(c) /\ t >= clock
  BY <1>1 DEF NextTurn
<1>3. PICK x \in Nat : x = Rate * (t - clock)
  <2>1. PICK k \in Nat : k = t - clock
    BY <1>1, <1>2
  <2> QED
    BY <1>1, <2>1
<1>4. PICK z \in Int : z = Rate * (t - last_refill)
  BY <1>1, <1>2
<1>5. z = x + Inflow
  <2>1. \A r, u, v, w \in Int : r * (u - w) = r * (u - v) + r * (v - w)
    OBVIOUS
  <2> QED
    BY <1>1, <1>2, <1>3, <1>4, <2>1 DEF Inflow
<1>6. tokens + z >= want[c]
  BY <1>2, <1>4 DEF Enough
<1>7. Refilled = Least(Capacity, tokens + Inflow) /\ Inflow \in Nat
  BY RefilledRange DEF Refilled, Inflow
<1>8. Refilled + x >= want[c]
  BY <1>1, <1>3, <1>4, <1>5, <1>6, <1>7 DEF Least
<1> QED
  BY <1>2, <1>3, <1>8

\* The turn of c that starts a sleep asks for as long as is needed.
LEMMA WaitEnough ==
  ASSUME TypeOK, NEW c \in Callers, Wait(c)
  PROVE  Enough(c)'
<1>1. /\ clock \in Nat /\ want[c] \in Nat /\ Rate \in Nat \ {0}
      /\ wake \in [Callers -> Nat]
  BY BucketAssumption DEF TypeOK
<1>2. Refilled \in Nat /\ Refilled < want[c]
  BY RefilledRange, BucketAssumption DEF Wait
<1>3. PICK m \in Nat : m = want[c] - Refilled
  BY <1>1, <1>2
<1>4. PICK d \in Nat : d = CeilDiv(m, Rate)
  BY <1>1, CeilDivNat
<1>5. /\ tokens' = Refilled /\ last_refill' = clock /\ want' = want
      /\ clock' = clock /\ wake'[c] = clock + d
  BY <1>1, <1>3, <1>4 DEF Wait, Refill
<1>6. Rate * d >= m
  BY <1>1, <1>4, CeilDivEnough
<1>7. NextTurn(c)' - last_refill' = d
  BY <1>1, <1>4, <1>5 DEF NextTurn
<1>8. PICK x \in Int : x = Rate * d
  BY <1>1
<1>9. tokens' + x >= want'[c]
  BY <1>1, <1>2, <1>3, <1>5, <1>6, <1>8
<1> QED
  BY <1>7, <1>8, <1>9 DEF Enough

\* Time only adds to what c will find.
LEMMA TickEnough ==
  ASSUME TypeOK, Tick, NEW c \in Callers, Enough(c)
  PROVE  Enough(c)'
<1>1. /\ clock \in Nat /\ tokens \in 0..Capacity /\ last_refill \in 0..clock
      /\ want[c] \in Nat /\ wake[c] \in Nat /\ Rate \in Nat /\ Capacity \in Nat
  BY BucketAssumption DEF TypeOK
<1>2. /\ clock' = clock + 1 /\ tokens' = tokens /\ last_refill' = last_refill
      /\ want' = want /\ wake' = wake /\ undisturbed' = undisturbed
  BY DEF Tick, bucket, callers
<1>3. PICK t \in Nat : t = NextTurn(c) /\ t >= last_refill
  BY <1>1 DEF NextTurn
<1>4. PICK u \in Nat : u = NextTurn(c)' /\ (u = t \/ u = t + 1)
  BY <1>1, <1>2, <1>3 DEF NextTurn
<1>5. PICK x \in Nat : x = Rate * (t - last_refill) /\ Rate * (t + 1 - last_refill) = x + Rate
  BY <1>1, <1>3, Spans
<1>6. undisturbed[c] /\ want[c] <= Capacity => tokens + x >= want[c]
  BY <1>3, <1>5 DEF Enough
<1>7. Rate * (u - last_refill) = x \/ Rate * (u - last_refill) = x + Rate
  BY <1>1, <1>4, <1>5
<1>8. PICK y \in Nat : y = Rate * (u - last_refill) /\ y >= x
  BY <1>1, <1>5, <1>7
<1>9. undisturbed[c] /\ want[c] <= Capacity => tokens + y >= want[c]
  BY <1>1, <1>6, <1>8
<1> QED
  BY <1>2, <1>4, <1>8, <1>9 DEF Enough

\* No step makes a sleep too short.
LEMMA StepEnough ==
  ASSUME TypeOK, [Next]_vars, NEW c \in Callers, Enough(c)
  PROVE  Enough(c)'
<1>1. /\ want \in [Callers -> Nat] /\ wake \in [Callers -> Nat]
      /\ undisturbed \in [Callers -> BOOLEAN]
  BY DEF TypeOK
<1>2. CASE Observe \/ UNCHANGED vars
  BY <1>2 DEF Observe, bucket, callers, vars, Enough, NextTurn
<1>3. ASSUME NEW d \in Callers, Grant(d) \/ \E n \in Demand : TryAcquire(d, n)
      PROVE  Enough(c)'
  <2>1. CASE undisturbed'[c] = FALSE
    BY <2>1 DEF Enough
  <2>2. CASE /\ tokens' = Refilled /\ last_refill' = clock
             /\ UNCHANGED <<clock, want, wake, undisturbed>>
    BY <2>2, RefillEnough
  <2> QED
    BY <1>3, <2>1, <2>2, GrantsDisturb
<1>4. ASSUME NEW d \in Callers, NEW n \in Demand, CallAcquire(d, n) PROVE Enough(c)'
  <2>1. CASE c = d
    <3>1. undisturbed'[c] = FALSE
      BY <1>1, <1>4, <2>1 DEF CallAcquire
    <3> QED
      BY <3>1 DEF Enough
  <2>2. CASE c # d
    <3>1. /\ want'[c] = want[c] /\ wake'[c] = wake[c] /\ undisturbed'[c] = undisturbed[c]
          /\ UNCHANGED <<clock, bucket>>
      BY <1>1, <1>4, <2>2 DEF CallAcquire
    <3> QED
      BY <3>1 DEF Enough, NextTurn, bucket
  <2> QED
    BY <2>1, <2>2
<1>5. ASSUME NEW d \in Callers, Wait(d) PROVE Enough(c)'
  <2>1. CASE c = d
    BY <1>5, <2>1, WaitEnough
  <2>2. CASE c # d
    <3>1. /\ want'[c] = want[c] /\ wake'[c] = wake[c] /\ undisturbed'[c] = undisturbed[c]
          /\ tokens' = Refilled /\ last_refill' = clock /\ clock' = clock
      BY <1>1, <1>5, <2>2 DEF Wait, Refill
    <3> QED
      BY <3>1, RefillEnough
  <2> QED
    BY <2>1, <2>2
<1> QED
  BY <1>2, <1>3, <1>4, <1>5, TickEnough DEF Next, Call, Turn

\* acquire's sleep is long enough: unless someone is granted tokens meanwhile,
\* the count is in the bucket at its next turn.
THEOREM SleepsLongEnough == Spec => []SleepsEnough
<1>1. Init => SleepsEnough
  BY DEF Init, SleepsEnough
<1>2. TypeOK /\ SleepsEnough /\ [Next]_vars => SleepsEnough'
  <2> SUFFICES ASSUME TypeOK, SleepsEnough, [Next]_vars PROVE SleepsEnough'
    OBVIOUS
  <2>1. \A c \in Callers : Enough(c)
    BY DEF SleepsEnough, Enough, NextTurn
  <2>2. \A c \in Callers : Enough(c)'
    BY <2>1, StepEnough
  <2> QED
    BY <2>2 DEF SleepsEnough, Enough, NextTurn
<1> QED
  BY <1>1, <1>2, BucketTyping, PTL DEF Spec
============================================================================
