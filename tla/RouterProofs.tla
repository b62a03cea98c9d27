---------------------------- MODULE RouterProofs ----------------------------
(***************************************************************************)
(* Tenant quotas for every number of callers, threads, tenants, partitions *)
(* and quotas.  QuotaBound is not inductive: what is left in a bucket may  *)
(* be granted at this instant, so Within counts it too, and a name without *)
(* a bucket must not have been granted anything yet.                       *)
(***************************************************************************)
EXTENDS TenantRouter, TLAPS

RouterTypes ==
  /\ clock \in Nat /\ sets \in Nat /\ num_partitions \in Nat
  /\ limiters \in [Names -> Buckets \cup {None}]
  /\ pc \in [Callers -> {"idle", "called", "hit", "miss", "made"}]
  /\ event \in [Callers -> Event \cup {None}]
  /\ quota \in [Names -> Quota \cup {None}]
  /\ account \in [Names -> [since : Nat, granted : Nat]]
  /\ routed \in [Names -> SUBSET Nat]

\* A caller in route_event has its event, and one past the lookup a bucket.
CallersServed ==
  \A c \in Callers :
    /\ pc[c] # "idle" => event[c] \in Event
    /\ pc[c] \in {"hit", "made"} => limiters[TenantOf(event[c])] # None

\* The account of bucket b since an instant, what is left in b included.
Within(b, a) ==
  /\ b.tokens <= b.capacity
  /\ a.since <= b.last_refill /\ b.last_refill <= clock
  /\ a.granted + Refilled(b) <= b.capacity + b.rate * (clock - a.since)

BucketsKept ==
  \A n \in Names :
    IF limiters[n] = None THEN quota[n] = None /\ account[n] = [since |-> 0, granted |-> 0]
    ELSE /\ Within(limiters[n], account[n])
         /\ quota[n] # None => /\ limiters[n].capacity = quota[n].capacity
                               /\ limiters[n].rate = quota[n].rate

PartitionsExist == \A n \in Names : \A p \in routed[n] : p < num_partitions \/ p = 0

RouterInv == RouterTypes /\ CallersServed /\ BucketsKept /\ PartitionsExist

-----------------------------------------------------------------------------
\* Products of a rate with a span of time are natural numbers.
LEMMA Spans ==
  ASSUME NEW r \in Nat, NEW a \in Nat, NEW b \in 0..a
  PROVE  /\ r * (a - b) \in Nat
         /\ r * (a + 1 - b) = r * (a - b) + r
         /\ r * (a - a) = 0
<1>1. PICK d \in Nat : d = a - b
  OBVIOUS
<1>2. r * d \in Nat /\ r * (d + 1) = r * d + r /\ r * 0 = 0
  OBVIOUS
<1>3. a + 1 - b = d + 1 /\ a - a = 0
  BY <1>1
<1> QED
  BY <1>1, <1>2, <1>3

\* A refill leaves a bucket between empty and full.
LEMMA RefilledRange ==
  ASSUME clock \in Nat, NEW b \in Buckets, b.tokens <= b.capacity, b.last_refill <= clock
  PROVE  Refilled(b) \in Nat /\ Refilled(b) <= b.capacity
<1>1. /\ b.tokens \in Nat /\ b.capacity \in Nat /\ b.rate \in Nat
      /\ b.last_refill \in 0..clock
  BY DEF Buckets
<1>2. b.rate * (clock - b.last_refill) \in Nat
  BY <1>1, Spans
<1> QED
  BY <1>1, <1>2 DEF Refilled

\* A new bucket is full, and fits any account that starts with nothing granted.
LEMMA NewBucket ==
  ASSUME clock \in Nat, NEW q \in Quota
  PROVE  /\ Bucket(q) \in Buckets /\ Bucket(q) # None
         /\ Bucket(q).capacity = q.capacity /\ Bucket(q).rate = q.rate
         /\ \A s \in 0..clock : Within(Bucket(q), [since |-> s, granted |-> 0])
<1>1. q.capacity \in Nat /\ q.rate \in Nat
  BY DEF Quota
<1>2. Bucket(q) \in Buckets
  BY <1>1 DEF Bucket, Buckets
<1>3. Bucket(q) # None
  BY <1>2, NoneAssumption
<1>4. /\ Bucket(q).capacity = q.capacity /\ Bucket(q).rate = q.rate
      /\ Bucket(q).tokens = q.capacity /\ Bucket(q).last_refill = clock
  BY DEF Bucket
<1>5. Refilled(Bucket(q)) \in Nat /\ Refilled(Bucket(q)) <= q.capacity
  BY <1>1, <1>2, <1>4, RefilledRange
<1>6. ASSUME NEW s \in 0..clock
      PROVE  Within(Bucket(q), [since |-> s, granted |-> 0])
  <2>1. q.rate * (clock - s) \in Nat
    BY <1>1, Spans
  <2> DEFINE a == [since |-> s, granted |-> 0]
  <2>2. a.since = s /\ a.granted = 0
    OBVIOUS
  <2> HIDE DEF a
  <2>3. Within(Bucket(q), a)
    BY <1>1, <1>4, <1>5, <2>1, <2>2 DEF Within
  <2> QED
    BY <2>3 DEF a
<1> QED
  BY <1>2, <1>3, <1>4, <1>6

\* try_acquire(1) moves a token from the bucket to the account, or nothing.
LEMMA ChargedWithin ==
  ASSUME clock \in Nat, NEW b \in Buckets, NEW a \in [since : Nat, granted : Nat], Within(b, a)
  PROVE  /\ Charged(b) \in Buckets
         /\ Charged(b).capacity = b.capacity /\ Charged(b).rate = b.rate
         /\ Refilled(b) \in Nat
         /\ Refilled(b) >= 1 => Within(Charged(b), [a EXCEPT !.granted = @ + 1])
         /\ Refilled(b) < 1 => Within(Charged(b), a)
<1>1. /\ b.tokens \in Nat /\ b.capacity \in Nat /\ b.rate \in Nat
      /\ b.last_refill \in Nat /\ a.since \in Nat /\ a.granted \in Nat
  BY DEF Buckets
<1>2. Refilled(b) \in Nat /\ Refilled(b) <= b.capacity
  BY RefilledRange DEF Within
<1> DEFINE left == IF Refilled(b) >= 1 THEN Refilled(b) - 1 ELSE Refilled(b)
<1>3. /\ Charged(b).capacity = b.capacity /\ Charged(b).rate = b.rate
      /\ Charged(b).tokens = left /\ Charged(b).last_refill = clock
  BY DEF Charged, Buckets
<1>4. left \in Nat /\ left <= b.capacity
  BY <1>1, <1>2
<1>5. Charged(b) \in Buckets
  BY <1>4 DEF Charged, Buckets
<1>6. Refilled(Charged(b)) = left
  <2>1. b.rate * (clock - clock) = 0
    BY <1>1, Spans
  <2> HIDE DEF left
  <2> QED
    BY <1>1, <1>3, <1>4, <2>1 DEF Refilled
<1>7. b.rate * (clock - a.since) \in Nat
  BY <1>1, Spans DEF Within
<1>8. a.since <= clock
  BY <1>1 DEF Within
<1>9. a.granted + Refilled(b) <= b.capacity + b.rate * (clock - a.since)
  BY DEF Within
<1>10. ASSUME Refilled(b) >= 1
       PROVE  Within(Charged(b), [a EXCEPT !.granted = @ + 1])
  <2> DEFINE n == [a EXCEPT !.granted = @ + 1]
  <2>1. n.since = a.since /\ n.granted = a.granted + 1
    OBVIOUS
  <2>2. left = Refilled(b) - 1
    BY <1>10
  <2> HIDE DEF n, left
  <2>3. n.granted + left <= b.capacity + b.rate * (clock - a.since)
    BY <1>1, <1>2, <1>7, <1>9, <2>1, <2>2
  <2>4. Within(Charged(b), n)
    BY <1>1, <1>3, <1>4, <1>6, <1>8, <2>1, <2>3 DEF Within
  <2> QED
    BY <2>4 DEF n
<1>11. ASSUME Refilled(b) < 1
       PROVE  Within(Charged(b), a)
  <2>1. left = Refilled(b)
    BY <1>2, <1>11
  <2> HIDE DEF left
  <2> QED
    BY <1>1, <1>3, <1>4, <1>6, <1>8, <1>9, <2>1 DEF Within
<1> QED
  BY <1>2, <1>3, <1>5, <1>10, <1>11

\* Time fills the bucket no faster than the allowance grows.
LEMMA TickWithin ==
  ASSUME clock \in Nat, clock' = clock + 1,
         NEW b \in Buckets, NEW a \in [since : Nat, granted : Nat], Within(b, a)
  PROVE  Within(b, a)'
<1>1. /\ b.tokens \in Nat /\ b.capacity \in Nat /\ b.rate \in Nat
      /\ b.last_refill \in 0..clock /\ a.since \in 0..clock /\ a.granted \in Nat
  BY DEF Buckets, Within
<1>2. /\ b.rate * (clock + 1 - b.last_refill) = b.rate * (clock - b.last_refill) + b.rate
      /\ b.rate * (clock + 1 - a.since) = b.rate * (clock - a.since) + b.rate
      /\ b.rate * (clock - b.last_refill) \in Nat /\ b.rate * (clock - a.since) \in Nat
  BY <1>1, Spans
<1>3. PICK x \in Nat, y \in Nat : x = b.rate * (clock - b.last_refill) /\ y = b.rate * (clock - a.since)
  BY <1>2
<1>4. Refilled(b) = IF b.tokens + x < b.capacity THEN b.tokens + x ELSE b.capacity
  BY <1>3 DEF Refilled
<1>5. Refilled(b)' = IF b.tokens + (x + b.rate) < b.capacity THEN b.tokens + (x + b.rate) ELSE b.capacity
  <2>0. clock' - b.last_refill = clock + 1 - b.last_refill
    BY <1>1
  <2>1. b.rate * (clock' - b.last_refill) = x + b.rate
    BY <1>2, <1>3, <2>0, Zenon
  <2> QED
    BY <2>1 DEF Refilled
<1>6. a.granted + Refilled(b) <= b.capacity + y
  BY <1>3 DEF Within
<1>7. a.granted + Refilled(b)' <= b.capacity + (y + b.rate)
  BY <1>1, <1>4, <1>5, <1>6
<1>8. b.tokens <= b.capacity /\ a.since <= b.last_refill /\ b.last_refill <= clock + 1
  BY <1>1 DEF Within
<1> QED
  BY <1>2, <1>3, <1>7, <1>8 DEF Within

\* Every event is charged under the name of a tenant or a database.
LEMMA TenantName == \A e \in Event : TenantOf(e) \in Names
  BY DEF Event, TenantOf, Names

\* No bucket, no caller and no account in the beginning.
LEMMA RouterInit == Init => RouterInv
<1> SUFFICES ASSUME Init PROVE RouterInv
  OBVIOUS
<1>1. RouterTypes
  BY RouterAssumption DEF Init, RouterTypes
<1>2. CallersServed /\ PartitionsExist
  BY DEF Init, CallersServed, PartitionsExist
<1>3. BucketsKept
  BY DEF Init, BucketsKept
<1> QED
  BY <1>1, <1>2, <1>3 DEF RouterInv

\* A partition is a remainder, or 0 when there are none to choose from.
LEMMA PartitionRange ==
  ASSUME RouterTypes, NEW n \in Names
  PROVE  Partition(n) \in Nat /\ (Partition(n) < num_partitions \/ Partition(n) = 0)
<1>1. Hash[n] \in Nat /\ num_partitions \in Nat
  BY RouterAssumption DEF RouterTypes
<1> QED
  BY <1>1 DEF Partition

\* The steps that leave buckets and accounts alone.
LEMMA IdleSteps ==
  ASSUME RouterInv, RouterTypes', UNCHANGED <<clock, num_partitions, limiters, admin, ledger>>
  PROVE  BucketsKept' /\ PartitionsExist'
<1>1. UNCHANGED <<clock, num_partitions, limiters, quota, account, routed>>
  BY DEF admin, ledger
<1>2. \A b, a : Within(b, a) <=> Within(b, a)'
  BY <1>1 DEF Within, Refilled
<1>3. BucketsKept'
  <2> SUFFICES ASSUME NEW n \in Names
               PROVE (IF limiters[n] = None THEN quota[n] = None /\ account[n] = [since |-> 0, granted |-> 0]
                      ELSE /\ Within(limiters[n], account[n])
                           /\ quota[n] # None => /\ limiters[n].capacity = quota[n].capacity
                                                 /\ limiters[n].rate = quota[n].rate)'
    BY DEF BucketsKept
  <2> QED
    BY <1>1 DEF RouterInv, BucketsKept, Within, Refilled
<1>4. PartitionsExist'
  BY <1>1 DEF RouterInv, PartitionsExist
<1> QED
  BY <1>3, <1>4

\* A caller enters route_event.
LEMMA CallStep ==
  ASSUME RouterInv, NEW c \in Callers, NEW e \in Event, Call(c, e)
  PROVE  RouterInv'
<1>1. RouterTypes'
  BY DEF RouterInv, RouterTypes, Call, Goto, admin, ledger
<1>2. CallersServed'
  BY DEF RouterInv, RouterTypes, CallersServed, Call, Goto
<1>3. BucketsKept' /\ PartitionsExist'
  BY <1>1, IdleSteps DEF Call
<1> QED
  BY <1>1, <1>2, <1>3 DEF RouterInv

\* The first critical section of try_allow finds a bucket or misses it.
LEMMA LookupStep ==
  ASSUME RouterInv, NEW c \in Callers, Lookup(c)
  PROVE  RouterInv'
<1>1. RouterTypes'
  BY DEF RouterInv, RouterTypes, Lookup, Goto, admin, ledger
<1>2. CallersServed'
  BY DEF RouterInv, RouterTypes, CallersServed, Lookup, Goto
<1>3. BucketsKept' /\ PartitionsExist'
  BY <1>1, IdleSteps DEF Lookup
<1> QED
  BY <1>1, <1>2, <1>3 DEF RouterInv

\* What a step that gives name m the bucket b and the account a must show.
LEMMA OneBucket ==
  ASSUME RouterInv, UNCHANGED clock, NEW m \in Names, NEW b \in Buckets,
         NEW a \in [since : Nat, granted : Nat], NEW q \in Quota \cup {None},
         limiters' = [limiters EXCEPT ![m] = b],
         account' = [account EXCEPT ![m] = a],
         quota' = [quota EXCEPT ![m] = q],
         Within(b, a),
         q # None => b.capacity = q.capacity /\ b.rate = q.rate
  PROVE  /\ limiters' \in [Names -> Buckets \cup {None}]
         /\ account' \in [Names -> [since : Nat, granted : Nat]]
         /\ quota' \in [Names -> Quota \cup {None}]
         /\ \A n \in Names : limiters[n] # None => limiters'[n] # None
         /\ limiters'[m] # None
         /\ BucketsKept'
<1>1. b # None
  BY NoneAssumption
<1>2. /\ limiters' \in [Names -> Buckets \cup {None}]
      /\ account' \in [Names -> [since : Nat, granted : Nat]]
      /\ quota' \in [Names -> Quota \cup {None}]
  BY DEF RouterInv, RouterTypes
<1>3. /\ limiters'[m] = b /\ account'[m] = a /\ quota'[m] = q
      /\ \A n \in Names \ {m} : limiters'[n] = limiters[n] /\ account'[n] = account[n]
                                /\ quota'[n] = quota[n]
  BY DEF RouterInv, RouterTypes
<1>4. BucketsKept'
  <2> SUFFICES ASSUME NEW n \in Names
               PROVE (IF limiters[n] = None THEN quota[n] = None /\ account[n] = [since |-> 0, granted |-> 0]
                      ELSE /\ Within(limiters[n], account[n])
                           /\ quota[n] # None => /\ limiters[n].capacity = quota[n].capacity
                                                 /\ limiters[n].rate = quota[n].rate)'
    BY DEF BucketsKept
  <2>1. CASE n = m
    BY <1>1, <1>3, <2>1 DEF Within, Refilled
  <2>2. CASE n # m
    BY <1>3, <2>2 DEF RouterInv, BucketsKept, Within, Refilled
  <2> QED
    BY <2>1, <2>2
<1> QED
  BY <1>1, <1>2, <1>3, <1>4

\* A caller that missed makes a bucket only if the name still has none, so a
\* quota that was set in between stays.
LEMMA MakeStep ==
  ASSUME RouterInv, NEW c \in Callers, Make(c)
  PROVE  RouterInv'
<1>1. /\ event[c] \in Event
      /\ UNCHANGED <<clock, num_partitions, event, sets, quota, account, routed>>
      /\ pc[c] = "miss" /\ pc' = [pc EXCEPT ![c] = "made"]
  BY DEF RouterInv, CallersServed, Make, Goto, admin, ledger
<1>2. PICK m \in Names : m = TenantOf(event[c])
  BY <1>1, TenantName
<1> DEFINE b == IF limiters[m] # None THEN limiters[m] ELSE Bucket(DefaultQuota)
<1>3. limiters' = [limiters EXCEPT ![m] = b]
  BY <1>2 DEF Make
<1>4. /\ DefaultQuota \in Quota /\ clock \in Nat /\ account[m] \in [since : Nat, granted : Nat]
      /\ quota[m] \in Quota \cup {None} /\ limiters[m] \in Buckets \cup {None}
      /\ account' = [account EXCEPT ![m] = account[m]]
      /\ quota' = [quota EXCEPT ![m] = quota[m]]
  BY <1>1, RouterAssumption DEF RouterInv, RouterTypes
<1>5. /\ b \in Buckets /\ Within(b, account[m])
      /\ quota[m] # None => b.capacity = quota[m].capacity /\ b.rate = quota[m].rate
  <2>1. CASE limiters[m] # None
    BY <1>4, <2>1 DEF RouterInv, BucketsKept
  <2>2. CASE limiters[m] = None
    BY <1>4, <2>2, NewBucket DEF RouterInv, BucketsKept
  <2> QED
    BY <2>1, <2>2
<1> HIDE DEF b
<1>6. PICK a \in [since : Nat, granted : Nat], q \in Quota \cup {None}, d \in Buckets :
        a = account[m] /\ q = quota[m] /\ d = b
  BY <1>4, <1>5
<1>7. /\ limiters' = [limiters EXCEPT ![m] = d] /\ Within(d, a)
      /\ account' = [account EXCEPT ![m] = a] /\ quota' = [quota EXCEPT ![m] = q]
      /\ q # None => d.capacity = q.capacity /\ d.rate = q.rate
  BY <1>3, <1>4, <1>5, <1>6
<1>8. /\ limiters' \in [Names -> Buckets \cup {None}]
      /\ \A n \in Names : limiters[n] # None => limiters'[n] # None
      /\ limiters'[m] # None /\ BucketsKept'
  BY <1>1, <1>7, OneBucket
<1>9. RouterTypes'
  BY <1>1, <1>8 DEF RouterInv, RouterTypes
<1>10. CallersServed'
  BY <1>1, <1>2, <1>8, TenantName DEF RouterInv, RouterTypes, CallersServed
<1>11. PartitionsExist'
  BY <1>1 DEF RouterInv, PartitionsExist
<1> QED
  BY <1>8, <1>9, <1>10, <1>11 DEF RouterInv

\* try_acquire takes from the bucket, or not, and the event is routed.
LEMMA RouteStep ==
  ASSUME RouterInv, NEW c \in Callers, Route(c)
  PROVE  RouterInv'
<1>1. /\ event[c] \in Event /\ limiters[TenantOf(event[c])] # None
      /\ UNCHANGED <<clock, num_partitions, event, sets, quota>>
      /\ pc' = [pc EXCEPT ![c] = "idle"]
  BY DEF RouterInv, CallersServed, Route, Goto, admin, ledger
<1>2. PICK m \in Names : m = TenantOf(event[c])
  BY <1>1, TenantName
<1>3. PICK b \in Buckets : b = limiters[m]
  BY <1>1, <1>2 DEF RouterInv, RouterTypes
<1>4. PICK a \in [since : Nat, granted : Nat], q \in Quota \cup {None} : a = account[m] /\ q = quota[m]
  BY <1>2 DEF RouterInv, RouterTypes
<1>5. /\ clock \in Nat /\ Within(b, a)
      /\ q # None => b.capacity = q.capacity /\ b.rate = q.rate
  BY <1>1, <1>2, <1>3, <1>4 DEF RouterInv, RouterTypes, BucketsKept
<1>6. PICK d \in Buckets, z \in [since : Nat, granted : Nat] :
        /\ limiters' = [limiters EXCEPT ![m] = d] /\ account' = [account EXCEPT ![m] = z]
        /\ Within(d, z) /\ d.capacity = b.capacity /\ d.rate = b.rate
  <2>1. limiters' = [limiters EXCEPT ![m] = Charged(b)]
    BY <1>2, <1>3 DEF Route
  <2>0. Refilled(b) \in Nat
    BY <1>5, ChargedWithin
  <2>4. \/ Refilled(b) >= 1 /\ account' = [account EXCEPT ![m].granted = @ + 1]
        \/ Refilled(b) < 1 /\ account' = account
    BY <1>2, <1>3 DEF Route
  <2>2. CASE Refilled(b) >= 1
    <3>1. account' = [account EXCEPT ![m] = [a EXCEPT !.granted = @ + 1]]
      <4>1. account' = [account EXCEPT ![m].granted = @ + 1]
        BY <2>0, <2>2, <2>4
      <4> QED
        BY <1>4, <4>1
    <3>2. [a EXCEPT !.granted = @ + 1] \in [since : Nat, granted : Nat]
      OBVIOUS
    <3> QED
      BY <1>5, <2>1, <2>2, <3>1, <3>2, ChargedWithin
  <2>3. CASE Refilled(b) < 1
    <3>1. account' = account
      BY <2>0, <2>3, <2>4
    <3>2. account' = [account EXCEPT ![m] = a]
      BY <1>4, <3>1 DEF RouterInv, RouterTypes
    <3> QED
      BY <1>5, <2>1, <2>3, <3>2, ChargedWithin
  <2> QED
    BY <2>0, <2>2, <2>3
<1>7. quota' = [quota EXCEPT ![m] = q]
  BY <1>1, <1>4 DEF RouterInv, RouterTypes
<1>8. /\ limiters' \in [Names -> Buckets \cup {None}]
      /\ account' \in [Names -> [since : Nat, granted : Nat]]
      /\ \A n \in Names : limiters[n] # None => limiters'[n] # None
      /\ BucketsKept'
  BY <1>1, <1>5, <1>6, <1>7, OneBucket
<1>9. /\ routed' \in [Names -> SUBSET Nat]
      /\ \A n \in Names : \A p \in routed'[n] : p < num_partitions \/ p = 0
  <2>1. routed' = routed \/ routed' = [routed EXCEPT ![m] = @ \cup {Partition(m)}]
    BY <1>2 DEF Route
  <2>2. Partition(m) \in Nat /\ (Partition(m) < num_partitions \/ Partition(m) = 0)
    BY PartitionRange DEF RouterInv
  <2>3. routed \in [Names -> SUBSET Nat] /\ \A n \in Names : \A p \in routed[n] : p < num_partitions \/ p = 0
    BY DEF RouterInv, RouterTypes, PartitionsExist
  <2>4. CASE routed' = [routed EXCEPT ![m] = @ \cup {Partition(m)}]
    <3>1. routed'[m] = routed[m] \cup {Partition(m)} /\ \A n \in Names \ {m} : routed'[n] = routed[n]
      BY <2>3, <2>4
    <3>2. routed' \in [Names -> SUBSET Nat]
      BY <2>2, <2>3, <2>4
    <3> QED
      BY <2>2, <2>3, <3>1, <3>2
  <2> QED
    BY <2>1, <2>3, <2>4
<1>10. RouterTypes'
  BY <1>1, <1>8, <1>9 DEF RouterInv, RouterTypes
<1>11. CallersServed'
  BY <1>1, <1>8, TenantName DEF RouterInv, RouterTypes, CallersServed
<1>12. PartitionsExist'
  BY <1>1, <1>9 DEF PartitionsExist
<1> QED
  BY <1>8, <1>10, <1>11, <1>12 DEF RouterInv

\* set_tenant_quota begins a bucket, a quota and an account together.
LEMMA SetStep ==
  ASSUME RouterInv, NEW m \in Tenants, NEW q \in Quotas, SetTenantQuota(m, q)
  PROVE  RouterInv'
<1>1. /\ UNCHANGED <<clock, num_partitions, pc, event, routed>> /\ sets' = sets + 1
      /\ limiters' = [limiters EXCEPT ![m] = Bucket(q)]
      /\ account' = [account EXCEPT ![m] = [since |-> clock, granted |-> 0]]
      /\ quota' = [quota EXCEPT ![m] = q]
  BY DEF SetTenantQuota
<1>2. m \in Names /\ q \in Quota /\ clock \in Nat
  BY RouterAssumption DEF Names, RouterInv, RouterTypes
<1>3. PICK b \in Buckets, a \in [since : Nat, granted : Nat] :
        /\ b = Bucket(q) /\ a = [since |-> clock, granted |-> 0]
        /\ Within(b, a) /\ b.capacity = q.capacity /\ b.rate = q.rate
  <2>1. [since |-> clock, granted |-> 0] \in [since : Nat, granted : Nat] /\ clock \in 0..clock
    BY <1>2
  <2> QED
    BY <1>2, <2>1, NewBucket
<1>4. /\ limiters' \in [Names -> Buckets \cup {None}]
      /\ account' \in [Names -> [since : Nat, granted : Nat]]
      /\ quota' \in [Names -> Quota \cup {None}]
      /\ \A n \in Names : limiters[n] # None => limiters'[n] # None
      /\ BucketsKept'
  BY <1>1, <1>2, <1>3, OneBucket
<1>5. RouterTypes'
  BY <1>1, <1>4 DEF RouterInv, RouterTypes
<1>6. CallersServed'
  BY <1>1, <1>4, TenantName DEF RouterInv, RouterTypes, CallersServed
<1>7. PartitionsExist'
  BY <1>1 DEF RouterInv, PartitionsExist
<1> QED
  BY <1>4, <1>5, <1>6, <1>7 DEF RouterInv

\* Time passes: what the buckets could grant and the allowance grow alike.
LEMMA TickStep ==
  ASSUME RouterInv, Tick
  PROVE  RouterInv'
<1>1. /\ clock' = clock + 1 /\ clock \in Nat
      /\ UNCHANGED <<num_partitions, limiters, pc, event, sets, quota, account, routed>>
  BY DEF Tick, admin, ledger, RouterInv, RouterTypes
<1>2. RouterTypes'
  BY <1>1 DEF RouterInv, RouterTypes
<1>3. CallersServed' /\ PartitionsExist'
  BY <1>1 DEF RouterInv, CallersServed, PartitionsExist
<1>4. ASSUME NEW n \in Names, limiters[n] # None PROVE Within(limiters[n], account[n])'
  <2>1. PICK b \in Buckets, a \in [since : Nat, granted : Nat] : b = limiters[n] /\ a = account[n]
    BY <1>4 DEF RouterInv, RouterTypes
  <2>2. Within(b, a)
    BY <1>4, <2>1 DEF RouterInv, BucketsKept
  <2>3. Within(b, a)'
    BY <1>1, <2>2, TickWithin
  <2> QED
    BY <1>1, <2>1, <2>3 DEF Within, Refilled
<1>5. BucketsKept'
  BY <1>1, <1>4 DEF RouterInv, BucketsKept
<1> QED
  BY <1>2, <1>3, <1>5 DEF RouterInv

\* The invariant is inductive.
LEMMA RouterNext == RouterInv /\ [Next]_vars => RouterInv'
<1> SUFFICES ASSUME RouterInv, [Next]_vars PROVE RouterInv'
  OBVIOUS
<1>1. CASE UNCHANGED vars
  <2>1. RouterTypes' /\ CallersServed'
    BY <1>1 DEF vars, admin, ledger, RouterInv, RouterTypes, CallersServed
  <2> QED
    BY <1>1, <2>1, IdleSteps DEF vars, RouterInv
<1> QED
  BY <1>1, CallStep, LookupStep, MakeStep, RouteStep, SetStep, TickStep DEF Next, CallerStep

\* The invariant at every instant.
LEMMA RouterAlways == Spec => []RouterInv
  BY RouterInit, RouterNext, PTL DEF Spec

-----------------------------------------------------------------------------
\* A caller past the lookup of try_allow finds its bucket, buckets stay between
\* empty and full, and events go to partitions that exist.
THEOREM RouterTyping == Spec => []TypeOK
<1>1. RouterInv => TypeOK
  <2> SUFFICES ASSUME RouterInv PROVE TypeOK
    OBVIOUS
  <2>1. \A n \in Names : limiters[n] # None => limiters[n].tokens \in 0..limiters[n].capacity
    <3> SUFFICES ASSUME NEW n \in Names, limiters[n] # None
                 PROVE  limiters[n].tokens \in 0..limiters[n].capacity
      OBVIOUS
    <3>1. limiters[n] \in Buckets /\ limiters[n].tokens <= limiters[n].capacity
      BY DEF RouterInv, RouterTypes, BucketsKept, Within
    <3> QED
      BY <3>1 DEF Buckets
  <2> QED
    BY <2>1 DEF RouterInv, RouterTypes, CallersServed, PartitionsExist, TypeOK, Readers, Writers
<1> QED
  BY <1>1, RouterAlways, PTL

\* However callers race to make it, a tenant's bucket lets through no more than
\* one full bucket and the refill since its quota was set.
THEOREM QuotasHold == Spec => []QuotaBound
<1>1. RouterInv => QuotaBound
  <2> SUFFICES ASSUME RouterInv, NEW n \in Names, limiters[n] # None
               PROVE  account[n].granted
                        <= limiters[n].capacity + limiters[n].rate * (clock - account[n].since)
    BY DEF QuotaBound
  <2>1. PICK b \in Buckets, a \in [since : Nat, granted : Nat] : b = limiters[n] /\ a = account[n]
    BY DEF RouterInv, RouterTypes
  <2>2. Within(b, a) /\ clock \in Nat
    BY <2>1 DEF RouterInv, RouterTypes, BucketsKept
  <2>3. b.capacity \in Nat /\ b.rate \in Nat /\ b.last_refill \in Nat /\ a.granted \in Nat /\ a.since \in 0..clock
    BY <2>2 DEF Buckets, Within
  <2>4. Refilled(b) \in Nat /\ b.rate * (clock - a.since) \in Nat
    BY <2>2, <2>3, ChargedWithin, Spans
  <2>5. a.granted + Refilled(b) <= b.capacity + b.rate * (clock - a.since)
    BY <2>2 DEF Within
  <2>6. a.granted <= b.capacity + b.rate * (clock - a.since)
    BY <2>3, <2>4, <2>5
  <2> QED
    BY <2>1, <2>6
<1> QED
  BY <1>1, RouterAlways, PTL

\* A quota that set_tenant_quota gave is never displaced by the default bucket
\* of a caller that had looked before.
THEOREM QuotasStick == Spec => []QuotaSticks
<1>1. RouterInv => QuotaSticks
  BY DEF RouterInv, BucketsKept, QuotaSticks
<1> QED
  BY <1>1, RouterAlways, PTL
=============================================================================
