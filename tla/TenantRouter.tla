---------------------------- MODULE TenantRouter ----------------------------
(***************************************************************************)
(* src/src/router/mod.rs and the TenantQuotaLimiter of                     *)
(* src/src/resiliency/rate_limiter.rs: events are charged to the bucket of *)
(* their tenant and sent to a partition.  The map of buckets is behind a   *)
(* std::sync::RwLock whose guard is held while the bucket's async mutexes  *)
(* are awaited: a task may be suspended with the guard, and a task that    *)
(* waits for the lock blocks the thread it runs on.                        *)
(*                                                                         *)
(* Names are tenants and databases: an event without a tenant_id string in *)
(* its row is charged and routed under the name of its database.  Time is  *)
(* counted in ticks, tokens in natural numbers; the hash is some function. *)
(***************************************************************************)
EXTENDS Integers

CONSTANTS
  Callers,         \* tasks that call route_event
  Thread,          \* the thread each of them runs on
  Tenants,         \* values of tenant_id
  Databases,       \* values of source_database
  Hash,            \* name -> Nat, DefaultHasher
  PartitionCounts, \* values of num_partitions
  DefaultQuota,    \* default_quota_capacity and default_refill_rate
  None,
  Quotas,          \* what set_tenant_quota may be called with
  MaxTicks,        \* bound: clock ticks
  MaxCalls,        \* bound: calls of route_event by each caller
  MaxSets          \* bound: calls of set_tenant_quota

Names == Tenants \cup Databases

Quota == [capacity : Nat, rate : Nat]

ASSUME RouterAssumption ==
  /\ Thread \in [Callers -> Callers]
  /\ Hash \in [Names -> Nat] /\ PartitionCounts \subseteq Nat
  /\ DefaultQuota \in Quota /\ Quotas \subseteq Quota
  /\ MaxTicks \in Nat /\ MaxCalls \in Nat /\ MaxSets \in Nat

\* A row event holds its tenant; a Delete has no `after` at all.
Event == [tenant : Tenants \cup {None}, database : Databases]

\* TokenBucketLimiter
Buckets == [capacity : Nat, rate : Nat, tokens : Nat, last_refill : Nat]

ASSUME NoneAssumption == None \notin Quota \cup Buckets \cup Event

VARIABLES
  clock,
  num_partitions,
  limiters,    \* tenant_limiters: name -> None, or its bucket
  pc,          \* where each caller is in route_event
  event,       \* the event it routes
  calls,       \* calls it has made
  sets,        \* calls of set_tenant_quota
  quota,       \* name -> None, or the quota set_tenant_quota gave it last
  account,     \* name -> events let through since the instant `since`, the start
               \* or the last call of set_tenant_quota
  routed       \* name -> partitions its events were sent to

admin == <<sets, quota>>
ledger == <<account, routed>>
vars == <<clock, num_partitions, limiters, pc, event, calls, admin, ledger>>

\* TokenBucketLimiter::new
Bucket(q) == [capacity |-> q.capacity, rate |-> q.rate, tokens |-> q.capacity,
              last_refill |-> clock]

Init ==
  /\ clock = 0
  /\ num_partitions \in PartitionCounts
  /\ limiters = [n \in Names |-> None]
  /\ pc = [c \in Callers |-> "idle"]
  /\ event = [c \in Callers |-> None]
  /\ calls = [c \in Callers |-> 0]
  /\ sets = 0
  /\ quota = [n \in Names |-> None]
  /\ account = [n \in Names |-> [since |-> 0, granted |-> 0]]
  /\ routed = [n \in Names |-> {}]

-----------------------------------------------------------------------------
\* The name an event is charged and routed under.
TenantOf(e) == IF e.tenant # None THEN e.tenant ELSE e.database

\* resolve_partition: the hash, here of the tenant's name, modulo the number of
\* partitions.
Partition(name) == IF num_partitions <= 1 THEN 0 ELSE Hash[name] % num_partitions

Refilled(b) == LET t == b.tokens + b.rate * (clock - b.last_refill)
               IN  IF t < b.capacity THEN t ELSE b.capacity

\* Mutant: the instant of the refill is not recorded.
ChargedKeepsInstant(b) ==
  [b EXCEPT !.tokens = IF Refilled(b) >= 1 THEN Refilled(b) - 1 ELSE Refilled(b)]

\* The bucket after try_acquire(1).
Charged(b) ==
  [b EXCEPT !.tokens = IF Refilled(b) >= 1 THEN Refilled(b) - 1 ELSE Refilled(b),
            !.last_refill = clock]

-----------------------------------------------------------------------------
\* Mutant: the read guard is not dropped before the write lock is asked for.
ReadersKept == {c \in Callers : pc[c] \in {"hit", "miss"}}

\* Guards: "hit" is a suspended caller with the read guard, "made" one with
\* the write guard.
Readers == {c \in Callers : pc[c] = "hit"}
Writers == {c \in Callers : pc[c] = "made"}

\* No task that blocks c's thread waits for the lock.
Runs(c) == \A d \in Callers \ {c} :
             Thread[d] = Thread[c] => pc[d] \notin {"called", "miss"}

Goto(c, to) == pc' = [pc EXCEPT ![c] = to]

\* route_event(e) is called; try_allow asks for the read lock.
Call(c, e) ==
  /\ pc[c] = "idle" /\ calls[c] < MaxCalls /\ Runs(c)
  /\ event' = [event EXCEPT ![c] = e]
  /\ calls' = [calls EXCEPT ![c] = @ + 1]
  /\ Goto(c, "called")
  /\ UNCHANGED <<clock, num_partitions, limiters, admin, ledger>>

\* Mutant: the bucket is taken to be there.
LookupBlind(c) ==
  /\ pc[c] = "called" /\ Writers = {}
  /\ Goto(c, "hit")
  /\ UNCHANGED <<clock, num_partitions, limiters, event, calls, admin, ledger>>

\* The read lock is there: the bucket is looked up, and the guard kept for
\* try_acquire or dropped.
Lookup(c) ==
  /\ pc[c] = "called" /\ Writers = {}
  /\ Goto(c, IF limiters[TenantOf(event[c])] # None THEN "hit" ELSE "miss")
  /\ UNCHANGED <<clock, num_partitions, limiters, event, calls, admin, ledger>>

\* Mutant: insert instead of entry().or_insert_with().
MakeAnew(c) ==
  /\ pc[c] = "miss" /\ Readers = {} /\ Writers = {}
  /\ limiters' = [limiters EXCEPT ![TenantOf(event[c])] = Bucket(DefaultQuota)]
  /\ Goto(c, "made")
  /\ UNCHANGED <<clock, num_partitions, event, calls, admin, ledger>>

\* The write lock is there: a bucket with the default quota is inserted
\* unless the name got one meanwhile.
Make(c) ==
  /\ pc[c] = "miss" /\ Readers = {} /\ Writers = {}
  /\ limiters' = [limiters EXCEPT ![TenantOf(event[c])] =
                    IF @ # None THEN @ ELSE Bucket(DefaultQuota)]
  /\ Goto(c, "made")
  /\ UNCHANGED <<clock, num_partitions, event, calls, admin, ledger>>

\* try_acquire(1) under either guard, and the end of route_event: None, or a
\* partition if the bucket had a token.
Route(c) ==
  LET name == TenantOf(event[c])
      b    == limiters[name]
  IN  /\ pc[c] \in {"hit", "made"} /\ Runs(c)
      /\ limiters' = [limiters EXCEPT ![name] = Charged(b)]
      /\ \/ /\ Refilled(b) >= 1
            /\ account' = [account EXCEPT ![name].granted = @ + 1]
            /\ routed' = [routed EXCEPT ![name] = @ \cup {Partition(name)}]
         \/ /\ Refilled(b) < 1
            /\ UNCHANGED <<account, routed>>
      /\ Goto(c, "idle")
      /\ UNCHANGED <<clock, num_partitions, event, calls, admin>>

\* set_tenant_quota: a full bucket replaces whatever the name had.
SetTenantQuota(n, q) ==
  /\ sets < MaxSets /\ Readers = {} /\ Writers = {}
  /\ limiters' = [limiters EXCEPT ![n] = Bucket(q)]
  /\ quota' = [quota EXCEPT ![n] = q]
  /\ account' = [account EXCEPT ![n] = [since |-> clock, granted |-> 0]]
  /\ sets' = sets + 1
  /\ UNCHANGED <<clock, num_partitions, pc, event, calls, routed>>

Tick ==
  /\ clock < MaxTicks
  /\ clock' = clock + 1
  /\ UNCHANGED <<num_partitions, limiters, pc, event, calls, admin, ledger>>

CallerStep(c) == Lookup(c) \/ Make(c) \/ Route(c)

Next ==
  \/ Tick
  \/ \E c \in Callers : CallerStep(c) \/ \E e \in Event : Call(c, e)
  \/ \E n \in Tenants, q \in Quotas : SetTenantQuota(n, q)

Spec == Init /\ [][Next]_vars

\* A task that can run is polled and a free lock is granted; nothing is assumed
\* of the order in which waiting tasks get it.
FairSpec == Spec /\ \A c \in Callers : WF_vars(CallerStep(c))

-----------------------------------------------------------------------------
\* Types; a caller past the lookup holds a guard on a bucket that is there, and
\* events go to partitions that exist, to 0 when the router was made with none.
TypeOK ==
  /\ clock \in Nat /\ sets \in Nat
  /\ pc \in [Callers -> {"idle", "called", "hit", "miss", "made"}]
  /\ event \in [Callers -> Event \cup {None}]
  /\ \A n \in Names : limiters[n] # None => limiters[n].tokens \in 0..limiters[n].capacity
  /\ \A n \in Names : \A p \in routed[n] : p < num_partitions \/ p = 0
  /\ \A c \in Readers \cup Writers : limiters[TenantOf(event[c])] # None

\* A tenant's quota is its own: since it was set no more was let through than
\* one full bucket and the refill, whichever callers raced to make the bucket
\* and whatever other tenants did.
QuotaBound ==
  \A n \in Names : limiters[n] # None =>
    account[n].granted <= limiters[n].capacity + limiters[n].rate * (clock - account[n].since)

\* A quota that was set is never displaced by the default one that a caller
\* decided to make before.
QuotaSticks ==
  \A n \in Names : quota[n] # None =>
    /\ limiters[n] # None
    /\ limiters[n].capacity = quota[n].capacity /\ limiters[n].rate = quota[n].rate

\* With a thread for each task every call of route_event returns, although
\* guards are held by suspended tasks.
CallsReturn == \A c \in Callers : pc[c] = "called" ~> pc[c] = "idle"
=============================================================================
