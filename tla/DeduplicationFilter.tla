------------------------ MODULE DeduplicationFilter ------------------------
(***************************************************************************)
(* The duplicate filter of src/src/resiliency/dedup.rs: a set of the ids   *)
(* seen and a queue that remembers the order they came in, so that the     *)
(* oldest one is evicted when the queue grows past the capacity.           *)
(***************************************************************************)
EXTENDS Naturals, Sequences

CONSTANT DedupCapacity    \* max_capacity

ASSUME DedupCapacityAssumption == DedupCapacity \in Nat

\* DeduplicationFilter::new
NewFilter == [processed_ids |-> {}, order |-> <<>>]

\* The answer of check_and_track(id).
IsDuplicate(filter, id) == id \in filter.processed_ids

\* Mutant: the evicted id stays in the set.
EvictFromQueueOnly(filter, id) ==
  LET pushed == Append(filter.order, id)
      ids    == filter.processed_ids \cup {id}
  IN  CASE IsDuplicate(filter, id) -> filter
        [] ~IsDuplicate(filter, id) /\ Len(pushed) > DedupCapacity
             -> [processed_ids |-> ids, order |-> Tail(pushed)]
        [] OTHER -> [processed_ids |-> ids, order |-> pushed]

\* Mutant: eviction one id early.
EvictEarly(filter, id) ==
  LET pushed == Append(filter.order, id)
      ids    == filter.processed_ids \cup {id}
  IN  CASE IsDuplicate(filter, id) -> filter
        [] ~IsDuplicate(filter, id) /\ Len(pushed) >= DedupCapacity
             -> [processed_ids |-> ids \ {Head(pushed)}, order |-> Tail(pushed)]
        [] OTHER -> [processed_ids |-> ids, order |-> pushed]

\* The filter after check_and_track(id).
AfterCheck(filter, id) ==
  LET pushed == Append(filter.order, id)
      ids    == filter.processed_ids \cup {id}
  IN  CASE IsDuplicate(filter, id) -> filter
        [] ~IsDuplicate(filter, id) /\ Len(pushed) > DedupCapacity
             -> [processed_ids |-> ids \ {Head(pushed)}, order |-> Tail(pushed)]
        [] OTHER -> [processed_ids |-> ids, order |-> pushed]
============================================================================
