--------------------------- MODULE SlidingWindow ---------------------------
(***************************************************************************)
(* What the duplicate filter promises: an id is a duplicate exactly when   *)
(* it is among the last DedupCapacity ids that were accepted.              *)
(***************************************************************************)
EXTENDS Integers, Sequences

CONSTANTS Ids, DedupCapacity

VARIABLES
  accepted,   \* the ids accepted so far, in order
  answer      \* the last answer: TRUE for a duplicate

\* The positions of the window: the last DedupCapacity ones.
Window == {i \in DOMAIN accepted : i > Len(accepted) - DedupCapacity}

InWindow(id) == \E i \in Window : accepted[i] = id

Init == accepted = <<>> /\ answer = FALSE

Offer(id) ==
  /\ answer' = InWindow(id)
  /\ accepted' = IF InWindow(id) THEN accepted ELSE Append(accepted, id)

Next == \E id \in Ids : Offer(id)

Spec == Init /\ [][Next]_<<accepted, answer>>
============================================================================
