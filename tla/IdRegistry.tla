----------------------------- MODULE IdRegistry -----------------------------
(***************************************************************************)
(* What a registry of schema ids promises its readers: every id is given   *)
(* to one subject for good, and the current id of a subject is one it was  *)
(* given, never an older one than before.                                  *)
(***************************************************************************)
EXTENDS Naturals, Sequences

CONSTANTS Subjects, FirstId, NoId

VARIABLES
  given,     \* the subjects the ids were given to, the first id's first
  current    \* subject -> NoId, or its current id

Init == given = <<>> /\ current = [s \in Subjects |-> NoId]

Give(s) ==
  /\ given' = Append(given, s)
  /\ current' = [current EXCEPT ![s] = FirstId + Len(given)]

Next == \E s \in Subjects : Give(s)

Spec == Init /\ [][Next]_<<given, current>>
=============================================================================
