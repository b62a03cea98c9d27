------------------------- MODULE ClusterCoordinator -------------------------
(***************************************************************************)
(* src/src/consensus/mod.rs: each node's election loop, which runs in a    *)
(* task of its own, and shutdown(), which another thread calls.  They      *)
(* share two relaxed atomics, is_leader and shutdown; role and term are    *)
(* local to the loop.  A coordinator that is shut down does not come back;  *)
(* a process that restarts builds a new one.                               *)
(***************************************************************************)
EXTENDS Naturals

CONSTANTS
  Nodes,         \* the processes of the cluster
  MaxRestarts    \* bound: restarts of each process

ASSUME RestartsAssumption == MaxRestarts \in Nat

VARIABLES
  is_leader,   \* the shared flag the ingestion tasks read
  shutdown,    \* the shared flag the loop reads
  role,        \* the loop's role
  term,        \* the loop's term
  loop,        \* "asleep" | "awake" (past the shutdown check) | "ended"
  stores,      \* stores shutdown() has still to make; all three before the call
  restarts

flags == <<is_leader, shutdown>>
local == <<role, term, loop>>
vars  == <<flags, local, stores, restarts>>

NotCalled == {"call", "shutdown", "is_leader"}

Init ==
  /\ is_leader = [n \in Nodes |-> FALSE]
  /\ shutdown = [n \in Nodes |-> FALSE]
  /\ role = [n \in Nodes |-> "Follower"]
  /\ term = [n \in Nodes |-> 0]
  /\ loop = [n \in Nodes |-> "asleep"]
  /\ stores = [n \in Nodes |-> NotCalled]
  /\ restarts = [n \in Nodes |-> 0]

(***************************************************************************)
(* The election loop.  Between the check of the flag and the body of the   *)
(* turn another thread may run.                                            *)
(***************************************************************************)
\* Mutant: the shutdown flag is not checked.
WakeUnchecked(n) ==
  /\ loop[n] = "asleep"
  /\ loop' = [loop EXCEPT ![n] = "awake"]
  /\ UNCHANGED <<flags, role, term, stores, restarts>>

\* The election timeout fires and the flag is down: the turn goes on.
Wake(n) ==
  /\ loop[n] = "asleep"
  /\ ~shutdown[n]
  /\ loop' = [loop EXCEPT ![n] = "awake"]
  /\ UNCHANGED <<flags, role, term, stores, restarts>>

\* Mutant: `continue` instead of `break`.
TerminateContinues(n) ==
  /\ loop[n] = "asleep"
  /\ shutdown[n]
  /\ UNCHANGED vars

\* The election timeout fires and the flag is up: the loop ends.
Terminate(n) ==
  /\ loop[n] = "asleep"
  /\ shutdown[n]
  /\ loop' = [loop EXCEPT ![n] = "ended"]
  /\ UNCHANGED <<flags, role, term, stores, restarts>>

\* Mutant: the term is not incremented.
CampaignSameTerm(n) ==
  /\ loop[n] = "awake" /\ role[n] = "Follower"
  /\ role' = [role EXCEPT ![n] = "Candidate"]
  /\ loop' = [loop EXCEPT ![n] = "asleep"]
  /\ UNCHANGED <<term, flags, stores, restarts>>

\* A follower becomes a candidate for the next term.
Campaign(n) ==
  /\ loop[n] = "awake" /\ role[n] = "Follower"
  /\ role' = [role EXCEPT ![n] = "Candidate"]
  /\ term' = [term EXCEPT ![n] = @ + 1]
  /\ loop' = [loop EXCEPT ![n] = "asleep"]
  /\ UNCHANGED <<flags, stores, restarts>>

\* A candidate declares itself elected; no vote is asked of anyone.
Win(n) ==
  /\ loop[n] = "awake" /\ role[n] = "Candidate"
  /\ role' = [role EXCEPT ![n] = "Leader"]
  /\ is_leader' = [is_leader EXCEPT ![n] = TRUE]
  /\ loop' = [loop EXCEPT ![n] = "asleep"]
  /\ UNCHANGED <<shutdown, term, stores, restarts>>

\* A leader renews its flag.
Renew(n) ==
  /\ loop[n] = "awake" /\ role[n] = "Leader"
  /\ is_leader' = [is_leader EXCEPT ![n] = TRUE]
  /\ loop' = [loop EXCEPT ![n] = "asleep"]
  /\ UNCHANGED <<shutdown, role, term, stores, restarts>>

(***************************************************************************)
(* shutdown().  Its two stores are relaxed, so the loop's thread may see   *)
(* them in either order.                                                   *)
(***************************************************************************)
CallShutdown(n) ==
  /\ "call" \in stores[n]
  /\ stores' = [stores EXCEPT ![n] = @ \ {"call"}]
  /\ UNCHANGED <<flags, local, restarts>>

StoreShutdown(n) ==
  /\ "call" \notin stores[n] /\ "shutdown" \in stores[n]
  /\ shutdown' = [shutdown EXCEPT ![n] = TRUE]
  /\ stores' = [stores EXCEPT ![n] = @ \ {"shutdown"}]
  /\ UNCHANGED <<is_leader, local, restarts>>

StoreFollower(n) ==
  /\ "call" \notin stores[n] /\ "is_leader" \in stores[n]
  /\ is_leader' = [is_leader EXCEPT ![n] = FALSE]
  /\ stores' = [stores EXCEPT ![n] = @ \ {"is_leader"}]
  /\ UNCHANGED <<shutdown, local, restarts>>

\* The process crashes and main builds a new coordinator.
Restart(n) ==
  /\ restarts[n] < MaxRestarts
  /\ restarts' = [restarts EXCEPT ![n] = @ + 1]
  /\ is_leader' = [is_leader EXCEPT ![n] = FALSE]
  /\ shutdown' = [shutdown EXCEPT ![n] = FALSE]
  /\ role' = [role EXCEPT ![n] = "Follower"]
  /\ term' = [term EXCEPT ![n] = 0]
  /\ loop' = [loop EXCEPT ![n] = "asleep"]
  /\ stores' = [stores EXCEPT ![n] = NotCalled]

LoopStep(n) == Wake(n) \/ Terminate(n) \/ Campaign(n) \/ Win(n) \/ Renew(n)
ShutdownStep(n) == StoreShutdown(n) \/ StoreFollower(n)

Next == \E n \in Nodes :
          LoopStep(n) \/ CallShutdown(n) \/ ShutdownStep(n) \/ Restart(n)

Spec == Init /\ [][Next]_vars

\* The loop's timer always fires again and a call that was begun returns.
FairSpec ==
  Spec /\ \A n \in Nodes : WF_vars(LoopStep(n)) /\ WF_vars(ShutdownStep(n))

-----------------------------------------------------------------------------
Returned(n) == stores[n] = {}

\* Types; a node has a term exactly when it left the follower role, and the
\* shutdown flag is up exactly when shutdown() stored it.
TypeOK ==
  /\ is_leader \in [Nodes -> BOOLEAN]
  /\ shutdown \in [Nodes -> BOOLEAN]
  /\ role \in [Nodes -> {"Follower", "Candidate", "Leader"}]
  /\ term \in [Nodes -> Nat]
  /\ loop \in [Nodes -> {"asleep", "awake", "ended"}]
  /\ stores \in [Nodes -> SUBSET NotCalled]
  /\ restarts \in [Nodes -> Nat]
  /\ \A n \in Nodes : /\ role[n] = "Follower" <=> term[n] = 0
                      /\ shutdown[n] <=> "shutdown" \notin stores[n]

Down(n) == Returned(n) /\ ~is_leader[n] /\ loop[n] # "awake"

\* What stepping down really guarantees: once shutdown() has returned and the
\* loop is not in the middle of a turn, a node that is not leader stays out of
\* every later turn and never leads again, until its process is restarted.
SteppedDownForGood ==
  [][\A n \in Nodes : Down(n) => Down(n)' \/ restarts'[n] > restarts[n]]_vars

\* A node that is never shut down is leader for good in the end, and a node
\* on which shutdown() was called ends its loop or is restarted.
ElectionProgress ==
  \A n \in Nodes :
    /\ <>[]("call" \in stores[n]) => <>[]is_leader[n]
    /\ shutdown[n] ~> (loop[n] = "ended" \/ ~shutdown[n])

\* "Voluntarily stepping down and releasing leadership...": after shutdown()
\* has returned the node is not leader.
ShutdownReleases == \A n \in Nodes : Returned(n) => ~is_leader[n]
=============================================================================
