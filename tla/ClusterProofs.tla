---------------------------- MODULE ClusterProofs ----------------------------
(***************************************************************************)
(* Proofs about the election loop and shutdown(), for every set of nodes   *)
(* and every number of restarts.  The type invariant is inductive as it    *)
(* stands, and its last conjunct (the shutdown flag is up exactly when     *)
(* shutdown() stored it) is what keeps a node that stepped down from       *)
(* waking again.                                                           *)
(***************************************************************************)
EXTENDS ClusterCoordinator, TLAPS

\* One step of one node: what Next takes for some node.
NodeStep(n) == LoopStep(n) \/ CallShutdown(n) \/ ShutdownStep(n) \/ Restart(n)

\* Every step of the election loop leaves the types, and the two relations
\* between role and term and between the flag and its store, intact.
LEMMA LoopTypes ==
  ASSUME TypeOK, NEW n \in Nodes, LoopStep(n)
  PROVE  TypeOK'
<1>1. CASE Wake(n)
  BY <1>1 DEF TypeOK, Wake, flags
<1>2. CASE Terminate(n)
  BY <1>2 DEF TypeOK, Terminate, flags
<1>3. CASE Campaign(n)
  <2>1. /\ role' = [role EXCEPT ![n] = "Candidate"]
        /\ term' = [term EXCEPT ![n] = @ + 1]
        /\ loop' = [loop EXCEPT ![n] = "asleep"]
        /\ UNCHANGED <<is_leader, shutdown, stores, restarts>>
    BY <1>3 DEF Campaign, flags
  <2>2. /\ role' \in [Nodes -> {"Follower", "Candidate", "Leader"}]
        /\ term' \in [Nodes -> Nat]
        /\ loop' \in [Nodes -> {"asleep", "awake", "ended"}]
    BY <2>1 DEF TypeOK
  <2>3. \A m \in Nodes : role'[m] = "Follower" <=> term'[m] = 0
    BY <2>1 DEF TypeOK
  <2>4. \A m \in Nodes : shutdown'[m] <=> "shutdown" \notin stores'[m]
    BY <2>1 DEF TypeOK
  <2> QED
    BY <2>1, <2>2, <2>3, <2>4 DEF TypeOK
<1>4. CASE Win(n)
  <2>1. \A m \in Nodes : role'[m] = "Follower" <=> term'[m] = 0
    BY <1>4 DEF TypeOK, Win
  <2> QED
    BY <1>4, <2>1 DEF TypeOK, Win
<1>5. CASE Renew(n)
  BY <1>5 DEF TypeOK, Renew
<1> QED
  BY <1>1, <1>2, <1>3, <1>4, <1>5 DEF LoopStep

\* The same for shutdown() and for a restart of the process.
LEMMA ShutdownTypes ==
  ASSUME TypeOK, NEW n \in Nodes,
         CallShutdown(n) \/ ShutdownStep(n) \/ Restart(n)
  PROVE  TypeOK'
<1>1. CASE CallShutdown(n)
  BY <1>1 DEF TypeOK, CallShutdown, flags, local
<1>2. CASE StoreShutdown(n)
  BY <1>2 DEF TypeOK, StoreShutdown, local
<1>3. CASE StoreFollower(n)
  BY <1>3 DEF TypeOK, StoreFollower, local
<1>4. CASE Restart(n)
  BY <1>4 DEF TypeOK, Restart, NotCalled
<1> QED
  BY <1>1, <1>2, <1>3, <1>4 DEF ShutdownStep

\* The flags, the loops and the calls of shutdown() keep their types; a node
\* has a term exactly when it left the follower role, and its shutdown flag is
\* up exactly when shutdown() has stored it.
THEOREM ClusterTyping == Spec => []TypeOK
<1>1. Init => TypeOK
  BY DEF Init, TypeOK, NotCalled
<1>2. TypeOK /\ [Next]_vars => TypeOK'
  <2> SUFFICES ASSUME TypeOK, [Next]_vars PROVE TypeOK'
    OBVIOUS
  <2>1. CASE UNCHANGED vars
    BY <2>1 DEF TypeOK, vars, flags, local
  <2>2. ASSUME NEW n \in Nodes, NodeStep(n) PROVE TypeOK'
    BY <2>2, LoopTypes, ShutdownTypes DEF NodeStep
  <2> QED
    BY <2>1, <2>2 DEF Next, NodeStep
<1> QED
  BY <1>1, <1>2, PTL DEF Spec

\* A step of another node leaves a node's flags, loop and call alone.
LEMMA OtherNode ==
  ASSUME TypeOK, NEW n \in Nodes, NEW m \in Nodes, m # n, NodeStep(n)
  PROVE  /\ is_leader'[m] = is_leader[m]
         /\ loop'[m] = loop[m]
         /\ stores'[m] = stores[m]
         /\ restarts'[m] = restarts[m]
<1>1. CASE LoopStep(n)
  BY <1>1 DEF TypeOK, LoopStep, Wake, Terminate, Campaign, Win, Renew, flags
<1>2. CASE CallShutdown(n) \/ ShutdownStep(n) \/ Restart(n)
  BY <1>2 DEF TypeOK, CallShutdown, ShutdownStep, StoreShutdown, StoreFollower,
              Restart, flags, local
<1> QED
  BY <1>1, <1>2 DEF NodeStep

\* A node that is down takes no turn: its flag is up, so a loop that is asleep
\* can only end, and no store of shutdown() is left to make.
LEMMA DownStep ==
  ASSUME TypeOK, NEW n \in Nodes, NodeStep(n), Down(n)
  PROVE  \/ Down(n)'
         \/ restarts'[n] > restarts[n]
<1>1. shutdown[n] /\ stores[n] = {} /\ ~is_leader[n] /\ loop[n] # "awake"
  BY DEF TypeOK, Down, Returned
<1>2. CASE LoopStep(n)
  <2>1. Terminate(n)
    BY <1>1, <1>2 DEF LoopStep, Wake, Campaign, Win, Renew
  <2> QED
    BY <1>1, <2>1 DEF TypeOK, Terminate, Down, Returned, flags
<1>3. CASE CallShutdown(n) \/ ShutdownStep(n)
  BY <1>1, <1>3 DEF CallShutdown, ShutdownStep, StoreShutdown, StoreFollower
<1>4. CASE Restart(n)
  BY <1>4 DEF TypeOK, Restart
<1> QED
  BY <1>2, <1>3, <1>4 DEF NodeStep

\* Whatever the order in which the two relaxed stores of shutdown() become
\* visible and wherever the election loop is when they do: a node on which
\* shutdown() has returned, that is not leader and not in the middle of a turn
\* never leads again until its process is restarted.
THEOREM SteppingDown == Spec => SteppedDownForGood
<1>1. TypeOK /\ [Next]_vars =>
        [\A n \in Nodes : Down(n) => Down(n)' \/ restarts'[n] > restarts[n]]_vars
  <2> SUFFICES ASSUME TypeOK, Next, NEW n \in Nodes, Down(n)
               PROVE  Down(n)' \/ restarts'[n] > restarts[n]
    OBVIOUS
  <2>1. PICK m \in Nodes : NodeStep(m)
    BY DEF Next, NodeStep
  <2>2. CASE m = n
    BY <2>1, <2>2, DownStep
  <2>3. CASE m # n
    BY <2>1, <2>3, OtherNode DEF Down, Returned
  <2> QED
    BY <2>2, <2>3
<1> QED
  BY <1>1, ClusterTyping, PTL DEF Spec, SteppedDownForGood
=============================================================================
