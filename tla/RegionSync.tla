----------------------------- MODULE RegionSync -----------------------------
(***************************************************************************)
(* src/src/sync/mod.rs and the ClusterForwarderSink of                     *)
(* src/src/sink/forwarder.rs: each cluster forwards the changes of its own *)
(* log to its peers, and a change that arrives is weighed against the row  *)
(* that is there by its timestamp.                                         *)
(*                                                                         *)
(* The network and the databases are external and used as the repository's *)
(* tests use them: messages arrive in any order and more than once, and a  *)
(* change that was applied comes back in the log of the cluster that       *)
(* applied it under a transaction id "remote-<cluster>".  Which cluster    *)
(* that is, nothing in the code says: the test of src/tests/               *)
(* multi_cluster_sync_test.rs writes the one that applied the change and   *)
(* its comment says the one the change comes from, so it is a parameter.   *)
(* One row, which is never deleted; clocks of different clusters never     *)
(* show the same instant, and none lags behind a change it has applied.    *)
(***************************************************************************)
EXTENDS Naturals, Sequences

CONSTANTS
  Clusters,    \* each is a registered peer of all others
  NoRow,
  Tagging,     \* whom "remote-<cluster>" may name: the "applier", the "origin"
  Prefixes,    \* cluster -> the clusters whose ids its own id begins with
  MaxWrites    \* bound: writes

VARIABLES
  row,         \* cluster -> NoRow, or the change that wrote its row
  changes,     \* cluster -> its change log
  forwarded,   \* cluster -> how far its log was handled
  wire,        \* messages sent
  arrived      \* messages delivered at least once

regionVars == <<row, changes, forwarded, wire, arrived>>

Init ==
  /\ row = [c \in Clusters |-> NoRow]
  /\ changes = [c \in Clusters |-> <<>>]
  /\ forwarded = [c \in Clusters |-> 0]
  /\ wire = {} /\ arrived = {}

\* A change, and an entry of a log: the change, and the clusters d for which its
\* transaction id starts with "remote-<d>", none for a client's write.
Change(c, t) == [origin |-> c, timestamp |-> t]
Log(c, change, tagged) ==
  changes' = [changes EXCEPT ![c] = Append(@, [change |-> change, tagged |-> tagged])]

\* A client of cluster c writes the row.
Write(c, t) ==
  /\ \A d \in Clusters : \A i \in DOMAIN changes[d] : changes[d][i].change.timestamp # t
  /\ row[c] # NoRow => row[c].timestamp < t
  /\ row' = [row EXCEPT ![c] = Change(c, t)]
  /\ Log(c, Change(c, t), {})
  /\ UNCHANGED <<forwarded, wire, arrived>>

\* should_forward of cluster c, on an entry of its own log.
ShouldForward(c, entry) == c \notin entry.tagged

\* The next entry of the log is forwarded to every peer, or skipped.
Forward(c) ==
  LET entry == changes[c][forwarded[c] + 1]
  IN  /\ forwarded[c] < Len(changes[c])
      /\ forwarded' = [forwarded EXCEPT ![c] = @ + 1]
      /\ wire' = wire \cup {[from |-> c, to |-> p, change |-> entry.change] :
                              p \in {p \in Clusters \ {c} : ShouldForward(c, entry)}}
      /\ UNCHANGED <<row, changes, arrived>>

\* Mutants: the change that arrives wins, always or in a tie.
ResolveToLast(a, b) == "b"
ResolveTieToLast(a, b) == IF a.timestamp > b.timestamp THEN "a" ELSE "b"

\* resolve_conflict: which of its two events it returns.
Resolve(a, b) == IF a.timestamp >= b.timestamp THEN "a" ELSE "b"

\* The cluster that the transaction id of an applied change names.
NamedBy(how, m) == IF how = "applier" THEN m.to ELSE m.change.origin

\* A message arrives, for the first time or again: its change is applied if no
\* row is there or it wins against the one that is.
Deliver(m, how) ==
  LET wins == row[m.to] # NoRow => Resolve(row[m.to], m.change) = "b"
  IN  /\ m \in wire
      /\ arrived' = arrived \cup {m}
      /\ IF wins
         THEN /\ row' = [row EXCEPT ![m.to] = m.change]
              /\ Log(m.to, m.change, Prefixes[NamedBy(how, m)])
         ELSE UNCHANGED <<row, changes>>
      /\ UNCHANGED <<forwarded, wire>>

Next ==
  \/ \E c \in Clusters : Forward(c) \/ \E t \in 1..MaxWrites : Write(c, t)
  \/ \E m \in wire, how \in Tagging : Deliver(m, how)

Spec == Init /\ [][Next]_regionVars

-----------------------------------------------------------------------------
Quiet == wire = arrived /\ \A c \in Clusters : forwarded[c] = Len(changes[c])

\* Last write wins everywhere: when every change was forwarded and every
\* message arrived, in whatever order and however often, all clusters hold the
\* same row.
Converged == Quiet => \A c, d \in Clusters : row[c] = row[d]

\* A loop dies out whichever cluster the tag names: a change that comes back to
\* a cluster that has it, as a copy or as an echo that should_forward let pass,
\* is not applied again, so no log holds it twice.
LoopsDieOut ==
  \A c \in Clusters : \A i, j \in DOMAIN changes[c] :
    changes[c][i].change = changes[c][j].change => i = j

\* "Loop suppression check when EU-West receives echo event tagged with origin
\* us-east-1" (src/tests/multi_cluster_sync_test.rs:37): a change crosses the
\* network only from the cluster it was made in.
NoEcho == \A m \in wire : m.from = m.change.origin
=============================================================================
