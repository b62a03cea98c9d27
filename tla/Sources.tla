------------------------------ MODULE Sources ------------------------------
(***************************************************************************)
(* The two change sources: what src/src/source/postgres.rs and             *)
(* src/src/source/cassandra.rs yield as their nth event, reduced to the    *)
(* fields the engine's control depends on.  Both number their events from  *)
(* the checkpoint they are given, so the nth event is the same in every    *)
(* run; ids are the number n, transaction ids the number in "tx-<number>". *)
(***************************************************************************)
EXTENDS Naturals

CONSTANT NoTx

\* Three mutations and a commit per transaction, the first a Create.
PostgresEvent(n) ==
  [id |-> n,
   op |-> CASE n % 4 = 0 -> "Commit" [] n % 4 = 1 -> "Create" [] OTHER -> "Update",
   tx |-> (n - 1) \div 4 + 1000,
   watermark |-> FALSE, conforms |-> TRUE, fits |-> TRUE]

\* Sensor rows outside any transaction.
CassandraEvent(n) ==
  [id |-> n, op |-> "Create", tx |-> NoTx,
   watermark |-> FALSE, conforms |-> TRUE, fits |-> TRUE]

PostgresLog(n)  == [i \in 1..n |-> PostgresEvent(i)]
CassandraLog(n) == [i \in 1..n |-> CassandraEvent(i)]
============================================================================
