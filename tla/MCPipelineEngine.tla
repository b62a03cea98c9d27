-------------------------- MODULE MCPipelineEngine --------------------------
(***************************************************************************)
(* The engine as main starts it: the Postgres task and the Cassandra task, *)
(* on prefixes of what the two sources really yield.                       *)
(***************************************************************************)
EXTENDS Pipeline

CONSTANTS PgEvents, CassEvents   \* bounds: how much of each log is read

S == INSTANCE Sources

MCTasks   == {"postgres_users", "cassandra_sensors"}
MCGuarded == {"postgres_users"}
MCIds     == 1..(PgEvents + CassEvents)
MCTxs     == {1000, 1001}
MCLog     == [t \in MCTasks |-> IF t = "postgres_users"
                                THEN S!PostgresLog(PgEvents)
                                ELSE S!CassandraLog(CassEvents)]
=============================================================================
