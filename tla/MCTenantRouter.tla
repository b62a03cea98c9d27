--------------------------- MODULE MCTenantRouter ---------------------------
(***************************************************************************)
(* Two tasks on threads of their own, one tenant beside the database, a  *)
(* default quota of one token and a larger one that may be set.            *)
(***************************************************************************)
EXTENDS TenantRouter

MCThread == [c \in Callers |-> c]
MCHash == [n \in Names |-> IF n \in Tenants THEN 5 ELSE 8]
MCDefaultQuota == [capacity |-> 1, rate |-> 1]
MCQuotas == {[capacity |-> 2, rate |-> 1]}
=============================================================================
