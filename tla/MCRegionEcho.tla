---------------------------- MODULE MCRegionEcho ----------------------------
(***************************************************************************)
(* Cross-region sync when the transaction id of an applied change names    *)
(* the cluster the change comes from, as the comment of the test has it.   *)
(***************************************************************************)
EXTENDS RegionSync

MCPrefixes == [c \in Clusters |-> {c}]
=============================================================================
