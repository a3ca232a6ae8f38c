------------------------------ MODULE MCClusters ------------------------------
(***************************************************************************)
(* The instance of Clusters that TLC checks: the sub-cluster s resolves a  *)
(* host that the configured cluster b resolves too, so that their queries  *)
(* are joined, and b has an endpoint on another host besides.              *)
(***************************************************************************)
EXTENDS Clusters

MCDnsNames == [n \in Clusters |-> IF n = "b" THEN {"x", "y"} ELSE {"x"}]
============================================================================
