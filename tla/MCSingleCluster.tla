---------------------------- MODULE MCSingleCluster ----------------------------
(* Two requests, one with a second configuration; any two of the three clusters    *)
(* fit into the quota and all three do not.                                        *)
EXTENDS SingleCluster

CONSTANTS j1, j2, j3

TwoRequests == {<<j1, j2>>, <<j3>>}
TwoVcpus == [j \in {j1, j2, j3} |-> IF j = j3 THEN 1 ELSE 2]
================================================================================
