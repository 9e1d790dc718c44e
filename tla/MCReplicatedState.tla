-------------------------- MODULE MCReplicatedState --------------------------
(* Two servers that gossip with each other, one with a slow clock.           *)
EXTENDS ReplicatedState

CONSTANTS n1, n2, t1

MCNodes == {n1, n2}
MCTasks == {t1}
MCPeers == (n1 :> {n2}) @@ (n2 :> {n1})
MCSkew == (n1 :> 0) @@ (n2 :> -2)
=============================================================================
