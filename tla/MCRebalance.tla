---------------------------- MODULE MCRebalance ----------------------------
(* Small instances of Rebalance. *)
EXTENDS Rebalance

CONSTANTS n1, n2, n3, n4, o1, o2

AllNodes == {n1, n2, n3, n4}

\* Two zones of two nodes, each node a host of its own.
Zones == (n1 :> 1) @@ (n2 :> 2) @@ (n3 :> 2) @@ (n4 :> 1)
Hosts == (n1 :> 1) @@ (n2 :> 2) @@ (n3 :> 3) @@ (n4 :> 4)

Ranks == [o \in Object |->
            IF o = o1 THEN (n1 :> 2) @@ (n2 :> 3) @@ (n3 :> 1) @@ (n4 :> 4)
            ELSE (n1 :> 3) @@ (n2 :> 1) @@ (n3 :> 4) @@ (n4 :> 2)]
=============================================================================
