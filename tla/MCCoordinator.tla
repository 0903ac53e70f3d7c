--------------------------- MODULE MCCoordinator ---------------------------
(***************************************************************************)
(* An instance of Coordinator for TLC: three holders; a PUT that tolerates *)
(* one failure, a GET that needs two shards.                               *)
(***************************************************************************)
EXTENDS Coordinator

MCDataShards == [put |-> 1, get |-> 2]
=============================================================================
