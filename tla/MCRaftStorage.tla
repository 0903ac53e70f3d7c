--------------------------- MODULE MCRaftStorage ---------------------------
(* One replica for TLC: a membership change, puts around it, one refused. *)
EXTENDS RaftStorage
=============================================================================
