------------------------------ MODULE MCTrust ------------------------------
(* Two founders and one node that joins, in at most two attempts.           *)
EXTENDS Trust
=============================================================================
