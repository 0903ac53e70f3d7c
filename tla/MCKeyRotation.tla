--------------------------- MODULE MCKeyRotation ---------------------------
(* Values for the TLC runs of KeyRotation. *)
EXTENDS KeyRotation

CONSTANTS n1, n2, r1, r2

OneNode == {n1}
TwoNodes == {n1, n2}
OneRow == {r1}
TwoRows == {r1, r2}
NoPart == {}
TwoKeys == {1, 2}
ThreeKeys == {1, 2, 3}
============================================================================
