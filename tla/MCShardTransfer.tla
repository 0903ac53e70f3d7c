-------------------------- MODULE MCShardTransfer --------------------------
(* Instances of ShardTransfer for model checking.                          *)
EXTENDS ShardTransfer

CONSTANTS c1, c2

TwoCoords == {c1, c2}
OneCoord == {c1}
OneTransfer == {1}
TwoTransfers == {1, 2}

NoErrors == {}

\* The failures that the receiver answers without breaking its promise.
HandledErrors == {"append", "write", "sync", "mark", "remove"}

=============================================================================
