---------------------------- MODULE MCCommitPath ----------------------------
(* Model values for the TLC runs of CommitPath. *)
EXTENDS CommitPath, TLC

CONSTANTS n1, n2, n3, p, q

TwoNodes == {n1, n2}
ThreeNodes == {n1, n2, n3}
OnePut == {p}
TwoPuts == {p, q}
NoneRefused == {}
OneRefused == {q}
Elections == {"election"}
Losses == {"loss"}
Timeouts == {"timeout"}
LossesAndTimeouts == {"loss", "timeout"}
NodeSymmetry == Permutations({n1, n2, n3})
=============================================================================
