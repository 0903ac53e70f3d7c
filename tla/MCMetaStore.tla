---------------------------- MODULE MCMetaStore ----------------------------
(* Model values for the TLC runs of MetaStore. *)
EXTENDS MetaStore

CONSTANTS b1, k1

OneBucket == {b1}
OneKey == {k1}
NoParts == {}
TwoParts == 1..2
NoModes == {}
BothModes == {"Governance", "Compliance"}
Unlockable == {FALSE}
Either == BOOLEAN
OneDuration == {1}
NoDuration == {}
============================================================================
