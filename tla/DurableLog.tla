----------------------------- MODULE DurableLog -----------------------------
(***************************************************************************)
(* What a replica's disk promises the Raft library                         *)
(* (internal/raftnode): the hard state, the log and the commit index only  *)
(* ever move the way Raft moves them, and a message leaves the node only   *)
(* when everything it vouches for is already on the disk.  Files, frames,  *)
(* snapshots, rotation, crashes and restarts do not exist at this level:   *)
(* whatever they do, it must look like one of the two steps below or like  *)
(* nothing at all.                                                         *)
(***************************************************************************)
EXTENDS Naturals, SequencesExt

VARIABLES
    term,    \* the hard state's term (standing for the pair of term and vote)
    log,     \* the terms of entries 1..Len(log)
    commit,  \* the hard state's commit index
    told     \* what the messages sent so far have vouched for

durable == <<term, log, commit, told>>

Init ==
    /\ term = 0 /\ log = <<>> /\ commit = 0
    /\ told = [term |-> 0, log |-> <<>>]

\* The disk takes a new hard state and new entries: terms and commits never
\* go back, committed entries never change, and an entry disappears only
\* because a leader put a different one at its place.
Accept ==
    /\ term' >= term /\ commit' >= commit /\ commit' <= Len(log')
    /\ SubSeq(log', 1, commit) = SubSeq(log, 1, commit)
    /\ ~IsStrictPrefix(log', log)
    /\ UNCHANGED told

\* The node speaks: what it says is exactly what the disk holds.
Tell ==
    /\ told' = [term |-> term, log |-> log]
    /\ UNCHANGED <<term, log, commit>>

Next == Accept \/ Tell

Spec == Init /\ [][Next]_durable
=============================================================================
