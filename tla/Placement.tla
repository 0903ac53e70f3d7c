------------------------------ MODULE Placement ------------------------------
(***************************************************************************)
(* Where the shards of an object live.  A member set is a record           *)
(* [nodes, draining] (internal/place.Layout.Members or .Previous); the     *)
(* placement of a partition at a given width is a sequence of distinct     *)
(* nodes, shard i living on the i-th.  The weighted rendezvous hash is     *)
(* abstracted to a score: any injective ranking of the nodes, fixed for a  *)
(* partition, 1 being the highest.                                         *)
(***************************************************************************)
EXTENDS Integers, FiniteSets, Sequences

CONSTANTS
    Node,   \* the node identities
    Zone,   \* the zone label of each node
    Host    \* the host label of each node

ASSUME LabelsAssumption == DOMAIN Zone = Node /\ DOMAIN Host = Node

\* A member set: the nodes placed on, and those of them being drained.
Memberships == {ms \in [nodes : SUBSET Node, draining : SUBSET Node] :
                   ms.draining \subseteq ms.nodes}

NoMembers == [nodes |-> {}, draining |-> {}]

Active(ms) == ms.nodes \ ms.draining

ActiveCount(ms) == Cardinality(Active(ms))

(***************************************************************************)
(* The greedy spread.                                                      *)
(***************************************************************************)
\* How many of the picks so far carry n's label.
Load(label, picked, n) ==
    Cardinality({i \in DOMAIN picked : label[picked[i]] = label[n]})

\* Drain status first, then zone load, then host load, then rank.
Preferred(ms, score, picked, a, b) ==
    LET key(n) == << IF n \in ms.draining THEN 1 ELSE 0,
                     Load(Zone, picked, n), Load(Host, picked, n), score[n] >>
    IN  \E j \in 1..4 : /\ key(a)[j] < key(b)[j]
                        /\ \A i \in 1..(j - 1) : key(a)[i] = key(b)[i]

NextPick(ms, score, picked) ==
    LET left == ms.nodes \ {picked[i] : i \in DOMAIN picked}
    IN  CHOOSE n \in left : \A o \in left \ {n} : Preferred(ms, score, picked, n, o)

\* spread refuses a width the member set cannot hold on distinct nodes.
Fits(ms, width) == width \in 1..Cardinality(ms.nodes)

Spread(ms, score, width) ==
    LET picks[i \in 0..width] ==
            IF i = 0 THEN << >>
            ELSE Append(picks[i - 1], NextPick(ms, score, picks[i - 1]))
    IN  picks[width]

(***************************************************************************)
(* The storage profiles.                                                   *)
(***************************************************************************)
\* The ladder: k data and m parity shards for a cluster of n active nodes.
AutoProfile(n) ==
    CASE n <= 1      -> [k |-> 1, m |-> 0]
      [] n = 2       -> [k |-> 1, m |-> 1]
      [] n \in {3,4} -> [k |-> 2, m |-> 1]
      [] n = 5       -> [k |-> 3, m |-> 2]
      [] OTHER       -> [k |-> 4, m |-> 2]

\* Small objects are replicated: one data shard, the profile's parity.
Params(profile, small) ==
    IF small /\ profile.k > 1 THEN [profile EXCEPT !.k = 1] ELSE profile

\* Mutant: a PUT is acknowledged on k durable shards.
AckFloor_K(p) == p.k

\* The durable shards a PUT needs before it may be acknowledged.
AckFloor(p) == IF p.m = 0 THEN p.k ELSE p.k + 1
=============================================================================
