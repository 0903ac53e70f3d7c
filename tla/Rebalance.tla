------------------------------ MODULE Rebalance ------------------------------
(***************************************************************************)
(* How the cluster moves data when its membership changes: the node        *)
(* registry and the cluster layout committed through Raft, the leader's    *)
(* reconcile loop that opens and closes layout transitions, the sweeps     *)
(* that migrate, rebuild and re-encode shards, and the PUTs and deletes    *)
(* that run meanwhile (internal/cluster/layout.go and control.go,          *)
(* internal/coord/repair.go, reencode.go, scrub.go and put.go).            *)
(*                                                                         *)
(* The replicated store is one copy here: CommitPath is about replication. *)
(* A proposal sits in log between Propose and its apply; a proposal whose  *)
(* leader was deposed may be lost.  A call to a node that is down fails.   *)
(***************************************************************************)
EXTENDS Placement, FiniteSetsExt, TLC

CONSTANTS
    None,          \* no leader, no entry, no PUT
    Founders,      \* the members the cluster starts with
    Coordinators,  \* the nodes that may lead
    Object,        \* object versions, each of its own partition
    Multipart,     \* those uploaded in parts (one part each)
    Small,         \* those below the small-object threshold
    Score,         \* [Object -> [Node -> rank]], the rendezvous ranking
    MaxVersion,    \* bound on layout versions
    Issuer,        \* the founder that leads first and knows every node's labels
    MaxFaults,     \* bound on depositions, node outages and shards rotting
    MaxData,       \* bound on data ids (PUTs and re-encodes)
    MaxOps         \* bound on drains, replacements and deletes

ASSUME RebalanceAssumption ==
    /\ Founders \subseteq Node /\ Founders # {} /\ Issuer \in Coordinators
    /\ Coordinators \subseteq Founders
    /\ Multipart \subseteq Object /\ Small \subseteq Object
    /\ Score \in [Object -> [Node -> Nat]]

VARIABLES
    member,    \* the Raft membership
    removed,   \* nodes that were members and left
    reg,       \* the node registry: known, draining, replacedBy
    layout,    \* the committed layout: version, members, previous
    log,       \* proposals made and not yet applied
    removing,  \* membership removals proposed and not yet applied
    leader,
    entry,     \* the committed version entry of each object
    disk,      \* committed shards <<data id, index, node>>
    rotten,    \* those whose payload no longer matches its checksum
    up,        \* the nodes that answer
    sweep,     \* each coordinator's sweep
    put,       \* the PUT in flight on each object
    used,      \* what has been spent of the bounds
    gap        \* history: objects that met one of the windows named below

cvars == << member, removed, reg, removing, leader >>
dvars == << entry, disk, rotten, put >>
vars  == << cvars, layout, log, dvars, up, sweep, used, gap >>

(***************************************************************************)
(* Placement of object o at width w, tabulated once.                       *)
(***************************************************************************)
Home == CHOOSE table \in {[o \in Object |-> [ms \in Memberships |->
                             [w \in 1..Cardinality(ms.nodes) |-> Spread(ms, Score[o], w)]]]} :
            table = table

Width(e) == e.k + e.m

Shard(e, i, n) == << e.did, i, n >>

Profile(o, ms) == Params(AutoProfile(ActiveCount(ms)), o \in Small)

Open == layout.previous # NoMembers

\* Locate fails when either member set is narrower than the object.
Locatable(w) == Fits(layout.members, w) /\ (Open => Fits(layout.previous, w))

\* The old home of each shard, empty in steady state.
OldHome(o, w) == IF Open THEN Home[o][layout.previous][w] ELSE << >>

\* Where a reader looks for shard i: the new home, then the old one.
Candidates(o, e, i) ==
    {Home[o][layout.members][Width(e)][i]}
        \cup (IF Open THEN {Home[o][layout.previous][Width(e)][i]} ELSE {})

Intact(e, i, n) == Shard(e, i, n) \in disk \ rotten

Stored == {o \in Object : entry[o] # None}

Whole == Object \ Multipart

\* A GET succeeds on k shards found through Locate that decode to the bytes.
Readable(o, avail) ==
    LET e == entry[o]
    IN  /\ e.pure
        /\ Locatable(Width(e))
        /\ e.k <= Cardinality({i \in 1..Width(e) :
                     \E n \in Candidates(o, e, i) \cap avail : Intact(e, i, n)})

Spend(what) == used' = [used EXCEPT ![what] = @ + 1]

(***************************************************************************)
(* Nodes, elections and shards failing.                                    *)
(***************************************************************************)
\* A vacancy is always filled; a sitting leader may be deposed.
Elect(n) ==
    /\ n \in (Coordinators \cap member \cap up) \ {leader}
    /\ leader' = n
    /\ IF leader = None THEN UNCHANGED used
       ELSE used.faults < MaxFaults /\ Spend("faults")
    /\ UNCHANGED << member, removed, reg, removing, layout, log, dvars, up, sweep, gap >>

\* A process stops: its sweep dies with it.
NodeDown(n) ==
    /\ n \in up \cap member /\ used.faults < MaxFaults
    /\ up' = up \ {n}
    /\ leader' = IF leader = n THEN None ELSE leader
    /\ sweep' = [c \in Coordinators |-> IF c = n THEN [pc |-> "idle"] ELSE sweep[c]]
    /\ Spend("faults")
    /\ UNCHANGED << member, removed, reg, removing, layout, log, dvars, gap >>

NodeUp(n) ==
    /\ n \notin up
    /\ up' = up \cup {n}
    /\ UNCHANGED << cvars, layout, log, dvars, sweep, used, gap >>

Rot(s) ==
    /\ s \in disk \ rotten /\ used.faults < MaxFaults
    /\ rotten' = rotten \cup {s}
    /\ Spend("faults")
    /\ UNCHANGED << cvars, layout, log, entry, disk, put, up, sweep, gap >>

\* A deposed leader's proposal that never commits.
Lose(p) ==
    /\ p \in log /\ p.by # leader
    /\ log' = log \ {p}
    /\ UNCHANGED << cvars, layout, dvars, up, sweep, used, gap >>

(***************************************************************************)
(* Membership and the operator's requests.                                 *)
(***************************************************************************)
Unregistered == [known |-> FALSE, draining |-> FALSE, replacedBy |-> None]

Join(n) ==
    /\ n \in Node \ (member \cup removed) /\ leader # None
    /\ member' = member \cup {n}
    /\ UNCHANGED << removed, reg, removing, leader, layout, log, dvars, up, sweep, used, gap >>

\* The leader commits the registration of a member whose labels it knows.
Register(n) ==
    /\ n \in member /\ leader \in {Issuer, n} /\ ~reg[n].known
    /\ reg' = [reg EXCEPT ![n] = [Unregistered EXCEPT !.known = TRUE]]
    /\ UNCHANGED << member, removed, removing, leader, layout, log, dvars, up, sweep, used, gap >>

\* A transition, a drain or a replacement of a node other than the one asked for.
LayoutOpInProgress(except) ==
    Open \/ \E n \in Node \ except : reg[n].draining \/ reg[n].replacedBy # None

Propose(p) == log' = log \cup {p}

SetDraining(n, on) ==
    /\ leader # None /\ used.ops < MaxOps
    /\ on => ~LayoutOpInProgress({n})
    /\ reg[n].known /\ reg[n].draining # on
    /\ Propose([kind |-> "drain", by |-> leader, node |-> n, on |-> on])
    /\ Spend("ops")
    /\ UNCHANGED << cvars, layout, dvars, up, sweep, gap >>

Replace(old, new) ==
    /\ leader # None /\ used.ops < MaxOps
    /\ old \in member /\ reg[old].known /\ new \in Node \ (member \cup removed)
    /\ ~LayoutOpInProgress({})
    /\ Propose([kind |-> "replace", by |-> leader, node |-> old, new |-> new])
    /\ Spend("ops")
    /\ UNCHANGED << cvars, layout, dvars, up, sweep, gap >>

ApplyRegistry(p) ==
    /\ p \in log
    /\ \/ p.kind = "drain" /\ reg' = [reg EXCEPT ![p.node].draining = p.on]
       \/ p.kind = "replace" /\ reg' = [reg EXCEPT ![p.node].replacedBy = p.new]
    /\ log' = log \ {p}
    /\ UNCHANGED << member, removed, removing, leader, layout, dvars, up, sweep, used, gap >>

MaxStoredWidth == Max({0} \cup {Width(entry[o]) : o \in Stored \cap Whole})

\* Only a drained node, and only once every object fits the others.
RemoveBlocked(n) ==
    \/ Open
    \/ n \notin layout.members.draining
    \/ MaxStoredWidth > ActiveCount(layout.members)

Remove(n) ==
    /\ leader # None /\ n \in member \ {leader}
    /\ ~RemoveBlocked(n)
    /\ removing' = removing \cup {n}
    /\ UNCHANGED << member, removed, reg, leader, layout, log, dvars, up, sweep, used, gap >>

\* The removal commits and the id is tombstoned.  One window: the node was
\* undrained, and placed on again, after the interlock let the removal pass.
ApplyRemove(n) ==
    /\ n \in removing
    /\ member' = member \ {n} /\ removed' = removed \cup {n}
    /\ removing' = removing \ {n}
    /\ leader' = IF leader = n THEN None ELSE leader
    /\ gap' = IF n \in Active(layout.members) THEN gap \cup Stored ELSE gap
    /\ UNCHANGED << reg, layout, log, dvars, up, sweep, used >>

(***************************************************************************)
(* The reconcile loop of the leader.                                       *)
(***************************************************************************)
\* Every member, less the ones whose replacement has joined.
DesiredLayout ==
    LET nodes == {n \in member : reg[n].replacedBy \notin member}
    IN  [nodes |-> nodes, draining |-> {n \in nodes : reg[n].draining}]

\* Mutant: the layout is composed before every member is registered.
HaveDesired_Unregistered == DesiredLayout.nodes # {}

HaveDesired == (\A n \in member : reg[n].known) /\ DesiredLayout.nodes # {}

LayoutSettled == ~Open /\ HaveDesired /\ layout.members = DesiredLayout

SubtractiveLayout(old, new) == \E n \in Active(old) : n \notin Active(new)

HasStoredObjects == Stored \cap Whole # {}

\* A replaced node whose swap transition has closed.
Evictable == {n \in member : reg[n].replacedBy \in member /\ n \notin layout.members.nodes}

EvictReplaced(n) ==
    /\ leader # None /\ ~Open /\ HaveDesired
    /\ n \in Evictable
    /\ removing' = removing \cup {n}
    /\ UNCHANGED << member, removed, reg, leader, layout, log, dvars, up, sweep, used, gap >>

ReconcileLayout ==
    /\ leader # None /\ ~Open /\ HaveDesired /\ Evictable = {}
    /\ layout.members # DesiredLayout /\ layout.version < MaxVersion
    /\ LET previous == IF \/ SubtractiveLayout(layout.members, DesiredLayout)
                          \/ HasStoredObjects
                       THEN layout.members ELSE NoMembers
       IN  Propose([kind |-> "layout", by |-> leader, covered |-> TRUE,
                    layout |-> [version  |-> layout.version + 1,
                                members  |-> DesiredLayout,
                                previous |-> previous]])
    /\ UNCHANGED << cvars, layout, dvars, up, sweep, used, gap >>

\* Mutant: the version is not compared.
ApplyLayout_NoCompare(p) ==
    /\ p \in log /\ p.kind = "layout"
    /\ log' = log \ {p}
    /\ IF p.layout.version # layout.version
       THEN /\ layout' = p.layout
            /\ gap' = gap \cup {o \in Stored :
                            \/ ~p.covered
                            \/ ~Open /\ p.layout.previous = NoMembers
                            \/ ~Fits(p.layout.members, Width(entry[o]))
                            \/ ~(Active(p.layout.members) \subseteq member)}
       ELSE UNCHANGED << layout, gap >>
    /\ UNCHANGED << cvars, dvars, up, sweep, used >>

\* Compare-and-set on the version.  Four windows: a close proposed by a sweep
\* that did not run under the transition it closes, a swap without a transition
\* decided before an object was stored, a member set narrower than a stored
\* object (two replacements accepted at once that name the same new node), and
\* one composed with a node that has been removed since.
ApplyLayout(p) ==
    /\ p \in log /\ p.kind = "layout"
    /\ log' = log \ {p}
    /\ IF p.layout.version = layout.version + 1
       THEN /\ layout' = p.layout
            /\ gap' = gap \cup {o \in Stored :
                            \/ ~p.covered
                            \/ ~Open /\ p.layout.previous = NoMembers
                            \/ ~Fits(p.layout.members, Width(entry[o]))
                            \/ ~(Active(p.layout.members) \subseteq member)}
       ELSE UNCHANGED << layout, gap >>
    /\ UNCHANGED << cvars, dvars, up, sweep, used >>

(***************************************************************************)
(* PUT and delete.                                                         *)
(***************************************************************************)
\* An object committed where no sweep of the current layout will look for
\* it: placed by a layout since replaced, on a node
\* being removed, or too late for the sweep under way.
Strays(o, w, nodes) ==
    \/ ~Locatable(w)
    \/ \E i \in 1..w : nodes[i] \notin member \ removing
    \/ /\ nodes # Home[o][layout.members][w]
       /\ \/ nodes # OldHome(o, w)
          \/ \E c \in Coordinators : sweep[c].pc # "idle"
          \/ \E p \in log : p.kind = "layout"

PutBegin(o) ==
    /\ entry[o] = None /\ put[o] = None /\ used.data < MaxData
    /\ LET p == Profile(o, layout.members)
       IN  put' = [put EXCEPT ![o] =
                     [did |-> used.data + 1, k |-> p.k, m |-> p.m,
                      nodes |-> Home[o][layout.members][p.k + p.m]]]
    /\ Spend("data")
    /\ UNCHANGED << cvars, layout, log, entry, disk, rotten, up, sweep, gap >>

\* Enough shards become durable and the entry commits, or the PUT is refused.
PutEnd(o) ==
    /\ put[o] # None
    /\ put' = [put EXCEPT ![o] = None]
    /\ LET p == put[o]
           reached == {i \in 1..(p.k + p.m) : p.nodes[i] \in up}
       IN  \/ \E landed \in SUBSET reached :
                /\ Cardinality(landed) >= AckFloor(p)
                /\ disk' = disk \cup {<< p.did, i, p.nodes[i] >> : i \in landed}
                /\ entry' = [entry EXCEPT ![o] = [vid |-> p.did, did |-> p.did, k |-> p.k,
                                                  m |-> p.m, pure |-> TRUE]]
                /\ gap' = IF Strays(o, p.k + p.m, p.nodes) THEN gap \cup {o} ELSE gap \ {o}
           \/ Cardinality(reached) < AckFloor(p) /\ UNCHANGED << disk, entry, gap >>
    /\ UNCHANGED << cvars, layout, log, rotten, up, sweep, used >>

\* The entry goes; its shards are deleted where the new placement puts them.
DeleteObject(o) ==
    /\ entry[o] # None /\ used.ops < MaxOps
    /\ LET e == entry[o]
           held == IF Fits(layout.members, Width(e))
                   THEN {Shard(e, i, Home[o][layout.members][Width(e)][i]) : i \in 1..Width(e)}
                   ELSE {}
           reached == {s \in held : s[3] \in up}
       IN  disk' = disk \ reached /\ rotten' = rotten \ reached
    /\ entry' = [entry EXCEPT ![o] = None]
    /\ Spend("ops")
    /\ UNCHANGED << cvars, layout, log, put, up, sweep, gap >>

(***************************************************************************)
(* Sweeps.  A sweep snapshots its work and handles one object at a time.   *)
(***************************************************************************)
Idle == [pc |-> "idle"]

Goto(n, s) == sweep' = [sweep EXCEPT ![n] = s]

\* The rest of a sweep's state, between items.
Between(s) == [pc |-> "next", kind |-> s.kind, work |-> s.work, moved |-> s.moved,
               failed |-> s.failed, seen |-> s.seen]

Failed(s)  == [Between(s) EXCEPT !.failed = TRUE]
Moved(s)   == [s EXCEPT !.moved = TRUE]

CollectSweepWork == [o \in Stored \cap Whole |-> entry[o]]

Begin(n, kind, work) ==
    /\ n = leader /\ sweep[n] = Idle
    /\ Goto(n, [pc |-> "next", kind |-> kind, work |-> work, moved |-> FALSE,
                failed |-> FALSE, seen |-> layout.version])
    /\ UNCHANGED << cvars, layout, log, dvars, up, used, gap >>

DriveTransition(n) ==
    /\ Open /\ HaveDesired
    /\ Begin(n, "drive", CollectSweepWork)

\* The background scrubber takes one object at a time, in steady state.
ScrubTick(n) ==
    /\ ~Open
    /\ \E o \in Stored \cap Whole : Begin(n, "scrub", [x \in {o} |-> entry[x]])

Optimize(n) ==
    /\ \A m \in Node : ~reg[m].draining /\ reg[m].replacedBy = None
    /\ LayoutSettled
    /\ Begin(n, "optimize", CollectSweepWork)

\* Mutant: a sweep that failed an object closes the transition.
SweepEnd_IgnoresFailed(n) ==
    /\ sweep[n].pc = "next" /\ DOMAIN sweep[n].work = {}
    /\ LET s == sweep[n]
       IN  IF s.kind = "drive" /\ ~s.moved /\ Open /\ n = leader
           THEN Propose([kind |-> "layout", by |-> n, covered |-> s.seen = layout.version,
                         layout |-> [version  |-> layout.version + 1,
                                     members  |-> layout.members,
                                     previous |-> NoMembers]])
           ELSE UNCHANGED log
    /\ Goto(n, Idle)
    /\ UNCHANGED << cvars, layout, dvars, up, used, gap >>

\* Close the transition after a sweep that found nothing to do.
SweepEnd(n) ==
    /\ sweep[n].pc = "next" /\ DOMAIN sweep[n].work = {}
    /\ LET s == sweep[n]
       IN  IF s.kind = "drive" /\ ~s.moved /\ ~s.failed /\ Open /\ n = leader
           THEN Propose([kind |-> "layout", by |-> n, covered |-> s.seen = layout.version,
                         layout |-> [version  |-> layout.version + 1,
                                     members  |-> layout.members,
                                     previous |-> NoMembers]])
           ELSE UNCHANGED log
    /\ Goto(n, Idle)
    /\ UNCHANGED << cvars, layout, dvars, up, used, gap >>

\* Read the layout and route the item: re-encode it, or verify its shards.
NextItem(n) ==
    /\ sweep[n].pc = "next"
    /\ \E o \in DOMAIN sweep[n].work :
         LET e == sweep[n].work[o]
             w == Width(e)
             to == Profile(o, layout.members)
             tw == to.k + to.m
             s == [sweep[n] EXCEPT !.work = [x \in DOMAIN @ \ {o} |-> @[x]],
                                   !.seen = IF @ = layout.version THEN @ ELSE 0]
             item == [o |-> o, e |-> e, old |-> OldHome(o, w)]
         IN  IF \/ w > ActiveCount(layout.members)
                \/ s.kind = "optimize" /\ tw > w
             THEN IF ~Locatable(w) THEN Goto(n, Failed(s)) /\ UNCHANGED used
                  ELSE /\ used.data < MaxData /\ Spend("data")
                       /\ Goto(n, [s EXCEPT !.pc = "probe"] @@ item @@
                               [read |-> IF Open THEN item.old
                                         ELSE Home[o][layout.members][w],
                                new  |-> Home[o][layout.members][tw],
                                to   |-> [vid |-> e.vid, did |-> used.data + 1,
                                          k |-> to.k, m |-> to.m, pure |-> e.pure]])
             ELSE /\ UNCHANGED used
                  /\ IF ~Locatable(w) THEN Goto(n, Failed(s))
                     ELSE Goto(n, [s EXCEPT !.pc = "verify"] @@ item @@
                               [new |-> Home[o][layout.members][w]])
    /\ UNCHANGED << cvars, layout, log, dvars, up, gap >>

\* The shards of e that verify clean at the homes given, and the ones that answer wrong.
VerifiedAt(e, homes, among) == {i \in among : homes[i] \in up /\ Intact(e, i, homes[i])}
RottedAt(e, homes) == {i \in 1..Width(e) : homes[i] \in up /\ Shard(e, i, homes[i]) \in rotten}

\* classify and migrate: healthy, beyond help, or shards to copy and to rebuild.
Classify(n, s, good, goodOld, rot) ==
    LET lost == 1..Width(s.e) \ (good \cup goodOld)
    IN  IF good = 1..Width(s.e) THEN Goto(n, Between(s))
        ELSE IF lost # {} /\ Cardinality(good \cup goodOld) < s.e.k THEN Goto(n, Failed(s))
        ELSE Goto(n, [s EXCEPT !.pc = "heal"] @@
                     [good |-> good, goodOld |-> goodOld, rot |-> rot,
                      copies |-> goodOld, lost |-> lost])

VerifyNew(n) ==
    /\ sweep[n].pc = "verify"
    /\ LET s == sweep[n]
           good == VerifiedAt(s.e, s.new, 1..Width(s.e))
           rot == RottedAt(s.e, s.new)
       IN  IF s.old = << >> THEN Classify(n, s, good, {}, rot)
           ELSE Goto(n, [s EXCEPT !.pc = "verifyOld"] @@ [good |-> good, rot |-> rot])
    /\ UNCHANGED << cvars, layout, log, dvars, up, used, gap >>

VerifyOld(n) ==
    /\ sweep[n].pc = "verifyOld"
    /\ LET s == sweep[n]
       IN  Classify(n, s, s.good, VerifiedAt(s.e, s.old, 1..Width(s.e) \ s.good), s.rot)
    /\ UNCHANGED << cvars, layout, log, dvars, up, used, gap >>

\* Write shard i at its new home.  A committed shard is immutable: a rotted
\* one is deleted first, any other is acknowledged as it stands.
InstallShard(s, i) ==
    LET key == Shard(s.e, i, s.new[i])
    IN  /\ disk' = disk \cup {key}
        /\ rotten' = IF i \in s.rot THEN rotten \ {key} ELSE rotten

\* Copy one shard whole from its old home.
MigrateCopy(n) ==
    /\ sweep[n].pc = "heal" /\ sweep[n].copies # {}
    /\ LET s == sweep[n]
           i == Min(s.copies)
           left == [s EXCEPT !.copies = @ \ {i}]
       IN  IF /\ {s.old[i], s.new[i]} \subseteq up
              /\ Intact(s.e, i, s.old[i])
           THEN /\ InstallShard(s, i)
                /\ Goto(n, Moved(IF left.copies = {} /\ s.lost = {} THEN Between(left) ELSE left))
           ELSE Goto(n, Failed(s)) /\ UNCHANGED << disk, rotten >>
    /\ UNCHANGED << cvars, layout, log, entry, put, up, used, gap >>

\* The first k of a set of shard indexes.
FirstK(S, k) == {i \in S : Cardinality({j \in S : j <= i}) <= k}

\* Fetch k survivors, from wherever each verified, and rebuild the lost ones.
FetchSources(n) ==
    /\ sweep[n].pc = "heal" /\ sweep[n].copies = {}
    /\ LET s == sweep[n]
           from(i) == IF i \in s.good THEN s.new[i] ELSE s.old[i]
       IN  IF \A i \in FirstK(s.good \cup s.goodOld, s.e.k) :
                  from(i) \in up /\ Intact(s.e, i, from(i))
           THEN Goto(n, [s EXCEPT !.pc = "install"])
           ELSE Goto(n, Failed(s))
    /\ UNCHANGED << cvars, layout, log, dvars, up, used, gap >>

InstallRebuilt(n) ==
    /\ sweep[n].pc = "install"
    /\ LET s == sweep[n]
           i == Min(s.lost)
           left == [s EXCEPT !.lost = @ \ {i}]
       IN  IF s.new[i] \in up
           THEN /\ InstallShard(s, i)
                /\ Goto(n, Moved(IF left.lost = {} THEN Between(left) ELSE left))
           ELSE Goto(n, Failed(s)) /\ UNCHANGED << disk, rotten >>
    /\ UNCHANGED << cvars, layout, log, entry, put, up, used, gap >>

(***************************************************************************)
(* Re-encoding an object to another profile.                               *)
(***************************************************************************)
\* Probe and fetch the first k shards that are there.  Nothing compares them
\* with the checksums of the entry, so a rotten one goes into the new shards.
ReEncodeFetch(n) ==
    /\ sweep[n].pc = "probe"
    /\ LET s == sweep[n]
           present == {i \in 1..Width(s.e) : s.read[i] \in up /\ Shard(s.e, i, s.read[i]) \in disk}
           clean == \A i \in FirstK(present, s.e.k) : Intact(s.e, i, s.read[i])
       IN  IF Cardinality(present) < s.e.k THEN Goto(n, Failed(s))
           ELSE Goto(n, [s EXCEPT !.pc = "write", !.to.pure = @ /\ clean])
    /\ UNCHANGED << cvars, layout, log, dvars, up, used, gap >>

NewShards(s) == {Shard(s.to, i, s.new[i]) : i \in 1..Width(s.to)}

\* Every new shard must be durable.
ReEncodeWrite(n) ==
    /\ sweep[n].pc = "write"
    /\ LET s == sweep[n]
       IN  IF {s.new[i] : i \in 1..Width(s.to)} \subseteq up
           THEN disk' = disk \cup NewShards(s) /\ Goto(n, [s EXCEPT !.pc = "commit"])
           ELSE UNCHANGED disk /\ Goto(n, Failed(s))
    /\ UNCHANGED << cvars, layout, log, entry, rotten, put, up, used, gap >>

Discard(shards) ==
    LET reached == {s \in shards : s[3] \in up}
    IN  disk' = disk \ reached /\ rotten' = rotten \ reached

\* The version switches to the new shards and the old ones are dropped.
ReEncodeCommit(n) ==
    /\ sweep[n].pc = "commit"
    /\ LET s == sweep[n]
           o == s.o
       IN  IF entry[o] # None /\ entry[o].vid = s.e.vid
           THEN /\ entry' = [entry EXCEPT ![o] = s.to]
                /\ Discard({Shard(s.e, i, s.read[i]) : i \in 1..Width(s.e)})
                /\ Goto(n, Moved(Between(s)))
                /\ gap' = IF Strays(o, Width(s.to), s.new) \/ ~s.to.pure
                          THEN gap \cup {o} ELSE gap
           ELSE /\ Discard(NewShards(s)) /\ Goto(n, Failed(s))
                /\ UNCHANGED << entry, gap >>
    /\ UNCHANGED << cvars, layout, log, put, up, used >>

\* The proposer is told its leader is gone: the new shards are discarded,
\* though the switch may have committed.
ReEncodeError(n) ==
    /\ sweep[n].pc = "commit" /\ n # leader
    /\ LET s == sweep[n]
           o == s.o
       IN  /\ \/ UNCHANGED << entry, gap >>
              \/ /\ entry[o] # None /\ entry[o].vid = s.e.vid
                 /\ entry' = [entry EXCEPT ![o] = s.to]
                 /\ gap' = gap \cup {o}
           /\ Discard(NewShards(s))
           /\ Goto(n, Failed(s))
    /\ UNCHANGED << cvars, layout, log, put, up, used >>

-----------------------------------------------------------------------------
Init ==
    /\ member = Founders /\ removed = {}
    /\ reg = [n \in Node |-> [Unregistered EXCEPT !.known = n \in Founders]]
    /\ layout = [version |-> 1, members |-> [nodes |-> Founders, draining |-> {}],
                 previous |-> NoMembers]
    /\ log = {} /\ removing = {}
    /\ leader = Issuer
    /\ entry = [o \in Object |-> None] /\ put = [o \in Object |-> None]
    /\ disk = {} /\ rotten = {}
    /\ up = Node
    /\ sweep = [n \in Coordinators |-> Idle]
    /\ used = [faults |-> 0, ops |-> 0, data |-> 0]
    /\ gap = {}

SweepStep(n) ==
    \/ NextItem(n) \/ VerifyNew(n) \/ VerifyOld(n) \/ MigrateCopy(n) \/ FetchSources(n)
    \/ InstallRebuilt(n) \/ ReEncodeFetch(n) \/ ReEncodeWrite(n) \/ ReEncodeCommit(n)
    \/ ReEncodeError(n) \/ SweepEnd(n)

Next ==
    \/ \E n \in Node : \/ NodeDown(n) \/ NodeUp(n) \/ Join(n) \/ Register(n)
                       \/ Remove(n) \/ ApplyRemove(n) \/ EvictReplaced(n)
                       \/ \E on \in BOOLEAN : SetDraining(n, on)
                       \/ \E new \in Node : Replace(n, new)
    \/ \E n \in Coordinators : \/ Elect(n) \/ SweepStep(n)
                               \/ DriveTransition(n) \/ ScrubTick(n) \/ Optimize(n)
    \/ \E p \in log : Lose(p) \/ ApplyRegistry(p) \/ ApplyLayout(p)
    \/ \E o \in Object : PutBegin(o) \/ PutEnd(o) \/ DeleteObject(o)
    \/ \E s \in disk : Rot(s)
    \/ ReconcileLayout

Spec == Init /\ [][Next]_vars

-----------------------------------------------------------------------------
(***************************************************************************)
(* Properties.                                                             *)
(***************************************************************************)
Entries == [vid : 1..MaxData, did : 1..MaxData, k : 1..4, m : 0..2, pure : BOOLEAN]

\* Layouts name registered nodes, shards name nodes, entries have a profile.
TypeOK ==
    /\ member \subseteq Node /\ removed \subseteq Node \ member /\ removing \subseteq Node
    /\ reg \in [Node -> [known : BOOLEAN, draining : BOOLEAN, replacedBy : Node \cup {None}]]
    /\ {layout.members, layout.previous} \subseteq Memberships
    /\ \A n \in layout.members.nodes : reg[n].known
    /\ leader \in Coordinators \cup {None} /\ (leader # None => leader \in member)
    /\ entry \in [Object -> Entries \cup {None}]
    /\ disk \subseteq (1..MaxData) \X (1..6) \X Node /\ rotten \subseteq disk
    /\ DOMAIN sweep = Coordinators /\ up \subseteq Node /\ gap \subseteq Object

\* No more shards of an object have rotted than its parity covers.
Tolerable(o) == Cardinality({s \in rotten : s[1] = entry[o].did}) <= entry[o].m

\* An acknowledged object stays readable from the current members through
\* every join, drain, replacement, removal, re-encode, leader change and
\* outage, unless it met one of the windows recorded in gap.
ReadableUnlessGap ==
    \A o \in (Stored \cap Whole) \ gap : Tolerable(o) => Readable(o, member)

\* One transition at a time: a layout replaces exactly the one it was composed
\* from, an open transition is only ever closed, and a new one keeps as its
\* previous members the ones it moves away from.
LayoutsChain ==
    [][layout' # layout =>
         /\ layout'.version = layout.version + 1
         /\ Open => layout'.members = layout.members /\ layout'.previous = NoMembers
         /\ layout'.previous \in {NoMembers, layout.members}]_vars

\* canStop's verdict for node n: every other member answers, no transition is
\* open, and the remaining voters are a majority.
CanStop(n) ==
    /\ n \in member /\ member \ {n} \subseteq up
    /\ ~Open
    /\ Cardinality(member) - 1 >= (Cardinality(member) \div 2) + 1

\* Stopping the node canStop clears drops no object with parity below its
\* read floor, when no shard has rotted and the layout names members only.
CanStopIsSafe ==
    \A n \in member : CanStop(n) /\ layout.members.nodes \subseteq member =>
        \A o \in (Stored \cap Whole) \ gap :
            entry[o].m >= 1 /\ rotten = {} => Readable(o, member \ {n})
=============================================================================
