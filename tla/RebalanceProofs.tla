--------------------------- MODULE RebalanceProofs ---------------------------
(***************************************************************************)
(* Layouts replace each other one at a time, for every cluster, ranking,   *)
(* number of objects and order of elections, outages and proposals.  The   *)
(* apply only compares versions; that a proposal which passes the          *)
(* comparison was composed from the layout it replaces is an invariant of  *)
(* the proposals in flight.                                                *)
(***************************************************************************)
EXTENDS Rebalance, TLAPS

\* A layout that may follow the present one: an open transition is closed, a
\* settled layout is left with its members kept as previous, or dropped.
Follows(next) ==
    /\ Open => next.members = layout.members /\ next.previous = NoMembers
    /\ next.previous \in {NoMembers, layout.members}

\* No proposal is ahead of the next version, and one for the next version
\* was composed from the layout as it is now.
ProposalsFollow ==
    /\ layout.version \in Nat
    /\ \A p \in log : p.kind = "layout" =>
         /\ p.layout.version \in Nat /\ p.layout.version <= layout.version + 1
         /\ p.layout.version = layout.version + 1 => Follows(p.layout)

\* A step that keeps the layout and proposes no layout.
Quiet ==
    /\ layout' = layout
    /\ \A p \in log' : p.kind = "layout" => p \in log

\* A step that proposes a successor of the layout it leaves in place.
Proposes ==
    /\ layout' = layout
    /\ \E next : /\ next.version = layout.version + 1 /\ Follows(next)
                 /\ \A p \in log' : p.kind = "layout" => p \in log \/ p.layout = next

\* A step that applies a layout for the next version.
Applies ==
    \E p \in log : /\ p.kind = "layout" /\ log' = log \ {p}
                   /\ p.layout.version = layout.version + 1 /\ layout' = p.layout

LEMMA InitFollows == Init => ProposalsFollow
  BY DEF Init, ProposalsFollow

\* reconcileLayout composes a layout only while no transition is open.
LEMMA ReconcileProposes == ASSUME ReconcileLayout PROVE Proposes
  <1>1. PICK previous \in {NoMembers, layout.members} :
          log' = log \cup {[kind |-> "layout", by |-> leader, covered |-> TRUE,
                            layout |-> [version  |-> layout.version + 1,
                                        members  |-> DesiredLayout,
                                        previous |-> previous]]}
    BY DEF ReconcileLayout, Propose
  <1>2. layout' = layout /\ ~Open
    BY DEF ReconcileLayout
  <1>. DEFINE next == [version |-> layout.version + 1, members |-> DesiredLayout,
                       previous |-> previous]
  <1>3. next.version = layout.version + 1 /\ Follows(next)
    BY <1>2 DEF Follows
  <1>4. \A p \in log' : p.kind = "layout" => p \in log \/ p.layout = next
    BY <1>1
  <1>. QED
    BY <1>2, <1>3, <1>4 DEF Proposes

\* closeTransition keeps the members and drops the previous ones.
LEMMA SweepEndProposes ==
    ASSUME NEW n \in Coordinators, SweepEnd(n) PROVE Proposes \/ Quiet
  <1>. DEFINE next == [version |-> layout.version + 1, members |-> layout.members,
                       previous |-> NoMembers]
              s == sweep[n]
  <1>1. layout' = layout
    BY DEF SweepEnd
  <1>2. CASE s.kind = "drive" /\ ~s.moved /\ ~s.failed /\ Open /\ n = leader
    <2>1. log' = log \cup {[kind |-> "layout", by |-> n, covered |-> s.seen = layout.version,
                            layout |-> next]}
      BY <1>2 DEF SweepEnd, Propose
    <2>2. next.version = layout.version + 1 /\ Follows(next)
      BY DEF Follows
    <2>3. \A p \in log' : p.kind = "layout" => p \in log \/ p.layout = next
      BY <2>1
    <2>. QED
      BY <1>1, <2>2, <2>3 DEF Proposes
  <1>3. CASE ~(s.kind = "drive" /\ ~s.moved /\ ~s.failed /\ Open /\ n = leader)
    <2>1. log' = log
      BY <1>3 DEF SweepEnd
    <2>. QED
      BY <1>1, <2>1 DEF Quiet
  <1>. QED
    BY <1>2, <1>3

\* The other steps of a sweep touch shards, entries and the sweep itself.
LEMMA SweepStepQuiet ==
    ASSUME NEW n \in Coordinators, SweepStep(n), ~SweepEnd(n) PROVE Quiet
  <1>1. UNCHANGED << layout, log >>
    <2>1. CASE NextItem(n) BY <2>1 DEF NextItem
    <2>2. CASE VerifyNew(n) BY <2>2 DEF VerifyNew
    <2>3. CASE VerifyOld(n) BY <2>3 DEF VerifyOld
    <2>4. CASE MigrateCopy(n) BY <2>4 DEF MigrateCopy
    <2>5. CASE FetchSources(n) BY <2>5 DEF FetchSources
    <2>6. CASE InstallRebuilt(n) BY <2>6 DEF InstallRebuilt
    <2>7. CASE ReEncodeFetch(n) BY <2>7 DEF ReEncodeFetch
    <2>8. CASE ReEncodeWrite(n) BY <2>8 DEF ReEncodeWrite
    <2>9. CASE ReEncodeCommit(n) BY <2>9 DEF ReEncodeCommit
    <2>10. CASE ReEncodeError(n) BY <2>10 DEF ReEncodeError
    <2>. QED
      BY <2>1, <2>2, <2>3, <2>4, <2>5, <2>6, <2>7, <2>8, <2>9, <2>10 DEF SweepStep
  <1>. QED
    BY <1>1 DEF Quiet

\* Requests of the operator are proposals of another kind.
LEMMA RequestsQuiet ==
    ASSUME NEW n \in Node, \/ \E on \in BOOLEAN : SetDraining(n, on)
                           \/ \E new \in Node : Replace(n, new)
    PROVE  Quiet
  <1>1. PICK q : q.kind \in {"drain", "replace"} /\ log' = log \cup {q} /\ layout' = layout
    <2>1. ASSUME NEW on \in BOOLEAN, SetDraining(n, on)
          PROVE  \E q : q.kind \in {"drain", "replace"} /\ log' = log \cup {q} /\ layout' = layout
      <3>. DEFINE q == [kind |-> "drain", by |-> leader, node |-> n, on |-> on]
      <3>1. q.kind = "drain" /\ log' = log \cup {q} /\ layout' = layout
        BY <2>1 DEF SetDraining, Propose
      <3>. QED
        BY Zenon, <3>1
    <2>2. ASSUME NEW new \in Node, Replace(n, new)
          PROVE  \E q : q.kind \in {"drain", "replace"} /\ log' = log \cup {q} /\ layout' = layout
      <3>. DEFINE q == [kind |-> "replace", by |-> leader, node |-> n, new |-> new]
      <3>1. q.kind = "replace" /\ log' = log \cup {q} /\ layout' = layout
        BY <2>2 DEF Replace, Propose
      <3>. QED
        BY Zenon, <3>1
    <2>. QED
      BY <2>1, <2>2
  <1>. QED
    BY <1>1 DEF Quiet

\* ApplySetClusterLayout takes the next version and refuses every other.
LEMMA ApplyLayoutApplies ==
    ASSUME NEW p \in log, ApplyLayout(p) PROVE Applies \/ Quiet
  <1>1. CASE p.layout.version = layout.version + 1
    BY <1>1 DEF ApplyLayout, Applies
  <1>2. CASE p.layout.version # layout.version + 1
    BY <1>2 DEF ApplyLayout, Quiet
  <1>. QED
    BY <1>1, <1>2

\* Every step is of one of the three kinds.
LEMMA StepKinds == ASSUME [Next]_vars PROVE Quiet \/ Proposes \/ Applies
  <1>1. ASSUME NEW n \in Node,
               \/ NodeDown(n) \/ NodeUp(n) \/ Join(n) \/ Register(n)
               \/ Remove(n) \/ ApplyRemove(n) \/ EvictReplaced(n)
        PROVE  Quiet
    BY <1>1 DEF NodeDown, NodeUp, Join, Register, Remove, ApplyRemove, EvictReplaced, Quiet
  <1>2. ASSUME NEW n \in Coordinators,
               Elect(n) \/ DriveTransition(n) \/ ScrubTick(n) \/ Optimize(n)
        PROVE  Quiet
    BY Zenon, <1>2 DEF Elect, DriveTransition, ScrubTick, Optimize, Begin, Quiet
  <1>3. ASSUME NEW p \in log, Lose(p) \/ ApplyRegistry(p) PROVE Quiet
    BY <1>3 DEF Lose, ApplyRegistry, Quiet
  <1>4. ASSUME NEW o \in Object, PutBegin(o) \/ PutEnd(o) \/ DeleteObject(o) PROVE Quiet
    BY Zenon, <1>4 DEF PutBegin, PutEnd, DeleteObject, Quiet
  <1>5. ASSUME NEW s \in disk, Rot(s) PROVE Quiet
    BY <1>5 DEF Rot, Quiet
  <1>6. ASSUME UNCHANGED vars PROVE Quiet
    BY <1>6 DEF vars, Quiet
  <1>. QED
    BY <1>1, <1>2, <1>3, <1>4, <1>5, <1>6, ReconcileProposes, SweepEndProposes,
       SweepStepQuiet, RequestsQuiet, ApplyLayoutApplies DEF Next

LEMMA StepFollows ==
    ASSUME ProposalsFollow, [Next]_vars PROVE ProposalsFollow'
  <1>1. CASE Quiet
    BY <1>1 DEF Quiet, ProposalsFollow, Follows, Open
  <1>2. CASE Proposes
    <2>1. PICK next : /\ next.version = layout.version + 1 /\ Follows(next)
                      /\ \A p \in log' : p.kind = "layout" => p \in log \/ p.layout = next
      BY <1>2 DEF Proposes
    <2>2. layout' = layout
      BY <1>2 DEF Proposes
    <2>3. ASSUME NEW p \in log', p.kind = "layout"
          PROVE  /\ p.layout.version \in Nat /\ p.layout.version <= layout.version + 1
                 /\ p.layout.version = layout.version + 1 => Follows(p.layout)
      BY <2>1, <2>3 DEF ProposalsFollow
    <2>. QED
      BY <2>2, <2>3 DEF ProposalsFollow, Follows, Open
  <1>3. CASE Applies
    <2>1. /\ layout'.version = layout.version + 1
          /\ \A p \in log' : p \in log
      BY <1>3 DEF Applies
    <2>. QED
      BY <2>1 DEF ProposalsFollow
  <1>. QED
    BY <1>1, <1>2, <1>3, StepKinds

\* LayoutsChain: a layout replaces exactly the one it was composed from,
\* whatever leaders propose and lose, for every cluster (layout.go
\* reconcileLayout and closeTransition, apply.go ApplySetClusterLayout).
THEOREM LayoutsFollow == Spec => LayoutsChain
  <1>. DEFINE chained ==
          layout' # layout =>
            /\ layout'.version = layout.version + 1
            /\ Open => layout'.members = layout.members /\ layout'.previous = NoMembers
            /\ layout'.previous \in {NoMembers, layout.members}
  <1>1. ASSUME ProposalsFollow, [Next]_vars PROVE chained
    <2>1. CASE Quiet \/ Proposes
      BY <2>1 DEF Quiet, Proposes
    <2>2. CASE Applies
      BY <1>1, <2>2 DEF Applies, ProposalsFollow, Follows
    <2>. QED
      BY <1>1, <2>1, <2>2, StepKinds
  <1>. QED
    BY <1>1, InitFollows, StepFollows, PTL DEF Spec, LayoutsChain
=============================================================================
