----------------------------- MODULE CommitPath -----------------------------
(***************************************************************************)
(* The metadata commit of a PUT: from the coordinator that has made the    *)
(* shards durable, through forwardingProposer to the Raft leader, to the   *)
(* callback that acknowledges the PUT or deletes its shards                *)
(* (internal/coord/put.go, internal/cluster/forward.go and serve.go,       *)
(* internal/raftnode).                                                     *)
(*                                                                         *)
(* etcd/raft is external: Campaign, Replicate and Commit are the least     *)
(* Raft that elects leaders with overlapping majorities, overwrites the    *)
(* conflicting tail of a follower and commits what a majority holds.  A    *)
(* node applies an entry as soon as it learns that the entry is committed  *)
(* (processReady).                                                         *)
(*                                                                         *)
(* The faults the code meets are named by Faults:                          *)
(*   "election"  a leader is replaced while proposals are in flight;       *)
(*   "loss"      the connection of a forwarded commit breaks, before or    *)
(*               after the leader has served it;                           *)
(*   "timeout"   proposeLocal's 30 s pass before the commit.               *)
(***************************************************************************)
EXTENDS Integers, Sequences, FiniteSets

CONSTANTS
    Node,
    Op,            \* PUTs, each one proposal
    Refused,       \* the proposals that Apply answers with an error
    Faults,
    MaxTerm,       \* bound on elections
    MaxAttempts    \* deliveries forward makes before it gives up (5 x 4 in the code)

ASSUME CommitAssumption ==
    /\ IsFiniteSet(Node)
    /\ Refused \subseteq Op
    /\ Faults \subseteq {"election", "loss", "timeout"}
    /\ MaxTerm \in Nat
    /\ MaxAttempts \in Nat \ {0}

VARIABLES
    term,      \* Raft: current term of each node
    leads,     \* Raft: whether the node believes it leads
    log,       \* Raft: log of each node, entries [term, op]
    commit,    \* Raft: index up to which the node has applied
    waiters,   \* raftnode: callbacks waiting for an index, per node
    pc,        \* where each PUT is
    attempt,   \* forward: deliveries tried so far
    reply,     \* the leader's answer to the current delivery
    shards     \* whether the PUT's shards are on the data nodes

raftVars == <<term, leads, log, commit>>
putVars == <<pc, attempt, reply, shards>>
vars == <<term, leads, log, commit, waiters, pc, attempt, reply, shards>>

Noop == "noop"     \* the empty entry a new leader commits first
Entry == [term : 1..MaxTerm, op : Op \cup {Noop}]
\* kind: the coordinator's own callback, or handleForward's proposeLocal
\* serving delivery number at.
Waiter == [index : Nat, op : Op, kind : {"local", "served"}, at : 0..MaxAttempts]
Outcome == {"ok", "error"}

apply(op) == IF op \in Refused THEN "error" ELSE "ok"
Quorum == {Q \in SUBSET Node : 2 * Cardinality(Q) > Cardinality(Node)}

-----------------------------------------------------------------------------
(* The end of a PUT: commitPutObject's callback.                           *)

\* answered[o] is {} or {the outcome handed to o's callback}.
commitPutObject(answered) ==
    [o \in Op |-> IF answered[o] = {"ok"} THEN "acked"
                  ELSE IF answered[o] = {"error"} THEN "failed" ELSE pc[o]]

\* (Mutant: the cleanup also runs after a success.)
cleanup_Always(answered) ==
    [o \in Op |-> IF answered[o] # {} THEN "deleted" ELSE shards[o]]

cleanup(answered) ==
    [o \in Op |-> IF answered[o] = {"error"} THEN "deleted" ELSE shards[o]]

Callback(answered) ==
    /\ pc' = commitPutObject(answered)
    /\ shards' = cleanup(answered)

-----------------------------------------------------------------------------
(* raftnode.                                                               *)

\* (Mutant: the callback is paired with the index before its entry's.)
claimIndexes_Early(n, w) ==
    waiters' = [waiters EXCEPT ![n] = @ \cup {[w EXCEPT !.index = Len(log[n])]}]

\* Pair the callback with the index of the entry just appended.
claimIndexes(n, w) ==
    waiters' = [waiters EXCEPT ![n] = @ \cup {[w EXCEPT !.index = Len(log[n]) + 1]}]

\* On the leader: append the proposal and wait for its index.
Propose(n, w) ==
    /\ leads[n]
    /\ log' = [log EXCEPT ![n] = Append(@, [term |-> term[n], op |-> w.op])]
    /\ claimIndexes(n, w)

\* The callbacks that applying newlog up to index to fires on node n.
Fired(n, newlog, to) ==
    {w \in waiters[n] : w.index \in (commit[n] + 1)..to /\ newlog[w.index].op # Noop}

\* A reply goes to the delivery it serves, if that one still waits for it.
Awaited(w) ==
    pc[w.op] = "forwarded" /\ w.at = attempt[w.op] /\ reply[w.op] = "none"

\* Apply the newly committed entries and settle the waiters of their indexes.
applyEntries(n, newlog, to) ==
    LET fired == Fired(n, newlog, to)
        Result(w) == apply(newlog[w.index].op)
        Served(o) == {w \in fired : w.op = o /\ w.kind = "served" /\ Awaited(w)}
        answered == [o \in Op |-> {Result(w) : w \in {v \in fired : v.op = o /\ v.kind = "local"}}]
    IN  /\ commit' = [commit EXCEPT ![n] = to]
        /\ waiters' = [waiters EXCEPT ![n] = @ \ fired]
        /\ Callback(answered)
        /\ reply' = [o \in Op |-> IF Served(o) = {} THEN reply[o]
                                  ELSE CHOOSE r \in {Result(w) : w \in Served(o)} : TRUE]
        /\ UNCHANGED attempt

-----------------------------------------------------------------------------
(* Raft (external).                                                        *)

LastTerm(l) == IF l = <<>> THEN 0 ELSE l[Len(l)].term
UpToDate(l, k) ==
    \/ LastTerm(l) > LastTerm(k)
    \/ LastTerm(l) = LastTerm(k) /\ Len(l) >= Len(k)

\* (Mutant: votes are given without comparing logs.)
Electable_Any(n, Q) == \A m \in Q : term[m] <= term[n]

Electable(n, Q) == \A m \in Q : term[m] <= term[n] /\ UpToDate(log[n], log[m])

Campaign(n, Q) ==
    /\ "election" \in Faults \/ \A m \in Node : term[m] = 0
    /\ ~leads[n]
    /\ term[n] < MaxTerm
    /\ n \in Q
    /\ Electable(n, Q)
    /\ term' = [m \in Node |-> IF m \in Q THEN term[n] + 1 ELSE term[m]]
    /\ leads' = [m \in Node |-> IF m \in Q THEN m = n ELSE leads[m]]
    /\ log' = [log EXCEPT ![n] = Append(@, [term |-> term[n] + 1, op |-> Noop])]
    /\ UNCHANGED <<commit, waiters, putVars>>

Later(i, j) == IF i > j THEN i ELSE j

\* m takes the leader's log and commit index, and applies what is new.  A new
\* leader may know of fewer committed entries than m does.
Replicate(n, m) ==
    /\ leads[n] /\ n # m /\ term[n] >= term[m]
    /\ log[m] # log[n] \/ commit[m] < commit[n] \/ term[m] < term[n]
    /\ term' = [term EXCEPT ![m] = term[n]]
    /\ leads' = [leads EXCEPT ![m] = FALSE]
    /\ log' = [log EXCEPT ![m] = log[n]]
    /\ applyEntries(m, log[n], Later(commit[m], commit[n]))

Stored(n, i) == {m \in Node : Len(log[m]) >= i /\ log[m][i] = log[n][i]}

Commit(n, i) ==
    /\ leads[n]
    /\ i > commit[n]
    /\ log[n][i].term = term[n]
    /\ Stored(n, i) \in Quorum
    /\ applyEntries(n, log[n], i)
    /\ UNCHANGED <<term, leads, log>>

-----------------------------------------------------------------------------
(* forwardingProposer.                                                     *)

LocalWaiter(o) == [index |-> 0, op |-> o, kind |-> "local", at |-> 0]
ServedWaiter(o) == [index |-> 0, op |-> o, kind |-> "served", at |-> attempt[o] + 1]

\* The shards are durable and the coordinator on n proposes: to its own Raft
\* if it leads, else through forward.
CoordPropose(o, n) ==
    /\ pc[o] = "idle"
    /\ shards' = [shards EXCEPT ![o] = "stored"]
    /\ \/ /\ Propose(n, LocalWaiter(o))
          /\ pc' = [pc EXCEPT ![o] = "local"]
       \/ /\ ~leads[n]
          /\ pc' = [pc EXCEPT ![o] = "forwarding"]
          /\ UNCHANGED <<log, waiters>>
    /\ UNCHANGED <<term, leads, commit, attempt, reply>>

\* Mutant: nothing bounds the deliveries.
handleForward_Unbounded(o, m) ==
    /\ pc[o] = "forwarding"
    /\ attempt' = [attempt EXCEPT ![o] = @ + 1]
    /\ \/ /\ Propose(m, ServedWaiter(o))
          /\ pc' = [pc EXCEPT ![o] = "forwarded"]
       \/ /\ ~leads[m]
          /\ UNCHANGED <<log, waiters, pc>>
    /\ UNCHANGED <<term, leads, commit, reply, shards>>

\* One delivery reaches m, which o's node takes for the leader.  If it leads,
\* handleForward proposes; if not it answers ErrNotLeader, and forward
\* resolves the leader again and re-sends.
handleForward(o, m) ==
    /\ pc[o] = "forwarding" /\ attempt[o] < MaxAttempts
    /\ attempt' = [attempt EXCEPT ![o] = @ + 1]
    /\ \/ /\ Propose(m, ServedWaiter(o))
          /\ pc' = [pc EXCEPT ![o] = "forwarded"]
       \/ /\ ~leads[m]
          /\ UNCHANGED <<log, waiters, pc>>
    /\ UNCHANGED <<term, leads, commit, reply, shards>>

\* The connection breaks; controlRoundTrip and forward both dial again.
controlRoundTrip(o) ==
    /\ "loss" \in Faults
    /\ pc[o] = "forwarded"
    /\ pc' = [pc EXCEPT ![o] = "forwarding"]
    /\ reply' = [reply EXCEPT ![o] = "none"]
    /\ UNCHANGED <<raftVars, waiters, attempt, shards>>

\* The leader's proposeLocal stops waiting and answers with unavailability.
proposeLocal(o) ==
    /\ "timeout" \in Faults
    /\ pc[o] = "forwarded" /\ reply[o] = "none"
    /\ reply' = [reply EXCEPT ![o] = "error"]
    /\ UNCHANGED <<raftVars, waiters, pc, attempt, shards>>

\* Mutant: forward never gives up.
forward_Forever(o) ==
    /\ pc[o] = "forwarded" /\ reply[o] # "none"
    /\ Callback([q \in Op |-> IF q = o THEN {reply[o]} ELSE {}])
    /\ UNCHANGED <<raftVars, waiters, attempt, reply>>

\* forward returns and the callback runs on o's node: with the leader's
\* answer, or with unavailability once the deliveries are used up.
forward(o) ==
    LET answer == [q \in Op |-> IF q # o THEN {}
                                ELSE IF pc[o] = "forwarded" THEN {reply[o]} ELSE {"error"}]
    IN  /\ \/ pc[o] = "forwarded" /\ reply[o] # "none"
           \/ pc[o] = "forwarding" /\ attempt[o] = MaxAttempts
        /\ Callback(answer)
        /\ UNCHANGED <<raftVars, waiters, attempt, reply>>

-----------------------------------------------------------------------------
Init ==
    /\ term = [n \in Node |-> 0]
    /\ leads = [n \in Node |-> FALSE]
    /\ log = [n \in Node |-> <<>>]
    /\ commit = [n \in Node |-> 0]
    /\ waiters = [n \in Node |-> {}]
    /\ pc = [o \in Op |-> "idle"]
    /\ attempt = [o \in Op |-> 0]
    /\ reply = [o \in Op |-> "none"]
    /\ shards = [o \in Op |-> "none"]

RaftStep ==
    \/ \E n \in Node, Q \in Quorum : Campaign(n, Q)
    \/ \E n, m \in Node : Replicate(n, m)
    \/ \E n \in Node : \E i \in 1..Len(log[n]) : Commit(n, i)

\* Mutant: a local proposal is forwarded too when its node stops leading.
PutStep_FallsThrough(o) ==
    \/ \E n \in Node : CoordPropose(o, n) \/ handleForward(o, n)
    \/ forward(o)
    \/ /\ pc[o] = "local"
       /\ \E n \in Node : ~leads[n] /\ \E w \in waiters[n] : w.op = o
       /\ pc' = [pc EXCEPT ![o] = "forwarding"]
       /\ UNCHANGED <<raftVars, waiters, attempt, reply, shards>>

PutStep(o) ==
    \/ \E n \in Node : CoordPropose(o, n) \/ handleForward(o, n)
    \/ controlRoundTrip(o)
    \/ proposeLocal(o)
    \/ forward(o)

Next == RaftStep \/ \E o \in Op : PutStep(o)

Spec == Init /\ [][Next]_vars

\* Elections end, messages between live nodes arrive and loops run: weak
\* fairness of every step that is not a fault.  A delivery is fair towards
\* the leader, because forward resolves the address it dials.
Fairness ==
    /\ WF_vars(\E n \in Node, Q \in Quorum : Campaign(n, Q))
    /\ \A n, m \in Node : WF_vars(Replicate(n, m))
    /\ \A n \in Node : WF_vars(\E i \in 1..Len(log[n]) : Commit(n, i))
    /\ \A o \in Op : WF_vars(\E n \in Node : leads[n] /\ handleForward(o, n)) /\ WF_vars(forward(o))

FairSpec == Spec /\ Fairness

-----------------------------------------------------------------------------
(* Properties.                                                             *)

\* Types; a replica never knows more committed than its log holds (raftnode.go).
TypeOK ==
    /\ term \in [Node -> 0..MaxTerm]
    /\ leads \in [Node -> BOOLEAN]
    /\ log \in [Node -> Seq(Entry)]
    /\ \A n \in Node : commit[n] \in 0..Len(log[n])
    /\ waiters \in [Node -> SUBSET Waiter]
    /\ pc \in [Op -> {"idle", "local", "forwarding", "forwarded", "acked", "failed"}]
    /\ attempt \in [Op -> 0..MaxAttempts]
    /\ reply \in [Op -> Outcome \cup {"none"}]
    /\ shards \in [Op -> {"none", "stored", "deleted"}]

IsCommitted(o) == \E n \in Node : \E i \in 1..commit[n] : log[n][i].op = o

\* Replicas apply one sequence: nobody applies an entry its log has lost, and
\* of two applied logs one is a prefix of the other (the state machine safety
\* that "deterministic apply" rests on).
AppliedLogsAgree ==
    \A n, m \in Node : \A i \in 1..commit[n] :
        /\ i <= Len(log[n])
        /\ i <= commit[m] => i <= Len(log[m]) /\ log[n][i] = log[m][i]

\* An acknowledged PUT is in the applied log, and apply accepted it
\* (raftnode.go, Propose: done is called "if the proposal commits ... and
\* never if leadership is lost first").
AckedIsCommitted ==
    \A o \in Op : pc[o] = "acked" => IsCommitted(o) /\ o \notin Refused

\* No proposal is applied twice (ADR-0037: "a duplicate forward applies once").
AppliesOnce ==
    \A n \in Node : \A i, j \in 1..commit[n] :
        log[n][i].op = log[n][j].op /\ log[n][i].op \in Op => i = j

\* The shards that committed metadata names are not deleted by the PUT that
\* wrote them (put.go, cleanup: "never readable as an object, because no
\* metadata names it").
CommittedKeepsShards ==
    \A o \in Op : IsCommitted(o) /\ o \notin Refused => shards[o] = "stored"

\* Every PUT that reaches its commit is answered, so that its limiter slot is
\* released (put.go, beginPut: the release "runs on every terminal, exactly
\* once ... and in-flight never leaks").
EveryPutAnswered ==
    \A o \in Op : pc[o] # "idle" ~> pc[o] \in {"acked", "failed"}
=============================================================================
