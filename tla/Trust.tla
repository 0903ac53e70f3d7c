------------------------------- MODULE Trust -------------------------------
(***************************************************************************)
(* Who is let into the cluster and whom its members believe: join tokens,  *)
(* the identities they buy, admission, and the rotation of the cluster CA  *)
(* (internal/cluster trust.go, join.go, token.go, lifecycle.go and the     *)
(* parts of node.go, control.go, meta/apply.go and raftnode that carry     *)
(* them).                                                                  *)
(*                                                                         *)
(* A CA is a number, CA 1 the founding one; a certificate is the CA that   *)
(* signed it.  The replicated state is kept as its history, one element    *)
(* per accepted command or configuration change, and a replica as the      *)
(* length of the prefix it has applied: elections and what a proposal's    *)
(* answer means are CommitPath's subject, the durability of what was       *)
(* applied RaftStorage's.                                                  *)
(***************************************************************************)
EXTENDS Integers, Sequences, FiniteSets, FiniteSetsExt, Functions

CONSTANTS
    NodeCount,    \* nodes, numbered from 1; node 1 founds the cluster
    FounderCount, \* the first ones are members at the start, the others join
    Attempt,    \* runs of `cluster join`
    MaxCA,      \* bound on CAs minted
    MaxTokens,  \* bound on tokens minted
    MaxCommands, \* bound on operators' commands
    MaxFaults    \* bound on elections, crashes, torn saves and lost answers together

ASSUME TrustAssumption ==
    /\ NodeCount \in Nat /\ FounderCount \in 1..NodeCount
    /\ MaxCA \in Nat \ {0} /\ {MaxTokens, MaxCommands, MaxFaults} \subseteq Nat

Node == 1..NodeCount
Founders == 1..FounderCount

VARIABLES
    hist,     \* the replicated state after each accepted command
    applied,  \* per node, how much of it the node has applied
    leader,
    node,     \* per node, its process and its cluster directory
    driver,   \* per node, the rotation it is driving
    loose,    \* bundles proposed by a driver that no longer waits for the answer
    token,    \* the tokens minted: whose, pinning which CA, burnt or not
    ask,      \* per attempt, the join request at the issuer
    issued,   \* every identity handed out
    minted,   \* how many CAs there are
    events,
    late,     \* nodes whose identity a rotation's list of members missed
    unheard   \* members whose reissue a rotation took for done without an answer

raft == << hist, applied, leader >>
rotation == << driver, loose, minted >>
join == << token, ask, issued >>
missed == << late, unheard >>
vars == << raft, node, rotation, join, events, missed >>

Tip == hist[Len(hist)]
Store(n) == hist[applied[n]]

Command ==
    /\ events.commands < MaxCommands
    /\ events' = [events EXCEPT !.commands = @ + 1]

Fault ==
    /\ events.faults < MaxFaults
    /\ events' = [events EXCEPT !.faults = @ + 1]

(***************************************************************************)
(* A node: the files of its cluster directory, and what its process made   *)
(* of them.                                                                *)
(***************************************************************************)
NoCA == [cert |-> 0, key |-> 0]

Outside == [life |-> "none", raftID |-> 0, caPem |-> << >>, caKey |-> 0, pem |-> 0, key |-> 0,
            savedID |-> 0, labels |-> {},
            nextID |-> 0, trust |-> {}, ver |-> 0, leaf |-> 0, chain |-> 0, ca |-> NoCA,
            owed |-> 0]

\* What Init and Join leave in the directory.
Directory(raftID, ca, caKey, nextID, labels) ==
    [Outside EXCEPT !.life = "down", !.raftID = raftID, !.caPem = << ca >>, !.caKey = caKey,
                    !.pem = ca, !.key = ca, !.savedID = nextID, !.labels = labels]

\* The first certificate of ca.pem with the key of ca.key; nothing compares them.
loadCA(d) == IF d.caKey = 0 THEN NoCA ELSE [cert |-> Head(d.caPem), key |-> d.caKey]

\* The live leaf and trust of a starting process come from its files.
Running(d) ==
    [d EXCEPT !.life = "up", !.trust = Range(d.caPem), !.ver = 0, !.leaf = d.pem,
              !.chain = Head(d.caPem), !.ca = loadCA(d), !.nextID = d.savedID]

Stopped(d) ==
    [d EXCEPT !.life = "down", !.trust = {}, !.ver = 0, !.leaf = 0, !.chain = 0,
              !.ca = NoCA, !.nextID = 0, !.owed = 0]

Up(n) == node[n].life = "up"

\* Each end of a handshake verifies the other's leaf against its own pool; every control
\* call makes a new one.
Accepts(a, b) == node[b].leaf \in node[a].trust
Connected(a, b) == Up(a) /\ Up(b) /\ (a = b \/ (Accepts(a, b) /\ Accepts(b, a)))

\* The members as a node's own replica lists them.
members(n) == Store(n).member

\* A leader-only command follows the redirects to the leader.
leaderRedirect(n) == Up(n) /\ leader = n

\* A certificate and a key that do not match keep the node from starting.
Run(n) ==
    /\ node[n].life = "down" /\ node[n].raftID \notin Tip.gone
    /\ node[n].pem = node[n].key
    /\ node' = [node EXCEPT ![n] = Running(@)]
    /\ UNCHANGED << raft, rotation, join, events, missed >>

NoRotation == [pc |-> "idle", ca |-> 0, ver |-> 0, cas |-> << >>, wait |-> {}, todo |-> {},
               seen |-> {}]
NoAsk == [pc |-> "none", tok |-> 0, node |-> 0, view |-> {}]

\* Mutant: the dual-trust bundle leaves out the CA it is about to issue from.
Wide_ForgetsNew(d) == [ver |-> d.ver, cas |-> SubSeq(d.cas, 1, Len(d.cas) - 1), issuer |-> d.ca]

\* The two bundles a rotation installs: the old CAs with the new one, then the new one alone.
Wide(d) == [ver |-> d.ver, cas |-> d.cas, issuer |-> d.ca]
Narrow(d) == [ver |-> d.ver + 1, cas |-> << d.ca >>, issuer |-> d.ca]

\* The driver stops waiting; what it has proposed may still commit.
Abandon(n) ==
    /\ driver' = [driver EXCEPT ![n] = NoRotation]
    /\ loose' = loose \cup {b \in {Wide(driver[n]), Narrow(driver[n])} :
                              \/ driver[n].pc = "widen" /\ b = Wide(driver[n])
                              \/ driver[n].pc = "narrow" /\ b = Narrow(driver[n])}

\* A stop takes the rotation the node drives and the joins it answers with it.
Stops(n, files) ==
    /\ node' = [node EXCEPT ![n] = Stopped(files)]
    /\ Abandon(n)
    /\ ask' = [a \in Attempt |->
                 IF ask[a].pc # "none" /\ token[ask[a].tok].by = n THEN NoAsk ELSE ask[a]]

Crash(n) ==
    /\ Up(n) /\ Fault
    /\ Stops(n, node[n])
    /\ UNCHANGED << raft, minted, token, issued, missed >>

(***************************************************************************)
(* The replicated state.  A node applies over connections made earlier, so *)
(* applying asks for no handshake.                                         *)
(***************************************************************************)
Elect(n) ==
    /\ Up(n) /\ n \in Tip.member /\ leader # n /\ Fault
    /\ leader' = n
    /\ UNCHANGED << hist, applied, node, rotation, join, missed >>

\* Nothing follows a node's own removal, on which it stops.
ApplyNext(n) ==
    /\ Up(n) /\ n \in Store(n).member \cup Tip.member /\ applied[n] < Len(hist)
    /\ applied' = [applied EXCEPT ![n] = @ + 1]
    /\ IF node[n].raftID \in hist[applied[n] + 1].gone
       THEN Stops(n, node[n])
       ELSE UNCHANGED << node, driver, loose, ask >>
    /\ UNCHANGED << hist, leader, minted, token, issued, events, missed >>

\* A leader's proposal is answered once the leader itself has applied it.
Commit(n, state) ==
    /\ leader = n /\ Up(n)
    /\ hist' = Append(hist, state)
    /\ applied' = [applied EXCEPT ![n] = Len(hist')]
    /\ UNCHANGED leader

\* Compare-and-set on the version.
Stale(ver) == ver # Tip.ver + 1

ApplySetTrustBundle(n, b) ==
    /\ ~Stale(b.ver)
    /\ Commit(n, [Tip EXCEPT !.ver = b.ver, !.cas = b.cas, !.issuer = b.issuer])

\* Refused for a node the registry does not have.
ApplySetNodeLeafCA(n, m, ca) ==
    /\ m \in DOMAIN Tip.rows
    /\ Commit(n, [Tip EXCEPT !.rows[m] = ca])

\* The row is rebuilt and names no CA, also when there was one already.
ApplyRegisterNode(n, m) ==
    Commit(n, [Tip EXCEPT !.rows = [x \in DOMAIN @ \cup {m} |-> IF x = m THEN 0 ELSE @[x]]])

\* The leader registers the nodes whose labels it holds and whose rows it does not see.
RegisterNode(n, m) ==
    /\ Up(n) /\ m \in node[n].labels \ DOMAIN Store(n).rows
    /\ ApplyRegisterNode(n, m)
    /\ UNCHANGED << node, rotation, join, events, missed >>

\* The first bundle holds the CA of the node's ca.pem.
seedTrustBundle(n) ==
    /\ Up(n) /\ leader = n /\ Store(n).ver = 0
    /\ ApplySetTrustBundle(n, [ver |-> 1, cas |-> node[n].caPem, issuer |-> Head(node[n].caPem)])
    /\ UNCHANGED << node, rotation, join, events, missed >>

\* The pool follows the applied bundle, and ca.pem the pool.
refreshTrust(n) ==
    /\ Up(n) /\ Store(n).ver \notin {0, node[n].ver}
    /\ node' = [node EXCEPT ![n].trust = Range(Store(n).cas), ![n].ver = Store(n).ver,
                            ![n].caPem = Store(n).cas]
    /\ UNCHANGED << raft, rotation, join, events, missed >>

(***************************************************************************)
(* Membership, with the Raft configuration part of the replicated state.   *)
(***************************************************************************)
\* An ID in use and an ID removed are not added.
AddNode(id) == id \notin Tip.gone \cup {node[m].raftID : m \in Tip.member}

\* The joiner asks until it is a member; its first contact is a fresh handshake.
Admit(j) ==
    /\ Up(j) /\ j \notin members(j) \cup Tip.member
    /\ Connected(j, leader)
    /\ node[j].raftID # 0 /\ AddNode(node[j].raftID)
    /\ Commit(leader, [Tip EXCEPT !.member = @ \cup {j}])
    /\ UNCHANGED << node, rotation, join, events, missed >>

\* The ID is tombstoned; the registry row stays.  The data's conditions are Rebalance's.
RemoveNode(n, m) ==
    /\ leaderRedirect(n) /\ m \in members(n) \ {n} /\ m \in Tip.member /\ Command
    /\ Commit(n, [Tip EXCEPT !.member = @ \ {m}, !.gone = @ \cup {node[m].raftID}])
    /\ UNCHANGED << node, rotation, join, missed >>

(***************************************************************************)
(* runRotateCA.  The driver is one goroutine of one node; its waits time   *)
(* out, its proposals and calls fail, at any point.                        *)
(***************************************************************************)
DriverAt(n, pc) == Up(n) /\ driver[n].pc = pc

\* The command finds the leader, which runs one rotation at a time.
RotateCA(n) == leaderRedirect(n) /\ DriverAt(n, "idle")

RotatePrepare(n) ==
    /\ RotateCA(n) /\ Store(n).ver # 0
    /\ minted < MaxCA /\ Command
    /\ minted' = minted + 1
    /\ driver' = [driver EXCEPT ![n] = [NoRotation EXCEPT !.pc = "widen", !.ca = minted',
                                          !.ver = Store(n).ver + 1,
                                          !.cas = Append(Store(n).cas, minted')]]
    /\ UNCHANGED << raft, node, loose, join, missed >>

RotateWiden(n) ==
    /\ DriverAt(n, "widen")
    /\ ApplySetTrustBundle(n, Wide(driver[n]))
    /\ driver' = [driver EXCEPT ![n].pc = "members"]
    /\ UNCHANGED << node, loose, minted, join, events, missed >>

\* The members are listed once.
RotateMembers(n) ==
    /\ DriverAt(n, "members")
    /\ driver' = [driver EXCEPT ![n].pc = "trust", ![n].todo = members(n),
                                ![n].wait = members(n)]
    /\ late' = late \cup ({i.node : i \in issued} \ members(n))
    /\ UNCHANGED << raft, node, loose, minted, join, events, unheard >>

\* A member's status names the bundle its pool was built from.
caStatus(m) == node[m].ver
memberStatus(n, m, ver) == Connected(n, m) /\ caStatus(m) >= ver

\* Mutant: an answer is enough, whichever bundle the member is on.
waitMembersTrust_NoVersion(n) ==
    LET d == driver[n]
        m == Min(d.wait)
    IN  /\ DriverAt(n, "trust") /\ memberStatus(n, m, 0)
        /\ driver' = [driver EXCEPT ![n].wait = @ \ {m},
                                    ![n].pc = IF d.wait = {m} THEN "reissue" ELSE "trust"]
        /\ UNCHANGED << raft, node, loose, minted, join, events, missed >>

\* The members are asked in turn which bundle they are on; an answer is not asked again.
waitMembersTrust(n) ==
    LET d == driver[n]
        m == Min(d.wait)
    IN  /\ DriverAt(n, "trust") /\ memberStatus(n, m, d.ver)
        /\ driver' = [driver EXCEPT ![n].wait = @ \ {m},
                                    ![n].pc = IF d.wait = {m} THEN "reissue" ELSE "trust"]
        /\ UNCHANGED << raft, node, loose, minted, join, events, missed >>

\* The member under reissue, in ID order, and the leaf's way onto its loop.
Turn(n) == Min(driver[n].todo)

Reissue(n) ==
    LET d == driver[n]
        m == Turn(n)
    IN  /\ DriverAt(n, "reissue") \/ DriverAt(n, "answer")
        /\ Connected(n, m) /\ node[m].leaf # d.ca /\ node[m].owed # d.ca
        /\ node' = [node EXCEPT ![m].owed = d.ca]
        /\ driver' = [driver EXCEPT ![n].pc = "answer"]
        /\ UNCHANGED << raft, loose, minted, join, events, missed >>

\* A member adopts a leaf of its store's issuer, and of no other CA.
Reissuable(m) == Store(m).ver # 0 /\ Store(m).issuer = node[m].owed

Adopted(d) == [d EXCEPT !.pem = d.owed, !.key = d.owed, !.leaf = d.owed, !.chain = d.owed,
                        !.owed = 0]

applyReissue(m) ==
    /\ Up(m) /\ node[m].owed # 0
    /\ node' = [node EXCEPT ![m] = IF Reissuable(m) THEN Adopted(@) ELSE [@ EXCEPT !.owed = 0]]
    /\ UNCHANGED << raft, rotation, join, events, missed >>

\* The certificate and the key are two files; a crash can come between them.
ReissueTorn(m) ==
    /\ Up(m) /\ node[m].owed # 0 /\ Reissuable(m) /\ Fault
    /\ \E file \in {"pem", "key"} : Stops(m, [node[m] EXCEPT ![file] = node[m].owed])
    /\ UNCHANGED << raft, minted, token, issued, missed >>

\* Recorded is what the member answered, or what it did not: a member's loop that is too
\* slow yields no error, and the driver goes on.
Heard(n) == node[Turn(n)].pem = driver[n].ca /\ node[Turn(n)].key = driver[n].ca
TimedOut(n) == node[Turn(n)].owed = driver[n].ca

Record(n) ==
    LET rest == driver[n].todo \ {Turn(n)}
    IN  /\ ApplySetNodeLeafCA(n, Turn(n), driver[n].ca)
        /\ driver' = [driver EXCEPT ![n].todo = rest,
                                    ![n].pc = IF rest = {} THEN "converge" ELSE "reissue"]

RotateRecord(n) ==
    /\ DriverAt(n, "answer") /\ Heard(n)
    /\ Record(n)
    /\ UNCHANGED << node, loose, minted, join, events, missed >>

RotateRecordUnheard(n) ==
    /\ DriverAt(n, "answer") /\ TimedOut(n) /\ Fault
    /\ Record(n)
    /\ unheard' = unheard \cup {Turn(n)}
    /\ UNCHANGED << node, loose, minted, join, late >>

\* Mutant: a row that names no CA is not counted.
caStragglers_SkipsUnset(n, issuer) ==
    {m \in DOMAIN Store(n).rows : Store(n).rows[m] \notin {0, issuer}}

\* Every row of the registry counts, members' or not.
caStragglers(n, issuer) ==
    {m \in DOMAIN Store(n).rows : Store(n).rows[m] # issuer}

waitCAConverged(n) ==
    /\ DriverAt(n, "converge") /\ caStragglers(n, driver[n].ca) = {}
    /\ driver' = [driver EXCEPT ![n].pc = "narrow", ![n].seen = DOMAIN Store(n).rows]
    /\ UNCHANGED << raft, node, loose, minted, join, events, missed >>

RotateNarrow(n) ==
    /\ DriverAt(n, "narrow")
    /\ ApplySetTrustBundle(n, Narrow(driver[n]))
    /\ driver' = [driver EXCEPT ![n].pc = "issuer"]
    /\ UNCHANGED << node, loose, minted, join, events, missed >>

\* The key goes to disk and the pair to memory; ca.pem is refreshTrust's to write.
RotateIssuer(n) ==
    LET ca == driver[n].ca
    IN  /\ DriverAt(n, "issuer")
        /\ node' = [node EXCEPT ![n].caKey = ca, ![n].ca = [cert |-> ca, key |-> ca]]
        /\ driver' = [driver EXCEPT ![n] = NoRotation]
        /\ UNCHANGED << raft, loose, minted, join, events, missed >>

RotateGivesUp(n) ==
    /\ Up(n) /\ driver[n].pc \notin {"idle", "issuer"} /\ Fault
    /\ Abandon(n)
    /\ UNCHANGED << raft, node, minted, join, missed >>

LooseBundle ==
    /\ \E b \in loose : ApplySetTrustBundle(leader, b) /\ loose' = loose \ {b}
    /\ UNCHANGED << node, driver, minted, join, events, missed >>

(***************************************************************************)
(* Joining.  A token is minted from the files, by a node that holds a CA   *)
(* key; it is honoured by that node's process.                             *)
(***************************************************************************)
Joiner == Node \ Founders

MintToken(n) == node[n].caKey # 0

mintToken(n) ==
    /\ MintToken(n) /\ Len(token) < MaxTokens /\ Command
    /\ token' = Append(token, [by |-> n, ca |-> loadCA(node[n]).cert, burnt |-> FALSE])
    /\ UNCHANGED << raft, node, rotation, ask, issued, missed >>

\* The issuer must prove itself by the CA the token pins.
dialPinned(n, ca) == Up(n) /\ node[n].leaf = ca /\ node[n].chain = ca

\* The issuer has read the token's record and found it good.
Present(a, j, t) ==
    /\ ask[a].pc = "none" /\ node[j].life = "none"
    /\ dialPinned(token[t].by, token[t].ca)
    /\ node[token[t].by].ca # NoCA /\ ~token[t].burnt
    /\ ask' = [ask EXCEPT ![a] = [NoAsk EXCEPT !.pc = "read", !.tok = t, !.node = j]]
    /\ UNCHANGED << raft, node, rotation, token, issued, events, missed >>

\* Mutant: a failed removal of the record is not a refusal.
consumeToken_NoArbiter(a) ==
    LET t == ask[a].tok
    IN  /\ ask[a].pc = "read"
        /\ token' = [token EXCEPT ![t].burnt = TRUE]
        /\ ask' = [x \in Attempt |->
                     IF x = a THEN [ask[a] EXCEPT !.pc = "won", !.view = members(token[t].by)]
                     ELSE ask[x]]
        /\ UNCHANGED << raft, node, rotation, issued, events, missed >>

\* Removing the record decides between uses of one token: the others find it gone and
\* are refused.  The members are listed right after.
consumeToken(a) ==
    LET t == ask[a].tok
    IN  /\ ask[a].pc = "read"
        /\ token' = [token EXCEPT ![t].burnt = TRUE]
        /\ ask' = [x \in Attempt |->
                     IF x = a THEN [ask[a] EXCEPT !.pc = "won", !.view = members(token[t].by)]
                     ELSE IF ask[x].tok = t THEN NoAsk ELSE ask[x]]
        /\ UNCHANGED << raft, node, rotation, issued, events, missed >>

\* Mutant: the counter advances in memory only.
saveConfig_Nothing(d) == d

saveConfig(d) == [d EXCEPT !.savedID = d.nextID]

\* The ID is saved before the certificate is made.
Allocated(n, j) ==
    LET d == node[n]
        e == [d EXCEPT !.nextID = d.nextID + 1, !.labels = d.labels \cup {j}]
    IN  [node EXCEPT ![n] = saveConfig(e)]

\* What the joiner keeps of the response, unless it has an identity already.
Join(nodes, j, raftID, ca) ==
    IF nodes[j].life = "none"
    THEN [nodes EXCEPT ![j] = Directory(raftID, ca, 0, 0, {j})]
    ELSE nodes

\* A listed member is refused, and so is everyone when the issuer's CA certificate and
\* key do not belong together; the response can be lost.
issueIdentity(a) ==
    LET j == ask[a].node
        n == token[ask[a].tok].by
        ca == node[n].ca
        id == [node |-> j, raftID |-> node[n].nextID, tok |-> ask[a].tok, by |-> n]
    IN  /\ ask[a].pc = "won"
        /\ ask' = [ask EXCEPT ![a] = NoAsk]
        /\ \/ /\ j \in ask[a].view
              /\ UNCHANGED << node, issued, late >>
           \/ /\ j \notin ask[a].view /\ ca.cert # ca.key
              /\ node' = Allocated(n, j)
              /\ UNCHANGED << issued, late >>
           \/ /\ j \notin ask[a].view /\ ca.cert = ca.key
              /\ issued' = issued \cup {id}
              /\ late' = IF ca.cert # Tip.issuer THEN late \cup {j} ELSE late
              /\ node' \in {Allocated(n, j), Join(Allocated(n, j), j, id.raftID, ca.cert)}
        /\ UNCHANGED << raft, rotation, token, events, unheard >>

(***************************************************************************)
(* The specification.  It starts in a formed cluster that has no bundle.   *)
(***************************************************************************)
Empty == [ver |-> 0, cas |-> << >>, issuer |-> 0, rows |-> << >>, member |-> {}, gone |-> {}]
Formed == [Empty EXCEPT !.rows = [n \in Founders |-> 0], !.member = Founders]

Founder(n) ==
    Running(IF n = 1 THEN Directory(1, 1, 1, FounderCount + 1, Founders)
                     ELSE Directory(n, 1, 0, 0, {n}))

Init ==
    /\ hist = << Empty, Formed >>
    /\ applied = [n \in Node |-> IF n \in Founders THEN 2 ELSE 1]
    /\ leader = 1
    /\ node = [n \in Node |-> IF n \in Founders THEN Founder(n) ELSE Outside]
    /\ driver = [n \in Node |-> NoRotation]
    /\ loose = {} /\ minted = 1
    /\ token = << >> /\ ask = [a \in Attempt |-> NoAsk]
    /\ issued = {[node |-> n, raftID |-> n, tok |-> 0, by |-> 1] : n \in Founders}
    /\ events = [commands |-> 0, faults |-> 0] /\ late = {} /\ unheard = {}

NodeStep(n) ==
    \/ Run(n) \/ Crash(n) \/ Elect(n) \/ ApplyNext(n) \/ refreshTrust(n)
    \/ seedTrustBundle(n) \/ mintToken(n) \/ Admit(n)
    \/ \E m \in Node : RegisterNode(n, m) \/ RemoveNode(n, m)

RotationStep(n) ==
    \/ RotatePrepare(n) \/ RotateWiden(n) \/ RotateMembers(n) \/ waitMembersTrust(n)
    \/ Reissue(n) \/ applyReissue(n) \/ ReissueTorn(n)
    \/ RotateRecord(n) \/ RotateRecordUnheard(n) \/ waitCAConverged(n) \/ RotateNarrow(n)
    \/ RotateIssuer(n) \/ RotateGivesUp(n)

JoinStep(a) ==
    \/ \E j \in Joiner, t \in DOMAIN token : Present(a, j, t)
    \/ consumeToken(a) \/ issueIdentity(a)

Next ==
    \/ \E n \in Node : NodeStep(n) \/ RotationStep(n)
    \/ \E a \in Attempt : JoinStep(a)
    \/ LooseBundle

Spec == Init /\ [][Next]_vars

(***************************************************************************)
(* Properties.                                                             *)
(***************************************************************************)
CAs == 0..MaxCA
Pair == [cert : CAs, key : CAs]

\* Every variable has its type: the history's states are bundles with their registry and
\* configuration, each node's files and process hold known CAs.
TypeOK ==
    /\ Tip.ver \in Nat /\ Range(Tip.cas) \subseteq 1..MaxCA
    /\ Tip.issuer \in CAs /\ (Tip.ver = 0 \/ Tip.issuer \in Range(Tip.cas))
    /\ DOMAIN Tip.rows \subseteq Node /\ Range(Tip.rows) \subseteq CAs
    /\ Tip.member \subseteq Node /\ Tip.gone \subseteq Nat
    /\ applied \in [Node -> DOMAIN hist] /\ leader \in Node
    /\ \A n \in Node :
         /\ node[n].life \in {"none", "down", "up"}
         /\ Range(node[n].caPem) \cup node[n].trust \subseteq 1..MaxCA
         /\ {node[n].pem, node[n].key, node[n].caKey, node[n].leaf, node[n].chain, node[n].owed}
              \subseteq CAs
         /\ node[n].ca \in Pair /\ {node[n].nextID, node[n].savedID, node[n].ver} \subseteq Nat
    /\ \A t \in DOMAIN token : token[t] \in [by : Node, ca : 1..MaxCA, burnt : BOOLEAN]
    /\ minted \in 1..MaxCA /\ events \in [commands : 0..MaxCommands, faults : 0..MaxFaults]
    /\ late \cup unheard \subseteq Node

\* Left out of NoTrustGap are nodes a rotation did not list, members whose reissue it took
\* for done unheard, and a node that replays the log from before its admission and has
\* gone back to a bundle of then.
Settled ==
    {n \in Tip.member \ (late \cup unheard) :
       Up(n) /\ (Tip.ver = 0 \/ \E k \in DOMAIN hist : n \in hist[k].member
                                                      /\ node[n].caPem = hist[k].cas)}

\* "A reissued leaf is never presented to a peer that would reject it": whatever of the
\* log each has applied, and after any crash, two running members accept each other's
\* certificates, throughout rotations that are abandoned, repeated or driven by two
\* leaders (trust.go runRotateCA, applyReissue, refreshTrust).
NoTrustGap ==
    \A a, b \in Settled : Accepts(a, b)

\* "Safe now that no member presents an old-CA leaf" (trust.go, phase 5): when a driver
\* drops the old CAs, every member with a row in the registry it counted holds a
\* certificate of the new one, a node that joined behind the rotation's back included.
NarrowLeavesNoneBehind ==
    [][\A n \in Node :
         driver[n].pc = "narrow" /\ driver'[n].pc = "issuer" =>
           \A m \in (driver[n].seen \cap Tip.member) \ unheard : node[m].pem = driver[n].ca]_vars

\* "A token admits one node, ever" (token.go): however two uses of a token interleave,
\* across crashes of the issuer and lost responses, one identity comes of it.
TokenAdmitsOne ==
    \A i, j \in issued : i.tok = j.tok /\ i.tok # 0 => i = j

\* "A crash between must waste an ID, never reuse one" (join.go), for the node that
\* founded the cluster: no two identities it handed out share a Raft ID.
FounderIDsAreFresh ==
    \A i, j \in issued : i.by = 1 /\ j.by = 1 /\ i.raftID = j.raftID => i = j

\* The same for every issuer, and every identity has an ID that Raft admits: 0 is none.
RaftIDsAreFresh ==
    \A i, j \in issued : i.raftID # 0 /\ (i.raftID = j.raftID => i = j)
=============================================================================
