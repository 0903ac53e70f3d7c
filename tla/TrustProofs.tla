----------------------------- MODULE TrustProofs -----------------------------
(***************************************************************************)
(* What a join token buys and which Raft IDs the founding node hands out,  *)
(* for any number of nodes, join attempts, tokens, crashes, rotations and  *)
(* elections.  Both rest on an order of writes: a token's record is        *)
(* removed before the identity is made, and the ID counter is saved before *)
(* the certificate is.                                                     *)
(***************************************************************************)
EXTENDS Trust, TLAPS

(***************************************************************************)
(* The shapes of the variables, as far as the argument reads them.  What a *)
(* token pins and what an issuer listed do not matter to it.               *)
(***************************************************************************)
Fields == {"life", "savedID", "nextID", "pem", "caPem", "ca"}
NodeShape == DOMAIN node = Node /\ \A n \in Node : Fields \subseteq DOMAIN node[n]

TokenOf(S) == [by : Node, ca : S, burnt : BOOLEAN]
TokenShape == \E S : token \in Seq(TokenOf(S))

AskOf(S) == [pc : {"none", "read", "won"}, tok : Nat, node : Nat, view : S]
AskShape == \E S : ask \in [Attempt -> AskOf(S)]

Shapes == NodeShape /\ TokenShape /\ AskShape

\* A request under way names a token of a running issuer and a node that may join.
AsksAreOpen ==
    \A a \in Attempt :
        IF ask[a].pc = "none" THEN ask[a].tok = 0
        ELSE /\ ask[a].tok \in DOMAIN token /\ ask[a].node \in Joiner
             /\ Up(token[ask[a].tok].by)

\* A token read is not burnt; a token won is, by one request, and has bought nothing yet.
TokensAreSpentOnce ==
    /\ \A a \in Attempt :
         /\ ask[a].pc = "read" => ~token[ask[a].tok].burnt
         /\ ask[a].pc = "won" =>
              /\ token[ask[a].tok].burnt
              /\ \A i \in issued : i.tok # ask[a].tok
              /\ \A b \in Attempt \ {a} : ask[b].tok # ask[a].tok
    /\ \A i \in issued : i.tok # 0 => i.tok \in DOMAIN token /\ token[i.tok].burnt

\* Every ID the founder gave out is below the counter on its disk, and the running
\* process counts from there.
CounterIsAhead ==
    /\ node[1].savedID \in Nat /\ node[1].life # "none"
    /\ Up(1) => node[1].nextID = node[1].savedID
    /\ \A i \in issued : i.by = 1 => i.raftID \in Nat /\ i.raftID < node[1].savedID

TrustInv ==
    /\ Shapes /\ AsksAreOpen /\ TokensAreSpentOnce /\ CounterIsAhead
    /\ TokenAdmitsOne /\ FounderIDsAreFresh

LEMMA FounderIsOne == 1 \in Node /\ 1 \in Founders /\ Node \subseteq Nat
  BY TrustAssumption DEF Node, Founders

\* Tokens are numbered from 1, and their issuers are nodes.
LEMMA TokensAreNumbered ==
    ASSUME TokenShape
    PROVE  /\ Len(token) \in Nat /\ DOMAIN token = 1..Len(token) /\ 0 \notin DOMAIN token
           /\ \A t \in DOMAIN token : token[t].by \in Node /\ token[t].burnt \in BOOLEAN
  <1>1. PICK S : token \in Seq(TokenOf(S))
    BY DEF TokenShape
  <1>2. Len(token) \in Nat /\ DOMAIN token = 1..Len(token)
    BY <1>1
  <1>3. \A t \in DOMAIN token : token[t] \in TokenOf(S)
    BY <1>1
  <1>. QED
    BY <1>2, <1>3 DEF TokenOf

LEMMA TrustInit == Init => TrustInv
  <1>. SUFFICES ASSUME Init PROVE TrustInv
    OBVIOUS
  <1>1. PICK k \in Nat : k = FounderCount /\ Founders = 1..k
    BY TrustAssumption DEF Founders
  <1>3. NodeShape
    <2>1. ASSUME NEW n \in Node PROVE Fields \subseteq DOMAIN node[n]
      <3>1. PICK d : d = IF n \in Founders THEN Founder(n) ELSE Outside
        OBVIOUS
      <3>2. node[n] = d
        BY <3>1 DEF Init
      <3>3. Fields \subseteq DOMAIN d
        BY Zenon, <3>1 DEF Outside, Founder, Running, Directory, Fields
      <3>. QED
        BY <3>2, <3>3
    <2>. QED
      BY <2>1 DEF Init, NodeShape
  <1>4. token \in Seq(TokenOf({})) /\ DOMAIN token = {}
    BY DEF Init
  <1>5. ask \in [Attempt -> AskOf({{}})]
    BY DEF Init, NoAsk, AskOf
  <1>6. node[1].life = "up" /\ node[1].savedID = k + 1 /\ node[1].nextID = k + 1
    BY Zenon, <1>1, FounderIsOne DEF Init, Outside, Founder, Running, Directory
  <1>7. issued = {[node |-> n, raftID |-> n, tok |-> 0, by |-> 1] : n \in 1..k}
    BY <1>1 DEF Init
  <1>8. AsksAreOpen /\ TokensAreSpentOnce
    BY <1>7 DEF Init, NoAsk, AsksAreOpen, TokensAreSpentOnce
  <1>9. CounterIsAhead
    BY <1>6, <1>7 DEF CounterIsAhead
  <1>10. TokenAdmitsOne /\ FounderIDsAreFresh
    BY <1>7 DEF TokenAdmitsOne, FounderIDsAreFresh
  <1>. QED
    BY <1>3, <1>4, <1>5, <1>8, <1>9, <1>10 DEF TrustInv, Shapes, TokenShape, AskShape

(***************************************************************************)
(* The kinds of step, as the invariant sees them.                          *)
(***************************************************************************)
\* A node's process, and its counter in memory and on disk, are as they were.
Kept(d, e) == /\ Fields \subseteq DOMAIN e
              /\ e.life = d.life /\ e.savedID = d.savedID /\ e.nextID = d.nextID

OthersKept(n) == DOMAIN node' = Node /\ \A x \in Node \ {n} : Kept(node[x], node'[x])

Calm == UNCHANGED join /\ \E n \in Node : OthersKept(n) /\ Kept(node[n], node'[n])

Boots(n) ==
    /\ UNCHANGED join /\ OthersKept(n)
    /\ Fields \subseteq DOMAIN node'[n] /\ node'[n].life = "up"
    /\ node'[n].savedID = node[n].savedID /\ node'[n].nextID = node[n].savedID

Halts(n) ==
    /\ UNCHANGED << token, issued >> /\ OthersKept(n)
    /\ Fields \subseteq DOMAIN node'[n] /\ node'[n].life = "down"
    /\ node'[n].savedID = node[n].savedID
    /\ ask' = [a \in Attempt |->
                 IF ask[a].pc # "none" /\ token[ask[a].tok].by = n THEN NoAsk ELSE ask[a]]

\* A stop, whatever else of the directory the crash changed.
LEMMA StopsHalts ==
    ASSUME NodeShape, NEW n \in Node, NEW files, Stops(n, files), UNCHANGED << token, issued >>,
           Fields \subseteq DOMAIN files, files.savedID = node[n].savedID
    PROVE  Halts(n)
  <1>1. /\ Fields \subseteq DOMAIN Stopped(files) /\ Stopped(files).life = "down"
        /\ Stopped(files).savedID = files.savedID
    BY DEF Stopped, Fields
  <1>2. node' = [node EXCEPT ![n] = Stopped(files)]
    BY DEF Stops
  <1>3. OthersKept(n) /\ node'[n] = Stopped(files)
    BY <1>2 DEF OthersKept, Kept, NodeShape, Fields
  <1>. QED
    BY <1>1, <1>3 DEF Halts, Stops

\* Changing fields the argument does not read keeps a node.
LEMMA KeptCalm ==
    ASSUME NodeShape, NEW n \in Node, NEW d, node' = [node EXCEPT ![n] = d], Kept(node[n], d),
           UNCHANGED join
    PROVE  Calm
  BY DEF Calm, OthersKept, Kept, NodeShape, Fields

LEMMA UnchangedCalm == ASSUME NodeShape, UNCHANGED << node, join >> PROVE Calm
  BY FounderIsOne DEF Calm, OthersKept, Kept, NodeShape

LEMMA NodeSteps ==
    ASSUME NodeShape, NEW n \in Node, NodeStep(n)
    PROVE  Calm \/ mintToken(n) \/ (\E m \in Node : Boots(m) \/ Halts(m))
  <1>. Fields \subseteq DOMAIN node[n]
    BY DEF NodeShape
  <1>1. CASE Run(n)
    <2>1. node' = [node EXCEPT ![n] = Running(node[n])] /\ UNCHANGED join
      BY <1>1 DEF Run
    <2>2. /\ Fields \subseteq DOMAIN Running(node[n]) /\ Running(node[n]).life = "up"
          /\ Running(node[n]).savedID = node[n].savedID
          /\ Running(node[n]).nextID = node[n].savedID
      BY DEF Running, Fields
    <2>3. OthersKept(n) /\ node'[n] = Running(node[n])
      BY <2>1 DEF OthersKept, Kept, NodeShape, Fields
    <2>. QED
      BY <2>1, <2>2, <2>3 DEF Boots
  <1>2. CASE Crash(n)
    BY <1>2, StopsHalts DEF Crash
  <1>3. CASE ApplyNext(n)
    <2>1. CASE Stops(n, node[n])
      BY <1>3, <2>1, StopsHalts DEF ApplyNext
    <2>2. CASE UNCHANGED << node, driver, loose, ask >>
      BY <1>3, <2>2, UnchangedCalm DEF ApplyNext, join
    <2>. QED
      BY <1>3, <2>1, <2>2 DEF ApplyNext
  <1>4. CASE refreshTrust(n)
    <2>. DEFINE d == [node[n] EXCEPT !.trust = Range(Store(n).cas), !.ver = Store(n).ver,
                                     !.caPem = Store(n).cas]
    <2>1. node' = [node EXCEPT ![n] = d] /\ UNCHANGED join
      BY Zenon, <1>4 DEF refreshTrust, NodeShape
    <2>2. Kept(node[n], d)
      BY DEF Kept, Fields
    <2>. QED
      BY Zenon, <2>1, <2>2, KeptCalm
  <1>5. CASE Elect(n) \/ seedTrustBundle(n) \/ Admit(n)
    BY <1>5, UnchangedCalm DEF Elect, seedTrustBundle, Admit
  <1>6. ASSUME NEW m \in Node, RegisterNode(n, m) \/ RemoveNode(n, m) PROVE Calm
    BY <1>6, UnchangedCalm DEF RegisterNode, RemoveNode
  <1>. QED
    BY <1>1, <1>2, <1>3, <1>4, <1>5, <1>6 DEF NodeStep

LEMMA RotationSteps ==
    ASSUME NodeShape, NEW n \in Node, RotationStep(n)
    PROVE  Calm \/ \E m \in Node : Halts(m)
  <1>1. CASE Reissue(n)
    <2>. DEFINE m == Turn(n)
                d == [node[m] EXCEPT !.owed = driver[n].ca]
    <2>1. node' = [node EXCEPT ![m] = d] /\ UNCHANGED join
      BY <1>1 DEF Reissue
    <2>2. CASE m \in Node
      <3>1. Kept(node[m], d)
        BY <2>2 DEF Kept, Fields, NodeShape
      <3>. QED
        BY Zenon, <2>1, <2>2, <3>1, KeptCalm
    <2>3. CASE m \notin Node
      <3>1. DOMAIN node' = Node /\ \A x \in Node : node'[x] = node[x]
        BY <2>1, <2>3 DEF NodeShape
      <3>. QED
        BY <2>1, <3>1, FounderIsOne DEF Calm, OthersKept, Kept, NodeShape
    <2>. QED
      BY <2>2, <2>3
  <1>2. CASE applyReissue(n)
    <2>. DEFINE d == IF Reissuable(n) THEN Adopted(node[n]) ELSE [node[n] EXCEPT !.owed = 0]
    <2>1. node' = [node EXCEPT ![n] = d] /\ UNCHANGED join
      BY <1>2 DEF applyReissue, NodeShape
    <2>2. Kept(node[n], d)
      BY DEF Kept, Fields, NodeShape, Adopted
    <2>. QED
      BY Zenon, <2>1, <2>2, KeptCalm
  <1>3. CASE ReissueTorn(n)
    <2>1. PICK file \in {"pem", "key"} : Stops(n, [node[n] EXCEPT ![file] = node[n].owed])
      BY <1>3 DEF ReissueTorn
    <2>. DEFINE files == [node[n] EXCEPT ![file] = node[n].owed]
    <2>2. Fields \subseteq DOMAIN files /\ files.savedID = node[n].savedID
      BY DEF Fields, NodeShape
    <2>3. UNCHANGED << token, issued >>
      BY <1>3 DEF ReissueTorn
    <2>. QED
      BY Zenon, <2>1, <2>2, <2>3, StopsHalts
  <1>4. CASE RotateIssuer(n)
    <2>. DEFINE d == [node[n] EXCEPT !.caKey = driver[n].ca,
                                     !.ca = [cert |-> driver[n].ca, key |-> driver[n].ca]]
    <2>1. node' = [node EXCEPT ![n] = d] /\ UNCHANGED join
      BY Zenon, <1>4 DEF RotateIssuer, NodeShape
    <2>2. Kept(node[n], d)
      BY DEF Kept, Fields, NodeShape
    <2>. QED
      BY Zenon, <2>1, <2>2, KeptCalm
  <1>5. CASE \/ RotatePrepare(n) \/ RotateWiden(n) \/ RotateMembers(n) \/ waitMembersTrust(n)
             \/ RotateRecord(n) \/ RotateRecordUnheard(n) \/ waitCAConverged(n)
             \/ RotateNarrow(n) \/ RotateGivesUp(n)
    BY <1>5, UnchangedCalm DEF RotatePrepare, RotateWiden, RotateMembers, waitMembersTrust,
       RotateRecord, RotateRecordUnheard, waitCAConverged, RotateNarrow, RotateGivesUp
  <1>. QED
    BY <1>1, <1>2, <1>3, <1>4, <1>5 DEF RotationStep

(***************************************************************************)
(* Each kind preserves the invariant.                                      *)
(***************************************************************************)
LEMMA CalmKeeps == ASSUME TrustInv, Calm PROVE TrustInv'
  <1>1. \A x \in Node : Kept(node[x], node'[x])
    BY DEF Calm, OthersKept
  <1>2. NodeShape'
    BY <1>1 DEF Calm, OthersKept, Kept, NodeShape
  <1>3. UNCHANGED << token, ask, issued >>
    BY DEF Calm, join
  <1>4. \A x \in Node : node'[x].life = node[x].life
    BY <1>1 DEF Kept
  <1>5. \A a \in Attempt : ask[a].pc # "none" => token[ask[a].tok].by \in Node
    BY TokensAreNumbered DEF TrustInv, Shapes, AsksAreOpen
  <1>6. AsksAreOpen' /\ TokensAreSpentOnce'
    BY <1>3, <1>4, <1>5 DEF TrustInv, AsksAreOpen, TokensAreSpentOnce, Up
  <1>7. CounterIsAhead'
    BY <1>1, <1>3, FounderIsOne DEF TrustInv, CounterIsAhead, Kept, Up
  <1>. QED
    BY <1>2, <1>3, <1>6, <1>7 DEF TrustInv, Shapes, TokenShape, AskShape, TokenAdmitsOne,
       FounderIDsAreFresh

LEMMA BootKeeps == ASSUME TrustInv, NEW n \in Node, Boots(n) PROVE TrustInv'
  <1>1. \A x \in Node \ {n} : Kept(node[x], node'[x])
    BY DEF Boots, OthersKept
  <1>2. NodeShape'
    BY <1>1 DEF Boots, OthersKept, Kept, NodeShape
  <1>3. UNCHANGED << token, ask, issued >>
    BY DEF Boots, join
  <1>4. \A x \in Node : node[x].life = "up" => node'[x].life = "up"
    BY <1>1 DEF Kept, Boots
  <1>5. \A a \in Attempt : ask[a].pc # "none" => token[ask[a].tok].by \in Node
    BY TokensAreNumbered DEF TrustInv, Shapes, AsksAreOpen
  <1>6. AsksAreOpen' /\ TokensAreSpentOnce'
    BY <1>3, <1>4, <1>5 DEF TrustInv, AsksAreOpen, TokensAreSpentOnce, Up
  <1>7. CounterIsAhead'
    <2>1. CASE n = 1
      BY <1>3, <2>1 DEF TrustInv, CounterIsAhead, Boots, Up
    <2>2. CASE n # 1
      BY <1>1, <1>3, <2>2, FounderIsOne DEF TrustInv, CounterIsAhead, Kept, Up
    <2>. QED
      BY <2>1, <2>2
  <1>. QED
    BY <1>2, <1>3, <1>6, <1>7 DEF TrustInv, Shapes, TokenShape, AskShape, TokenAdmitsOne,
       FounderIDsAreFresh

\* The requests a stopped issuer was answering go with it, so that none outlives the
\* counter it would read.
LEMMA HaltKeeps == ASSUME TrustInv, NEW n \in Node, Halts(n) PROVE TrustInv'
  <1>1. \A x \in Node \ {n} : Kept(node[x], node'[x])
    BY DEF Halts, OthersKept
  <1>2. NodeShape'
    BY <1>1 DEF Halts, OthersKept, Kept, NodeShape
  <1>3. UNCHANGED << token, issued >>
    BY DEF Halts
  <1>4. PICK S : ask \in [Attempt -> AskOf(S)]
    BY DEF TrustInv, Shapes, AskShape
  <1>5. NoAsk \in AskOf(S \cup {{}}) /\ \A a \in Attempt : ask[a] \in AskOf(S \cup {{}})
    BY <1>4 DEF NoAsk, AskOf
  <1>6. \A a \in Attempt :
          \/ ask'[a] = NoAsk
          \/ /\ ask'[a] = ask[a]
             /\ ask[a].pc # "none" => token[ask[a].tok].by # n
    BY DEF Halts
  <1>7. ask' \in [Attempt -> AskOf(S \cup {{}})]
    BY Zenon, <1>5 DEF Halts
  <1>8. \A a \in Attempt : ask[a].pc # "none" => token[ask[a].tok].by \in Node
    BY TokensAreNumbered DEF TrustInv, Shapes, AsksAreOpen
  <1>9. AsksAreOpen'
    <2>1. ASSUME NEW a \in Attempt
          PROVE  IF ask'[a].pc = "none" THEN ask'[a].tok = 0
                 ELSE /\ ask'[a].tok \in DOMAIN token /\ ask'[a].node \in Joiner
                      /\ node'[token[ask'[a].tok].by].life = "up"
      <3>1. CASE ask'[a] = NoAsk
        BY <3>1 DEF NoAsk
      <3>2. CASE ask'[a] = ask[a] /\ (ask[a].pc # "none" => token[ask[a].tok].by # n)
        BY <1>1, <1>8, <3>2 DEF TrustInv, AsksAreOpen, Up, Kept
      <3>. QED
        BY <1>6, <3>1, <3>2
    <2>. QED
      BY <1>3, <2>1 DEF AsksAreOpen, Up
  <1>10. TokensAreSpentOnce'
    <2>1. \A a \in Attempt : ask'[a].pc # "none" => ask'[a] = ask[a]
      BY <1>6 DEF NoAsk
    <2>2. \A a, b \in Attempt : ask'[a].pc = "won" /\ b # a => ask'[b].tok # ask'[a].tok
      <3>. SUFFICES ASSUME NEW a \in Attempt, NEW b \in Attempt, ask'[a].pc = "won", b # a
                    PROVE  ask'[b].tok # ask'[a].tok
        OBVIOUS
      <3>1. ask'[a] = ask[a] /\ ask[a].tok \in DOMAIN token /\ ask[a].tok # ask[b].tok
        BY <2>1 DEF TrustInv, AsksAreOpen, TokensAreSpentOnce
      <3>2. 0 \notin DOMAIN token
        BY TokensAreNumbered DEF TrustInv, Shapes
      <3>. QED
        BY <1>6, <3>1, <3>2 DEF NoAsk
    <2>. QED
      BY <1>3, <2>1, <2>2 DEF TrustInv, TokensAreSpentOnce
  <1>11. CounterIsAhead'
    <2>1. CASE n = 1
      BY <1>3, <2>1 DEF TrustInv, CounterIsAhead, Halts, Up
    <2>2. CASE n # 1
      BY <1>1, <1>3, <2>2, FounderIsOne DEF TrustInv, CounterIsAhead, Kept, Up
    <2>. QED
      BY <2>1, <2>2
  <1>. QED
    BY <1>2, <1>3, <1>7, <1>9, <1>10, <1>11 DEF TrustInv, Shapes, TokenShape, AskShape,
       TokenAdmitsOne, FounderIDsAreFresh

\* Two facts about sequences over a set that grows.
LEMMA AppendWider ==
    ASSUME NEW A, NEW B, A \subseteq B, NEW s \in Seq(A), NEW e \in B
    PROVE  /\ Append(s, e) \in Seq(B) /\ DOMAIN s \subseteq DOMAIN Append(s, e)
           /\ \A i \in DOMAIN s : Append(s, e)[i] = s[i]
  <1>1. s \in Seq(B)
    OBVIOUS
  <1>2. PICK r : r = Append(s, e)
    OBVIOUS
  <1>3. /\ r \in Seq(B) /\ Len(s) \in Nat /\ Len(r) = Len(s) + 1
        /\ DOMAIN s = 1..Len(s) /\ DOMAIN r = 1..Len(r)
        /\ \A i \in 1..Len(s) : r[i] = s[i]
    BY <1>1, <1>2
  <1>. QED
    BY <1>2, <1>3

LEMMA ExceptKeeps ==
    ASSUME NEW A, NEW s \in Seq(A), NEW i \in DOMAIN s, NEW e \in A
    PROVE  LET r == [s EXCEPT ![i] = e]
           IN  /\ r \in Seq(A) /\ DOMAIN r = DOMAIN s
               /\ r[i] = e /\ \A j \in DOMAIN s \ {i} : r[j] = s[j]
  <1>1. Len(s) \in Nat /\ DOMAIN s = 1..Len(s) /\ \A j \in 1..Len(s) : s[j] \in A
    OBVIOUS
  <1>2. [s EXCEPT ![i] = e] \in [1..Len(s) -> A]
    BY <1>1
  <1>. QED
    BY <1>1, <1>2

LEMMA TokensAppend ==
    ASSUME NEW S, NEW T, NEW new \in TokenOf(T), TokenOf(S) \subseteq TokenOf(T),
           NEW s \in Seq(TokenOf(S))
    PROVE  /\ Append(s, new) \in Seq(TokenOf(T)) /\ DOMAIN s \subseteq DOMAIN Append(s, new)
           /\ \A t \in DOMAIN s : Append(s, new)[t] = s[t]
  <1>. DEFINE A == TokenOf(S)
              B == TokenOf(T)
  <1>1. A \subseteq B /\ s \in Seq(A) /\ new \in B
    OBVIOUS
  <1>2. /\ Append(s, new) \in Seq(B) /\ DOMAIN s \subseteq DOMAIN Append(s, new)
        /\ \A t \in DOMAIN s : Append(s, new)[t] = s[t]
    <2>. HIDE DEF A, B
    <2>. QED
      BY <1>1, AppendWider
  <1>. QED
    BY <1>2

LEMMA MintKeeps == ASSUME TrustInv, NEW n \in Node, mintToken(n) PROVE TrustInv'
  <1>. DEFINE ca == loadCA(node[n]).cert
              new == [by |-> n, ca |-> ca, burnt |-> FALSE]
  <1>1. token' = Append(token, new) /\ UNCHANGED << node, ask, issued >>
    BY DEF mintToken
  <1>2. PICK S : token \in Seq(TokenOf(S))
    BY DEF TrustInv, Shapes, TokenShape
  <1>. DEFINE T == S \cup {ca}
  <1>3. TokenOf(S) \subseteq TokenOf(T) /\ new \in TokenOf(T)
    BY DEF TokenOf
  <1>. HIDE DEF new, ca, T
  <1>5. /\ Append(token, new) \in Seq(TokenOf(T))
        /\ DOMAIN token \subseteq DOMAIN Append(token, new)
        /\ \A t \in DOMAIN token : Append(token, new)[t] = token[t]
    <2>1. TokenOf(S) \subseteq TokenOf(T)
      BY <1>3
    <2>2. new \in TokenOf(T)
      BY <1>3
    <2>3. token \in Seq(TokenOf(S))
      BY <1>2
    <2>4. Append(token, new) \in Seq(TokenOf(T))
      BY <2>1, <2>2, <2>3, TokensAppend
    <2>5. DOMAIN token \subseteq DOMAIN Append(token, new)
      BY <2>3, <2>2
    <2>6. \A t \in DOMAIN token : Append(token, new)[t] = token[t]
      BY <2>3, <2>2
    <2>. QED
      BY <2>4, <2>5, <2>6
  <1>6. /\ token' \in Seq(TokenOf(T)) /\ DOMAIN token \subseteq DOMAIN token'
        /\ \A t \in DOMAIN token : token'[t] = token[t]
    BY <1>1, <1>5
  <1>7. AsksAreOpen'
    BY <1>1, <1>6 DEF TrustInv, AsksAreOpen, Up
  <1>8. \A a \in Attempt : ask[a].pc # "none" => ask[a].tok \in DOMAIN token
    BY DEF TrustInv, AsksAreOpen
  <1>9. TokensAreSpentOnce'
    BY <1>1, <1>6, <1>8 DEF TrustInv, TokensAreSpentOnce
  <1>10. CounterIsAhead'
    BY <1>1 DEF TrustInv, CounterIsAhead, Up
  <1>. QED
    BY <1>1, <1>6, <1>7, <1>9, <1>10 DEF TrustInv, Shapes, NodeShape, TokenShape, AskShape,
       TokenAdmitsOne, FounderIDsAreFresh

\* A token whose record is gone is not read again.
LEMMA PresentKeeps ==
    ASSUME TrustInv, NEW a \in Attempt, NEW j \in Joiner, NEW t \in DOMAIN token,
           Present(a, j, t)
    PROVE  TrustInv'
  <1>. DEFINE new == [NoAsk EXCEPT !.pc = "read", !.tok = t, !.node = j]
  <1>1. ask' = [ask EXCEPT ![a] = new] /\ UNCHANGED << node, token, issued >>
    BY DEF Present
  <1>2. Up(token[t].by) /\ ~token[t].burnt
    BY DEF Present, dialPinned
  <1>3. PICK S : ask \in [Attempt -> AskOf(S)]
    BY DEF TrustInv, Shapes, AskShape
  <1>4. new.pc = "read" /\ new.tok = t /\ new.node = j
    BY DEF NoAsk
  <1>5. t \in Nat /\ j \in Nat
    BY FounderIsOne, TokensAreNumbered DEF TrustInv, Shapes, Joiner
  <1>6. new \in AskOf(S \cup {{}}) /\ \A b \in Attempt : ask[b] \in AskOf(S \cup {{}})
    BY Zenon, <1>3, <1>5 DEF NoAsk, AskOf
  <1>7. ask' \in [Attempt -> AskOf(S \cup {{}})]
    BY Zenon, <1>1, <1>3, <1>6
  <1>8. ask'[a] = new /\ \A b \in Attempt \ {a} : ask'[b] = ask[b]
    BY <1>1, <1>3
  <1>9. AsksAreOpen'
    BY <1>1, <1>2, <1>4, <1>8 DEF TrustInv, AsksAreOpen, Up
  <1>10. TokensAreSpentOnce'
    <2>1. ASSUME NEW b \in Attempt, ask'[b].pc = "won"
          PROVE  /\ b # a /\ ask'[b] = ask[b] /\ token[ask[b].tok].burnt
                 /\ \A i \in issued : i.tok # ask[b].tok
                 /\ \A c \in Attempt \ {b} : ask'[c].tok # ask[b].tok
      <3>1. b # a /\ ask'[b] = ask[b]
        BY Zenon, <1>4, <1>8, <2>1
      <3>2. /\ token[ask[b].tok].burnt /\ \A i \in issued : i.tok # ask[b].tok
            /\ \A c \in Attempt \ {b} : ask[c].tok # ask[b].tok
        BY <2>1, <3>1 DEF TrustInv, TokensAreSpentOnce
      <3>3. t # ask[b].tok
        BY <1>2, <3>2
      <3>. QED
        BY Zenon, <1>4, <1>8, <3>1, <3>2, <3>3
    <2>2. \A b \in Attempt : ask'[b].pc = "read" => ~token[ask'[b].tok].burnt
      BY ZenonT(40), <1>2, <1>4, <1>8 DEF TrustInv, TokensAreSpentOnce
    <2>. QED
      BY <1>1, <2>1, <2>2 DEF TrustInv, TokensAreSpentOnce
  <1>11. CounterIsAhead'
    BY <1>1 DEF TrustInv, CounterIsAhead, Up
  <1>. QED
    BY Zenon, <1>1, <1>7, <1>9, <1>10, <1>11 DEF TrustInv, Shapes, NodeShape, TokenShape, AskShape,
       TokenAdmitsOne, FounderIDsAreFresh

\* Removing the record leaves the token to one request.
LEMMA ConsumeKeeps ==
    ASSUME TrustInv, NEW a \in Attempt, consumeToken(a) PROVE TrustInv'
  <1>. DEFINE t == ask[a].tok
              won == [ask[a] EXCEPT !.pc = "won", !.view = members(token[t].by)]
  <1>1. /\ ask[a].pc = "read" /\ UNCHANGED << node, issued >>
        /\ token' = [token EXCEPT ![t].burnt = TRUE]
        /\ ask' = [x \in Attempt |->
                     IF x = a THEN won ELSE IF ask[x].tok = t THEN NoAsk ELSE ask[x]]
    BY DEF consumeToken
  <1>2. PICK S : token \in Seq(TokenOf(S))
    BY DEF TrustInv, Shapes, TokenShape
  <1>3. PICK V : ask \in [Attempt -> AskOf(V)]
    BY DEF TrustInv, Shapes, AskShape
  <1>4. t \in DOMAIN token /\ ~token[t].burnt /\ Up(token[t].by) /\ ask[a].node \in Joiner
    BY <1>1 DEF TrustInv, AsksAreOpen, TokensAreSpentOnce
  <1>. DEFINE spent == [token[t] EXCEPT !.burnt = TRUE]
              W == V \cup {{}, members(token[t].by)}
  <1>5. spent \in TokenOf(S) /\ spent.burnt /\ spent.by = token[t].by
    <2>1. token[t] \in TokenOf(S)
      BY <1>2, <1>4
    <2>. QED
      BY Zenon, <2>1 DEF TokenOf
  <1>6. /\ token' \in Seq(TokenOf(S)) /\ DOMAIN token' = DOMAIN token
        /\ token'[t] = spent /\ \A u \in DOMAIN token \ {t} : token'[u] = token[u]
    <2>1. token' = [token EXCEPT ![t] = spent]
      BY <1>1
    <2>. HIDE DEF spent
    <2>. QED
      BY <1>2, <1>4, <1>5, <2>1, ExceptKeeps
  <1>7. won.pc = "won" /\ won.tok = t /\ won.node = ask[a].node /\ won \in AskOf(W)
    BY Zenon, <1>3 DEF AskOf
  <1>8. NoAsk \in AskOf(W) /\ NoAsk.pc = "none" /\ NoAsk.tok = 0
        /\ \A b \in Attempt : ask[b] \in AskOf(W)
    BY <1>3 DEF NoAsk, AskOf
  <1>9. ask' \in [Attempt -> AskOf(W)]
    BY Zenon, <1>1, <1>7, <1>8
  <1>10. /\ ask'[a] = won
         /\ \A b \in Attempt \ {a} : \/ ask'[b] = NoAsk
                                     \/ ask'[b] = ask[b] /\ ask[b].tok # t
    BY <1>1
  <1>11. 0 \notin DOMAIN token /\ t # 0
    BY <1>4, TokensAreNumbered DEF TrustInv, Shapes
  <1>. HIDE DEF won, spent, W
  <1>12. AsksAreOpen'
    <2>1. ASSUME NEW b \in Attempt
          PROVE  IF ask'[b].pc = "none" THEN ask'[b].tok = 0
                 ELSE /\ ask'[b].tok \in DOMAIN token' /\ ask'[b].node \in Joiner
                      /\ node[token'[ask'[b].tok].by].life = "up"
      <3>1. CASE b = a
        BY <1>4, <1>5, <1>6, <1>7, <1>10, <3>1 DEF Up
      <3>2. CASE b # a /\ ask'[b] = NoAsk
        BY <1>8, <3>2
      <3>3. CASE b # a /\ ask'[b] = ask[b] /\ ask[b].tok # t
        BY <1>6, <3>3 DEF TrustInv, AsksAreOpen, Up
      <3>. QED
        BY <1>10, <3>1, <3>2, <3>3
    <2>. QED
      BY Zenon, <1>1, <2>1 DEF AsksAreOpen, Up
  <1>13. TokensAreSpentOnce'
    <2>1. \A i \in issued : i.tok # t
      BY <1>4, <1>11 DEF TrustInv, TokensAreSpentOnce
    <2>2. \A b \in Attempt \ {a} : ask'[b].tok # t
      BY <1>8, <1>10, <1>11
    <2>3. ASSUME NEW b \in Attempt, ask'[b].pc # "none", b # a
          PROVE  /\ ask'[b] = ask[b] /\ token'[ask[b].tok] = token[ask[b].tok]
                 /\ \A c \in Attempt \ {b} : ask[b].pc = "won" => ask'[c].tok # ask[b].tok
      <3>1. ask'[b] = ask[b] /\ ask[b].tok # t
        BY <1>8, <1>10, <2>3
      <3>2. ask[b].tok \in DOMAIN token
        BY <2>3, <3>1 DEF TrustInv, AsksAreOpen
      <3>3. ASSUME NEW c \in Attempt \ {b}, ask[b].pc = "won" PROVE ask'[c].tok # ask[b].tok
        <4>1. ask[c].tok # ask[b].tok
          BY <3>3 DEF TrustInv, TokensAreSpentOnce
        <4>. QED
          BY <1>7, <1>8, <1>10, <1>11, <3>1, <3>2, <4>1
      <3>. QED
        BY <1>6, <3>1, <3>2, <3>3
    <2>4. \A i \in issued : i.tok # 0 => i.tok \in DOMAIN token' /\ token'[i.tok].burnt
      BY <1>6, <2>1 DEF TrustInv, TokensAreSpentOnce
    <2>5. \A b \in Attempt : ask'[b].pc = "read" => ~token'[ask'[b].tok].burnt
      BY <1>7, <1>10, <2>3 DEF TrustInv, TokensAreSpentOnce
    <2>6. ASSUME NEW b \in Attempt, ask'[b].pc = "won"
          PROVE  /\ token'[ask'[b].tok].burnt /\ \A i \in issued : i.tok # ask'[b].tok
                 /\ \A c \in Attempt \ {b} : ask'[c].tok # ask'[b].tok
      <3>1. CASE b = a
        BY <1>5, <1>6, <1>7, <1>10, <2>1, <2>2, <3>1
      <3>2. CASE b # a
        BY <2>3, <2>6, <3>2 DEF TrustInv, TokensAreSpentOnce
      <3>. QED
        BY <3>1, <3>2
    <2>. QED
      BY <1>1, <2>4, <2>5, <2>6 DEF TokensAreSpentOnce
  <1>14. CounterIsAhead'
    BY <1>1 DEF TrustInv, CounterIsAhead, Up
  <1>. QED
    BY <1>1, <1>6, <1>9, <1>12, <1>13, <1>14 DEF TrustInv, Shapes, NodeShape, TokenShape,
       AskShape, TokenAdmitsOne, FounderIDsAreFresh

\* The identity is made after the counter that numbers it is on disk.
LEMMA IssueKeeps ==
    ASSUME TrustInv, NEW a \in Attempt, issueIdentity(a) PROVE TrustInv'
  <1>. DEFINE j == ask[a].node
              t == ask[a].tok
              n == token[t].by
              id == [node |-> j, raftID |-> node[n].nextID, tok |-> t, by |-> n]
  <1>1. ask[a].pc = "won" /\ ask' = [ask EXCEPT ![a] = NoAsk] /\ UNCHANGED token
    BY Zenon DEF issueIdentity
  <1>2. \/ UNCHANGED << node, issued >>
        \/ node' = Allocated(n, j) /\ UNCHANGED issued
        \/ /\ issued' = issued \cup {id}
           /\ node' \in {Allocated(n, j), Join(Allocated(n, j), j, id.raftID, node[n].ca.cert)}
    BY Zenon DEF issueIdentity
  <1>3. /\ t \in DOMAIN token /\ token[t].burnt /\ j \in Joiner /\ Up(n) /\ n \in Node
        /\ \A i \in issued : i.tok # t
        /\ \A b \in Attempt \ {a} : ask[b].tok # t
    BY <1>1, TokensAreNumbered DEF TrustInv, Shapes, AsksAreOpen, TokensAreSpentOnce
  <1>4. j \in Node /\ j # 1 /\ t # 0
    BY <1>3, FounderIsOne, TokensAreNumbered DEF Joiner, TrustInv, Shapes
  <1>5. PICK V : ask \in [Attempt -> AskOf(V)]
    BY DEF TrustInv, Shapes, AskShape
  <1>6. /\ ask' \in [Attempt -> AskOf(V \cup {{}})] /\ ask'[a] = NoAsk
        /\ \A b \in Attempt \ {a} : ask'[b] = ask[b]
    <2>1. NoAsk \in AskOf(V \cup {{}}) /\ \A b \in Attempt : ask[b] \in AskOf(V \cup {{}})
      BY <1>5 DEF NoAsk, AskOf
    <2>. QED
      BY Zenon, <1>1, <1>5, <2>1
  <1>7. NoAsk.pc = "none" /\ NoAsk.tok = 0
    BY DEF NoAsk
  \* The issuer's directory after the allocation.
  <1>. DEFINE d == saveConfig([node[n] EXCEPT !.nextID = node[n].nextID + 1,
                                              !.labels = node[n].labels \cup {j}])
  <1>8. /\ Fields \subseteq DOMAIN d /\ d.life = "up"
        /\ d.savedID = node[n].nextID + 1 /\ d.nextID = node[n].nextID + 1
    BY <1>3 DEF saveConfig, Fields, TrustInv, Shapes, NodeShape, Up
  <1>9. /\ DOMAIN Allocated(n, j) = Node /\ Allocated(n, j)[n] = d
        /\ \A x \in Node \ {n} : Allocated(n, j)[x] = node[x]
    BY Zenon, <1>3 DEF Allocated, TrustInv, Shapes, NodeShape
  <1>. HIDE DEF d
  \* What becomes of every node.
  <1>10. /\ NodeShape' /\ \A x \in Node : Up(x) => Up(x)'
         /\ \/ node'[1] = node[1] /\ (n = 1 => UNCHANGED issued)
            \/ node'[1] = d /\ n = 1
         /\ issued' \in {issued, issued \cup {id}}
    <2>1. CASE UNCHANGED << node, issued >>
      BY Zenon, <2>1 DEF TrustInv, Shapes, NodeShape, Up
    <2>2. CASE node' = Allocated(n, j) /\ issued' \in {issued, issued \cup {id}}
      <3>1. NodeShape' /\ \A x \in Node : Up(x) => Up(x)'
        BY Zenon, <1>8, <1>9, <2>2 DEF TrustInv, Shapes, NodeShape, Up
      <3>2. \/ node'[1] = node[1] /\ n # 1
            \/ node'[1] = d /\ n = 1
        BY Zenon, <1>9, <2>2, FounderIsOne
      <3>. QED
        BY Zenon, <2>2, <3>1, <3>2
    <2>3. CASE /\ node' = Join(Allocated(n, j), j, id.raftID, node[n].ca.cert)
               /\ issued' = issued \cup {id}
      <3>. DEFINE e == Directory(id.raftID, node[n].ca.cert, 0, 0, {j})
      <3>1. Fields \subseteq DOMAIN e
        BY Zenon DEF Directory, Outside, Fields
      <3>. HIDE DEF e
      <3>2. /\ DOMAIN node' = Node /\ \A x \in Node \ {j} : node'[x] = Allocated(n, j)[x]
            /\ \/ node'[j] = Allocated(n, j)[j]
               \/ Allocated(n, j)[j].life = "none" /\ node'[j] = e
        BY Zenon, <1>4, <1>9, <2>3 DEF Join, e
      <3>3. NodeShape'
        BY Zenon, <1>8, <1>9, <3>1, <3>2 DEF TrustInv, Shapes, NodeShape
      <3>4. ASSUME NEW x \in Node, Up(x)
            PROVE  Up(x)'
        <4>1. Allocated(n, j)[x].life = "up"
          BY Zenon, <1>8, <1>9, <3>4 DEF Up
        <4>2. node'[x] = Allocated(n, j)[x]
          BY Zenon, <3>2, <4>1
        <4>. QED
          BY Zenon, <4>1, <4>2 DEF Up
      <3>5. \/ node'[1] = node[1] /\ n # 1
            \/ node'[1] = d /\ n = 1
        BY Zenon, <1>4, <1>9, <3>2, FounderIsOne
      <3>. QED
        BY Zenon, <2>3, <3>3, <3>4, <3>5
    <2>. QED
      BY Zenon, <1>2, <2>1, <2>2, <2>3
  <1>11. AsksAreOpen'
    <2>1. \A b \in Attempt : ask[b].pc # "none" => token[ask[b].tok].by \in Node
      BY TokensAreNumbered DEF TrustInv, Shapes, AsksAreOpen
    <2>2. ASSUME NEW b \in Attempt
          PROVE  IF ask'[b].pc = "none" THEN ask'[b].tok = 0
                 ELSE /\ ask'[b].tok \in DOMAIN token /\ ask'[b].node \in Joiner
                      /\ node'[token[ask'[b].tok].by].life = "up"
      <3>1. CASE b = a
        BY <1>6, <1>7, <3>1
      <3>2. CASE b # a
        BY <1>1, <1>6, <1>10, <2>1, <3>2 DEF TrustInv, AsksAreOpen, Up
      <3>. QED
        BY <3>1, <3>2
    <2>. QED
      BY <1>1, <2>2 DEF AsksAreOpen, Up
  <1>12. \A i \in issued' : i \in issued \/ i = id
    BY Zenon, <1>10
  <1>13. id.tok = t /\ id.by = n /\ id.raftID = node[n].nextID
    OBVIOUS
  <1>. HIDE DEF id
  <1>14. TokensAreSpentOnce'
    <2>1. ASSUME NEW b \in Attempt, ask'[b].pc \in {"read", "won"}
          PROVE  b # a /\ ask'[b] = ask[b] /\ ask[b].tok # t
      BY <1>3, <1>6, <1>7, <2>1
    <2>2. ASSUME NEW b \in Attempt, ask'[b].pc = "won"
          PROVE  /\ token[ask'[b].tok].burnt /\ \A i \in issued' : i.tok # ask'[b].tok
                 /\ \A c \in Attempt \ {b} : ask'[c].tok # ask'[b].tok
      <3>1. ask'[b] = ask[b] /\ ask[b].tok # t /\ ask[b].tok # 0
        <4>1. ask'[b] = ask[b] /\ ask[b].tok # t
          BY <2>1, <2>2
        <4>2. ask[b].tok \in DOMAIN token
          BY <2>2, <4>1 DEF TrustInv, AsksAreOpen
        <4>. QED
          BY <4>1, <4>2, TokensAreNumbered DEF TrustInv, Shapes
      <3>2. /\ token[ask[b].tok].burnt /\ \A i \in issued : i.tok # ask[b].tok
            /\ \A c \in Attempt \ {b} : ask[c].tok # ask[b].tok
        BY <2>2, <3>1 DEF TrustInv, TokensAreSpentOnce
      <3>. QED
        BY <1>6, <1>7, <1>12, <1>13, <3>1, <3>2
    <2>3. \A i \in issued' : i.tok # 0 => i.tok \in DOMAIN token /\ token[i.tok].burnt
      BY <1>3, <1>12, <1>13 DEF TrustInv, TokensAreSpentOnce
    <2>4. \A b \in Attempt : ask'[b].pc = "read" => ~token[ask'[b].tok].burnt
      BY <2>1 DEF TrustInv, TokensAreSpentOnce
    <2>. QED
      BY <1>1, <2>2, <2>3, <2>4 DEF TokensAreSpentOnce
  <1>15. TokenAdmitsOne'
    BY <1>3, <1>12, <1>13 DEF TrustInv, TokenAdmitsOne
  <1>16. CounterIsAhead' /\ FounderIDsAreFresh'
    <2>1. CASE node'[1] = node[1] /\ (n = 1 => UNCHANGED issued)
      <3>1. \A i \in issued' : i.by = 1 => i \in issued
        BY <1>12, <1>13, <2>1
      <3>. QED
        BY <2>1, <3>1 DEF TrustInv, CounterIsAhead, FounderIDsAreFresh, Up
    <2>2. CASE node'[1] = d /\ n = 1
      <3>1. node[1].nextID = node[1].savedID /\ node[1].savedID \in Nat
        BY <1>3, <2>2 DEF TrustInv, CounterIsAhead
      <3>2. /\ node'[1].life = "up" /\ node'[1].savedID = node[1].savedID + 1
            /\ node'[1].nextID = node[1].savedID + 1
        BY <1>8, <2>2, <3>1
      <3>3. id.raftID = node[1].savedID
        BY <1>13, <2>2, <3>1
      <3>4. \A i \in issued : i.by = 1 => i.raftID \in Nat /\ i.raftID < node[1].savedID
        BY DEF TrustInv, CounterIsAhead
      <3>5. CounterIsAhead'
        BY <1>12, <3>1, <3>2, <3>3, <3>4 DEF CounterIsAhead, Up
      <3>6. FounderIDsAreFresh'
        BY <1>12, <3>1, <3>3, <3>4 DEF TrustInv, FounderIDsAreFresh
      <3>. QED
        BY <3>5, <3>6
    <2>. QED
      BY <1>10, <2>1, <2>2
  <1>. QED
    BY Zenon, <1>1, <1>6, <1>10, <1>11, <1>14, <1>15, <1>16 DEF TrustInv, Shapes, TokenShape,
       AskShape

LEMMA TrustStep == ASSUME TrustInv, [Next]_vars PROVE TrustInv'
  <1>. NodeShape
    BY DEF TrustInv, Shapes
  <1>1. ASSUME NEW n \in Node, NodeStep(n) \/ RotationStep(n) PROVE TrustInv'
    BY <1>1, NodeSteps, RotationSteps, CalmKeeps, BootKeeps, HaltKeeps, MintKeeps
  <1>2. ASSUME NEW a \in Attempt, JoinStep(a) PROVE TrustInv'
    BY <1>2, PresentKeeps, ConsumeKeeps, IssueKeeps DEF JoinStep
  <1>3. CASE LooseBundle
    BY <1>3, UnchangedCalm, CalmKeeps DEF LooseBundle
  <1>4. CASE UNCHANGED vars
    BY <1>4, UnchangedCalm, CalmKeeps DEF vars
  <1>. QED
    BY <1>1, <1>2, <1>3, <1>4 DEF Next

\* TokenAdmitsOne: however uses of a token interleave with each other and with crashes of
\* its issuer, one identity comes of it (token.go consumeToken, join.go handleJoin).
THEOREM TokensBuyOnce == Spec => []TokenAdmitsOne
  <1>1. TrustInv => TokenAdmitsOne
    BY DEF TrustInv
  <1>. QED
    BY <1>1, TrustInit, TrustStep, PTL DEF Spec

\* FounderIDsAreFresh: the founding node never gives out a Raft ID twice, wherever it
\* crashes and whatever responses are lost (join.go issueIdentity).
THEOREM FounderNeverReuses == Spec => []FounderIDsAreFresh
  <1>1. TrustInv => FounderIDsAreFresh
    BY DEF TrustInv
  <1>. QED
    BY <1>1, TrustInit, TrustStep, PTL DEF Spec
=============================================================================
