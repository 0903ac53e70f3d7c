---------------------------- MODULE Coordinator ----------------------------
(***************************************************************************)
(* The data path of one node's coordinator: a streamed PUT fed by the      *)
(* HTTP handler under back-pressure, a GET that reads any k shards, the    *)
(* admission limiter both pass through and the passive failure detector    *)
(* both feed (internal/coord put.go, part.go, get.go, limiter.go and       *)
(* liveness.go, and the feeder in internal/cluster/serve.go).              *)
(*                                                                         *)
(* Everything but the feeder runs on the node's loop, one callback at a    *)
(* time.  A behaviour follows one type of operation, PUT or GET: the types *)
(* have limiters of their own and share the detector's marks only.  One    *)
(* operation at a time is followed in detail, again and again; the node's  *)
(* others come and go in the limiter, and set and clear marks.  A body is  *)
(* counted in the chunks the feeder reads, a shard's unacknowledged bytes  *)
(* in the slices one chunk adds to it.  ShardTransfer is about one shard's *)
(* write, CommitPath about the metadata commit.                            *)
(***************************************************************************)
EXTENDS Integers, Sequences, FiniteSets, FiniteSetsExt

CONSTANTS
    Width,         \* the shards of an object, data and parity
    DataShards,    \* the data shards of the object put, and of the one got
    Chunks,        \* full chunks in the body
    MaxOut,        \* chunks that may be requested ahead
    Window,        \* what a shard stream buffers unacknowledged
    CloseNeed,     \* the room closing the frame needs in every stream
    LimiterFloor, LimiterCeiling, LimiterStart,
    MaxOthers,     \* bound on the node's other operations of the type
    Parts          \* the parts of the object read, 1 when it was put whole

ASSUME CoordinatorAssumption ==
    /\ Width \in Nat /\ DataShards \in [{"put", "get"} -> 1..Width]
    /\ Chunks \in Nat /\ MaxOut \in Nat \ {0}
    /\ Window \in Nat /\ CloseNeed \in 1..Window /\ Parts \in Nat \ {0}
    /\ {LimiterFloor, LimiterStart, LimiterCeiling} \subseteq Nat \ {0} /\ MaxOthers \in Nat
    /\ LimiterFloor <= LimiterStart /\ LimiterStart <= LimiterCeiling

VARIABLES
    op,       \* the type of operation followed
    put,      \* the PUT followed: coordinator, streams, feeder and holders
    get,      \* the GET followed
    limiter,  \* its type's limit and count in flight
    others,   \* how many other operations of the type are admitted
    down      \* the shard holders marked down

vars == << op, put, get, limiter, others, down >>

Ops   == {"put", "get"}
K     == DataShards[op]
Index == 1..Width

\* The durability floor of the ack rule.
Floor == IF K + 1 < Width THEN K + 1 ELSE Width

(***************************************************************************)
(* Admission.                                                              *)
(***************************************************************************)
Sheds == limiter.inflight >= limiter.limit

tryAcquire ==
    /\ ~Sheds
    /\ limiter' = [limiter EXCEPT !.inflight = @ + 1]

\* The latency gradient is at its threshold or below it: either may be.
Released(l, headroom) ==
    [inflight |-> IF l.inflight > 0 THEN l.inflight - 1 ELSE 0,
     limit    |-> IF headroom THEN Min({l.limit + 1, LimiterCeiling})
                  ELSE Max({LimiterFloor, (l.limit * 9) \div 10})]

release == \E headroom \in BOOLEAN : limiter' = Released(limiter, headroom)

\* The two in one callback.
AcquiredAndReleased ==
    /\ ~Sheds
    /\ \E headroom \in BOOLEAN :
         limiter' = Released([limiter EXCEPT !.inflight = @ + 1], headroom)

OtherBegins ==
    /\ others < MaxOthers
    /\ tryAcquire
    /\ others' = others + 1
    /\ UNCHANGED << op, put, get, down >>

\* One more arrives at a full limiter and is turned away.
OtherShed == Sheds /\ UNCHANGED vars

OtherEnds ==
    /\ others > 0
    /\ release
    /\ others' = others - 1
    /\ UNCHANGED << op, put, get, down >>

(***************************************************************************)
(* The failure detector: silence marks a holder down for a while, a        *)
(* success clears it, an answer with an error leaves the view alone.       *)
(***************************************************************************)
observe(i, outcome) ==
    down' = CASE outcome = "ok"          -> down \ {i}
              [] outcome = "unreachable" -> down \cup {i}
              [] OTHER                   -> down

\* The mark lapses, or another operation, a GET among them, sets or clears it.
\* Only the beginning of a PUT looks, so it changes between PUTs.
Remark(i) ==
    /\ op = "put" /\ put.pc = "idle"
    /\ \/ i \in down /\ down' = down \ {i}
       \/ i \notin down /\ down' = down \cup {i}
    /\ UNCHANGED << op, put, get, limiter, others >>

\* Marked holders are skipped, unless too few would be left for the floor.
Skipped == IF Width - Cardinality(down) < Floor THEN {} ELSE down

(***************************************************************************)
(* PUT.                                                                    *)
(***************************************************************************)
NoPut == [pc |-> "idle", result |-> "none",
          pending |-> 0, encoded |-> 0, outstanding |-> 0, eof |-> FALSE, closed |-> FALSE,
          stream |-> [i \in Index |-> "none"], buf |-> [i \in Index |-> 0],
          held |-> [i \in Index |-> "none"], deleting |-> {},
          feeder |-> "idle", wants |-> 0, read |-> 0, posts |-> << >>, feedErr |-> FALSE]

Live(r) == {i \in Index : r.stream[i] = "live"}
Count(r, states) == Cardinality({i \in Index : r.stream[i] \in states})

\* cleanup: a delete to every holder.
cleanup(r) == [r EXCEPT !.deleting = Index]

fail(r, why) == [cleanup(r) EXCEPT !.pc = "done", !.result = why]

\* Stop every live stream, reclaim, fail.
abort(r, why) ==
    [fail(r, why) EXCEPT !.stream = [i \in Index |-> IF i \in Live(r) THEN "failed" ELSE @[i]]]

\* Mutant: chunks already asked for are asked for again.
replenish_ForgetsOutstanding(r) ==
    [r EXCEPT !.outstanding = MaxOut, !.wants = @ + MaxOut]

\* Ask the feeder for chunks.  Reached with an empty buffer only.
replenish(r) ==
    [r EXCEPT !.outstanding = MaxOut, !.wants = @ + (MaxOut - r.outstanding)]

\* Mutant: body is encoded without asking the windows.
Encode_IgnoresWindows(r) ==
    LET n == r.pending
    IN  [r EXCEPT !.pending = @ - n, !.encoded = @ + n,
                  !.buf = [i \in Index |-> IF i \in Live(r) THEN @[i] + n ELSE @[i]]]

\* Encode what every live stream has room for.
Encode(r) ==
    LET n == Min({r.pending} \cup {Window - r.buf[i] : i \in Live(r)})
    IN  [r EXCEPT !.pending = @ - n, !.encoded = @ + n,
                  !.buf = [i \in Index |-> IF i \in Live(r) THEN @[i] + n ELSE @[i]]]

windowsAllow(r, need) == \A i \in Live(r) : Window - r.buf[i] >= need

\* Mutant: a short body closes the frame.
Close_NoSizeCheck(r) ==
    IF FALSE THEN abort(r, "error")
    ELSE [r EXCEPT !.closed = TRUE,
                   !.held = [i \in Index |-> IF i \in Live(r) THEN "sent" ELSE @[i]]]

\* The frame closes only over the declared size; then every live stream commits.
Close(r) ==
    IF r.encoded # Chunks THEN abort(r, "error")
    ELSE [r EXCEPT !.closed = TRUE,
                   !.held = [i \in Index |-> IF i \in Live(r) THEN "sent" ELSE @[i]]]

Paced(e) ==
    IF e.pending > 0 THEN e
    ELSE IF ~e.eof THEN replenish(e)
    ELSE IF windowsAllow(e, CloseNeed) THEN Close(e) ELSE e

step(r) == IF r.pc = "open" /\ ~r.closed THEN Paced(Encode(r)) ELSE r

\* The ack rule, once every stream has reported.
evaluate(r) ==
    IF Count(r, {"ok"}) < Floor \/ ~r.closed THEN fail(r, "refused")
    ELSE [r EXCEPT !.pc = "commit"]

\* Mutant: a failed stream that was holding the others back does not wake the pacing.
streamDone_NoStep(r, i, outcome) ==
    LET s == [r EXCEPT !.stream[i] = IF outcome = "ok" THEN "ok" ELSE "failed"]
        failures == Count(s, {"skipped", "failed"})
        reported == failures + Count(s, {"ok"})
    IN  IF reported = Width THEN evaluate(s)
        ELSE IF outcome # "ok" /\ failures > Width - Floor THEN abort(s, "refused")
        ELSE s

streamDone(r, i, outcome) ==
    LET s == [r EXCEPT !.stream[i] = IF outcome = "ok" THEN "ok" ELSE "failed"]
        failures == Count(s, {"skipped", "failed"})
        reported == failures + Count(s, {"ok"})
    IN  IF reported = Width THEN evaluate(s)
        ELSE IF outcome # "ok" /\ failures > Width - Floor THEN abort(s, "refused")
        ELSE step(s)

\* Mutant: a refused or aborted PUT keeps its slot.
PutBecomes_ReleasesOnSuccess(r) ==
    /\ put' = r
    /\ IF put.result = "none" /\ put'.result = "ok" THEN release ELSE UNCHANGED limiter

\* The wrapped done: the slot is released on whatever path ends the PUT.
PutBecomes(r) ==
    /\ put' = r
    /\ IF put.result = "none" /\ put'.result # "none" THEN release ELSE UNCHANGED limiter

PutShed ==
    /\ op = "put" /\ put.pc = "idle" /\ Sheds
    /\ put' = [NoPut EXCEPT !.pc = "done", !.result = "shed", !.feeder = "done"]
    /\ UNCHANGED << op, get, limiter, others, down >>

beginPut ==
    /\ op = "put" /\ put.pc = "idle"
    /\ tryAcquire
    /\ put' = replenish([NoPut EXCEPT
                  !.pc = "open", !.feeder = "want",
                  !.stream = [i \in Index |-> IF i \in Skipped THEN "skipped" ELSE "live"]])
    /\ UNCHANGED << op, get, others, down >>

\* No layout, no placement, no usable key: admitted, and done before any stream
\* is open.
PutSetupFails ==
    /\ op = "put" /\ put.pc = "idle"
    /\ AcquiredAndReleased
    /\ put' = [NoPut EXCEPT !.pc = "done", !.result = "refused", !.feeder = "done"]
    /\ UNCHANGED << op, get, others, down >>

(***************************************************************************)
(* The feeder, on the handler's goroutine.                                 *)
(***************************************************************************)
FeederPosts(msgs, read, feeder, err) ==
    put' = [put EXCEPT !.wants = @ - 1, !.posts = @ \o msgs, !.read = read,
                       !.feeder = feeder, !.feedErr = err]

\* A want credit, then one read of the body: a chunk, a last short chunk, the
\* end (perhaps early), or an error.
FeederReads ==
    /\ put.feeder = "want" /\ put.wants > 0
    /\ \/ put.read < Chunks /\ FeederPosts(<< "chunk" >>, put.read + 1, "want", FALSE)
       \/ put.read = Chunks - 1 /\ FeederPosts(<< "chunk", "eof" >>, put.read + 1, "wait", FALSE)
       \/ FeederPosts(<< "eof" >>, put.read, "wait", FALSE)
       \/ FeederPosts(<< "abort" >>, put.read, "wait", TRUE)
    /\ UNCHANGED << op, get, limiter, others, down >>

\* done has fired: the feeder stops asking, and the handler returns.
FeederFinishes ==
    /\ put.feeder \in {"want", "wait"} /\ put.result # "none"
    /\ put' = [put EXCEPT !.feeder = "done"]
    /\ UNCHANGED << op, get, limiter, others, down >>

Feed(r) == step([r EXCEPT !.pending = @ + 1, !.outstanding = IF @ > 0 THEN @ - 1 ELSE 0])

FeedEOF(r) == step([r EXCEPT !.eof = TRUE])

\* The loop runs what the feeder posted.
RunPost ==
    /\ put.posts # << >>
    /\ LET msg == Head(put.posts)
           r == [put EXCEPT !.posts = Tail(@)]
       IN  PutBecomes(IF r.pc # "open" THEN r
                      ELSE CASE msg = "chunk" -> Feed(r)
                             [] msg = "eof"   -> FeedEOF(r)
                             [] msg = "abort" -> abort(r, "error"))
    /\ UNCHANGED << op, get, others, down >>

(***************************************************************************)
(* The shard streams.                                                      *)
(***************************************************************************)
\* Acknowledged progress opens a window.
StreamAck(i) ==
    /\ put.pc = "open" /\ i \in Live(put)
    /\ \E left \in 0..(put.buf[i] - 1) :
         LET r == [put EXCEPT !.buf[i] = left]
         IN  PutBecomes(step(r))
    /\ UNCHANGED << op, get, others, down >>

\* The holder fsyncs the shard and its marker.  What becomes of a shard whose PUT
\* has ended is ShardTransfer's subject.
HolderCommits(i) ==
    /\ put.pc = "open" /\ put.held[i] = "sent"
    /\ put' = [put EXCEPT !.held[i] = "durable"]
    /\ UNCHANGED << op, get, limiter, others, down >>

StreamCommitted(i) ==
    /\ put.pc = "open" /\ i \in Live(put) /\ put.held[i] = "durable"
    /\ PutBecomes(streamDone(put, i, "ok"))
    /\ observe(i, "ok")
    /\ UNCHANGED << op, get, others >>

\* A stream owed an answer gives up, or is answered with an error.
StreamFails(i) ==
    /\ put.pc = "open" /\ i \in Live(put)
    /\ put.buf[i] > 0 \/ put.closed
    /\ \E outcome \in {"unreachable", "error"} :
         PutBecomes(streamDone(put, i, outcome)) /\ observe(i, outcome)
    /\ UNCHANGED << op, get, others >>

\* The metadata commit answers (PutObject, or UploadPart for a part).
commitPutObject ==
    /\ put.pc = "commit" /\ put.result = "none"
    /\ \/ PutBecomes([put EXCEPT !.pc = "done", !.result = "ok"])
       \/ PutBecomes(fail(put, "error"))
    /\ UNCHANGED << op, get, others, down >>

PutReturns ==
    /\ put.feeder = "done" /\ put.posts = << >>
    /\ put' = NoPut
    /\ UNCHANGED << op, get, limiter, others, down >>

(***************************************************************************)
(* GET.  A shard is asked for at its home in the current layout and, in a  *)
(* transition, at the home it had before.  "held" is where the part's      *)
(* shards are, "rotten" those that no longer carry what was written.       *)
(***************************************************************************)
Homes == {"new", "old"}

NoGet == [pc |-> "idle", result |-> "none", part |-> 0,
          held |-> {}, rotten |-> {}, probes |-> {},
          source |-> [i \in Index |-> "none"], failed |-> {}, fetching |-> {}, used |-> {}]

Rots == {{}} \cup {{i} : i \in Index}

Answered(r) == {i \in Index : r.source[i] # "none"}

\* Where a part's shards are and are asked for: no transition is open, or one is
\* and the part was written since it opened, or before; one copy may have rotted
\* on disk.
Sightings ==
    {l \in [home : Homes, asked : {{"new"}, Homes}, rotten : Rots] : l.home \in l.asked}

fetchHeaders(r) ==
    {[r EXCEPT !.pc = "headers", !.part = @ + 1, !.rotten = l.rotten,
               !.held = Index \X {l.home}, !.probes = Index \X l.asked,
               !.source = NoGet.source, !.failed = {}, !.used = {}] : l \in Sightings}

GetBecomes(r) ==
    /\ get' = r
    /\ IF get'.result # "none" THEN release ELSE UNCHANGED limiter

GetShed ==
    /\ op = "get" /\ get.pc = "idle" /\ Sheds
    /\ get' = [NoGet EXCEPT !.pc = "done", !.result = "shed"]
    /\ UNCHANGED << op, put, limiter, others, down >>

GetEntry ==
    /\ op = "get" /\ get.pc = "idle"
    /\ tryAcquire
    /\ get' \in fetchHeaders(NoGet)
    /\ UNCHANGED << op, put, others, down >>

\* No layout, no placement, no key that unwraps the object's.
GetSetupFails ==
    /\ op = "get" /\ get.pc = "idle"
    /\ AcquiredAndReleased
    /\ get' = [NoGet EXCEPT !.pc = "done", !.result = "error"]
    /\ UNCHANGED << op, put, others, down >>

\* The sweep copies a shard to its new home while headers are asked for; where
\* else a shard is no longer matters once its source is pinned.
SweepCopies(i) ==
    /\ get.pc = "headers" /\ << i, "new" >> \notin get.held
    /\ get' = [get EXCEPT !.held = @ \cup {<< i, "new" >>}]
    /\ UNCHANGED << op, put, limiter, others, down >>

\* A front that is no shard of the object is dropped, then k are needed.
planSlices(r, bad) ==
    LET fronts == Answered(r) \ bad
        s == [r EXCEPT !.failed = Index \ fronts, !.held = {}]
    IN  IF Cardinality(fronts) < K THEN [s EXCEPT !.pc = "done", !.result = "unreadable"]
        ELSE [s EXCEPT !.pc = "slices", !.fetching = fronts]

\* Mutant: the plan is made at the first answers.
HeaderFetched_PlansEarly(i, h) ==
    /\ get.pc = "headers" /\ << i, h >> \in get.probes
    /\ \E ok \in BOOLEAN :
         LET r == [get EXCEPT !.probes = @ \ {<< i, h >>},
                              !.source[i] = IF ok /\ @ = "none" THEN h ELSE @]
         IN  /\ ok => << i, h >> \in get.held
             /\ IF r.probes = {} \/ Cardinality(Answered(r)) >= K - 1
                THEN \E bad \in SUBSET (r.rotten \cap Answered(r)) : GetBecomes(planSlices(r, bad))
                ELSE GetBecomes(r)
    /\ UNCHANGED << op, put, others, down >>

\* One probe of a file front resolves: the first answer for a shard pins where
\* its slices are read; with k of them, or none left to wait for, plan.
HeaderFetched(i, h) ==
    /\ get.pc = "headers" /\ << i, h >> \in get.probes
    /\ \E ok \in BOOLEAN :
         LET r == [get EXCEPT !.probes = @ \ {<< i, h >>},
                              !.source[i] = IF ok /\ @ = "none" THEN h ELSE @]
         IN  /\ ok => << i, h >> \in get.held
             /\ IF r.probes = {} \/ Cardinality(Answered(r)) >= K
                THEN \E bad \in SUBSET (r.rotten \cap Answered(r)) : GetBecomes(planSlices(r, bad))
                ELSE GetBecomes(r)
    /\ UNCHANGED << op, put, others, down >>

\* The shards the decode reads: the data shards if it has them all, else the
\* first k it has.
Chosen(present) ==
    IF 1..K \subseteq present THEN 1..K
    ELSE CHOOSE c \in SUBSET present :
           Cardinality(c) = K /\ \A i \in c, j \in present \ c : i < j

\* Decode, verifying; the next part, or the whole.
assemble(r) ==
    LET present == Index \ r.failed
        c == Chosen(present)
    IN  IF Cardinality(present) < K THEN {[r EXCEPT !.pc = "done", !.result = "unreadable"]}
        ELSE IF c \cap r.rotten # {}
        THEN {[r EXCEPT !.pc = "done", !.result = "error", !.used = c]}
        ELSE IF r.part < Parts THEN fetchHeaders(r)
        ELSE {[r EXCEPT !.pc = "done", !.result = "ok", !.used = c]}

\* The covering slices of one shard are in, or one piece of them is lost.
SlicesFetched(i) ==
    /\ get.pc = "slices" /\ i \in get.fetching
    /\ \E ok \in BOOLEAN :
         LET r == [get EXCEPT !.fetching = @ \ {i},
                              !.failed = IF ok THEN @ ELSE @ \cup {i}]
         IN  \E next \in (IF r.fetching = {} THEN assemble(r) ELSE {r}) : GetBecomes(next)
    /\ UNCHANGED << op, put, others, down >>

GetReturns ==
    /\ get.pc = "done"
    /\ get' = NoGet
    /\ UNCHANGED << op, put, limiter, others, down >>

Init ==
    /\ op \in Ops
    /\ put = NoPut /\ get = NoGet
    /\ limiter = [limit |-> LimiterStart, inflight |-> 0]
    /\ others = 0 /\ down = {}

StreamMoves(i) == StreamAck(i) \/ StreamCommitted(i) \/ StreamFails(i)

FetchMoves(i) == SlicesFetched(i) \/ \E h \in Homes : HeaderFetched(i, h)

FeederMoves == FeederReads \/ FeederFinishes

\* What the operation followed is waiting for.
Progress ==
    \/ FeederMoves \/ RunPost \/ commitPutObject
    \/ \E i \in Index : StreamMoves(i) \/ FetchMoves(i)

Next ==
    \/ OtherBegins \/ OtherShed \/ OtherEnds
    \/ PutShed \/ beginPut \/ PutSetupFails \/ PutReturns
    \/ GetShed \/ GetEntry \/ GetSetupFails \/ GetReturns
    \/ \E i \in Index :
         Remark(i) \/ HolderCommits(i) \/ SweepCopies(i)
    \/ Progress

(***************************************************************************)
(* One of the callbacks an operation waits for comes: the loop runs what   *)
(* is posted; a stream owed an acknowledgement hears of it or runs out its *)
(* retransmission budget, and so does a fetch; the body's reader returns;  *)
(* a proposal is answered, which is CommitPath's business.                 *)
(***************************************************************************)
Spec == Init /\ [][Next]_vars /\ WF_vars(Progress)

-----------------------------------------------------------------------------
PutRecord ==
    [pc : {"idle", "open", "commit", "done"},
     result : {"none", "ok", "shed", "refused", "error"},
     pending : 0..MaxOut, encoded : 0..Chunks, outstanding : 0..MaxOut,
     eof : BOOLEAN, closed : BOOLEAN,
     stream : [Index -> {"none", "live", "skipped", "failed", "ok"}],
     buf : [Index -> 0..Window], held : [Index -> {"none", "sent", "durable"}],
     deleting : SUBSET Index, feeder : {"idle", "want", "wait", "done"},
     wants : 0..MaxOut, read : 0..Chunks,
     posts : {<< >>} \cup UNION {[1..n -> {"chunk", "eof", "abort"}] : n \in 1..(MaxOut + 1)},
     feedErr : BOOLEAN]

GetRecord ==
    [pc : {"idle", "headers", "slices", "done"},
     result : {"none", "ok", "shed", "unreadable", "error"}, part : 0..Parts,
     held : SUBSET (Index \X Homes), rotten : SUBSET Index,
     probes : SUBSET (Index \X Homes), source : [Index -> Homes \cup {"none"}],
     failed : SUBSET Index, fetching : SUBSET Index, used : SUBSET Index]

\* Every variable has its type; in particular a stream never holds more than its
\* window, and the limit stays between its floor and its ceiling.
TypeOK ==
    /\ op \in Ops /\ put \in PutRecord /\ get \in GetRecord
    /\ limiter \in [limit : LimiterFloor..LimiterCeiling, inflight : 0..LimiterCeiling]
    /\ others \in 0..MaxOthers /\ down \subseteq Index

\* The chunks among what the feeder posted.
Posted(posts) == Cardinality({j \in DOMAIN posts : posts[j] = "chunk"})

\* put.go bounds what of a body a node holds: chunks asked for, on their way and
\* buffered never exceed the window, so the want channel, one larger, never
\* blocks the loop.
BodyWithinWindow ==
    /\ put.outstanding + put.pending <= MaxOut
    /\ put.pc = "open" => put.wants + Posted(put.posts) <= put.outstanding

\* put.go and serve.go acknowledge a PUT only when the whole declared body went
\* through the encoder, no read of it failed, and the floor's worth of shards is
\* durable on the holders, with nothing on its way that would delete them.
AckedIsWhole ==
    put.result = "ok" =>
        /\ put.encoded = Chunks /\ put.read = Chunks /\ ~put.feedErr
        /\ Cardinality({i \in Index : put.held[i] = "durable"}) >= Floor
        /\ put.deleting = {}

Busy == put.pc \in {"open", "commit"} \/ get.pc \in {"headers", "slices"}

\* limiter.go: the count in flight is the operations admitted and not answered,
\* whichever way each ended, so an idle node always admits.
InflightIsExact ==
    /\ limiter.inflight = others + (IF Busy THEN 1 ELSE 0)
    /\ limiter.inflight = 0 => ~Sheds

\* get.go answers bytes only from k shards none of which is rotten, for every
\* part; and calls an object unreadable only when it has waited for every holder
\* or a shard it had chosen fell through.
GetIsHonest ==
    /\ get.result = "ok" =>
         /\ get.part = Parts /\ Cardinality(get.used) >= K
         /\ get.used \cap get.rotten = {} /\ get.used \cap get.failed = {}
    /\ get.result = "unreadable" =>
         get.probes = {} \/ Answered(get) \cap get.failed # {}

\* A PUT whose streams opened has its handler return, and a GET is answered,
\* however the body, the streams and the holders behave.
EveryOperationEnds ==
    /\ put.feeder = "want" ~> put.feeder = "done"
    /\ get.pc = "headers" ~> get.pc = "done"
=============================================================================
