---------------------------- MODULE ShardTransfer ----------------------------
(***************************************************************************)
(* The transfer of one shard to one node (internal/datapath): the write    *)
(* streams of the coordinators, the receiver's staging, the shard file and *)
(* its commit marker, and shard deletion.                                  *)
(*                                                                         *)
(* The network is the set of messages ever sent: one may arrive late, out  *)
(* of order, many times or never, so that a retransmission adds nothing.   *)
(* The receiver's loop handles one message at a time; the handlers that    *)
(* touch the disk more than once take a step per disk operation, because   *)
(* the node may crash between two of them.  Of a file, cur is what reads   *)
(* see and dur is what a crash leaves (internal/seam, Disk).               *)
(*                                                                         *)
(* A shard is Length chunks, and chunk k is the number k: all streams of a *)
(* shard carry the same bytes, because a data ID is written once and       *)
(* repair rebuilds the same shard.  A missing file is an empty one, and a  *)
(* running hash is the sequence it was fed.                                *)
(***************************************************************************)
EXTENDS Integers, Sequences, FiniteSets

CONSTANTS
    Coord,      \* the nodes that write or delete the shard
    Transfer,   \* write streams, numbered in the order in which they start
    MaxID,      \* bound on stream IDs
    Length,     \* chunks of the shard
    Window,     \* chunks that a stream may have unacknowledged
    Overlap,    \* TRUE: a delete may arrive while the shard is being staged
    Errors,     \* the disk operations that may fail
    MaxFaults   \* bound on crashes and disk errors

ASSUME ShardAssumption ==
    /\ Coord # {}
    /\ Transfer \subseteq Nat
    /\ MaxID \in Nat
    /\ Length \in Nat \ {0}
    /\ Window \in Nat \ {0}
    /\ Overlap \in BOOLEAN
    /\ Errors \subseteq {"append", "write", "sync", "mark", "marksync", "unmark", "remove"}
    /\ MaxFaults \in Nat

VARIABLES
    sender,     \* WriteStream of each transfer
    nextReq,    \* the stream-ID counter of each coordinator
    net,        \* messages sent
    staging,    \* the receiver's staging of the shard, None when it has none
    recv,       \* which handler the receiver is in, and for which message
    cur,        \* the shard file and the marker, as reads see them
    dur,        \* the shard file and the marker, as a crash leaves them
    faults,     \* crashes and disk errors so far
    held        \* history: transfers in whose lifetime the shard was durable

disk == <<cur, dur>>
vars == <<sender, nextReq, net, staging, recv, cur, dur, faults, held>>

-----------------------------------------------------------------------------
(* State.                                                                  *)

Prefix(n) == [i \in 1..n |-> i]
Shard == Prefix(Length)

WriteStream == [phase : {"idle", "open", "committing", "ok", "failed"},
                coord : Coord, id : 0..MaxID, base : 0..Length, written : 0..Length]
NotStarted == [phase |-> "idle", coord |-> CHOOSE c \in Coord : TRUE, id |-> 0,
               base |-> 0, written |-> 0]
Live(t) == sender[t].phase \in {"open", "committing"}

None == [id |-> 0, hash |-> <<>>]
Staging == [id : 0..MaxID, hash : Seq(Nat)]
Staged == staging # None

File == [data : Seq(Nat), marker : BOOLEAN]

ChunkMsg(c, i, off) == [kind |-> "chunk", coord |-> c, id |-> i, n |-> off]
CommitMsg(c, i) == [kind |-> "commit", coord |-> c, id |-> i, n |-> Length]
StagedAck(m, n) == [kind |-> "staged", coord |-> m.coord, id |-> m.id, n |-> n]
CommittedAck(m) == [kind |-> "committed", coord |-> m.coord, id |-> m.id, n |-> 0]
ErrorAck(m) == [kind |-> "error", coord |-> m.coord, id |-> m.id, n |-> 0]
DeleteMsg == [kind |-> "delete"]
ChunkMessage == [kind : {"chunk"}, coord : Coord, id : 0..MaxID, n : 0..(Length - 1)]
OtherMessage == [kind : {"commit", "staged", "committed", "error"}, coord : Coord,
                 id : 0..MaxID, n : 0..Length]
Message == ChunkMessage \cup OtherMessage \cup {DeleteMsg}

Send(m) == net' = net \cup {m}

Ready == [at |-> "ready", msg |-> <<>>]
In(step, m) == [at |-> step, msg |-> <<m>>]
Handles(m) == recv = Ready /\ m \in net
Handled == recv.msg[1]

\* The history: which live transfers have seen the shard durable.
Durable == dur.marker /\ dur.data = Shard

Remember ==
    held' = held \cup {t \in Transfer :
                        sender'[t].phase \in {"open", "committing"} /\ Durable'}

-----------------------------------------------------------------------------
(* The sender: WriteStream.                                                *)

senderFrame == <<staging, recv, disk, faults>>

\* A coordinator writes the shard to the node once at a time.
NewWrite(t, c, i) ==
    /\ sender[t].phase = "idle"
    /\ \A u \in Transfer : u < t => sender[u].phase # "idle"
    /\ ~\E u \in Transfer : Live(u) /\ sender[u].coord = c
    /\ nextReq[c] < i
    /\ nextReq' = [nextReq EXCEPT ![c] = i]
    /\ sender' = [sender EXCEPT ![t] = [phase |-> "open", coord |-> c, id |-> i,
                                        base |-> 0, written |-> 0]]
    /\ UNCHANGED <<net, senderFrame>>
    /\ Remember

\* The caller pushes a chunk into the open window, and pump sends it.
Write(t) ==
    /\ sender[t].phase = "open"
    /\ sender[t].written < Length
    /\ sender[t].written - sender[t].base < Window
    /\ Send(ChunkMsg(sender[t].coord, sender[t].id, sender[t].written))
    /\ sender' = [sender EXCEPT ![t].written = @ + 1]
    /\ UNCHANGED <<nextReq, senderFrame>>
    /\ Remember

Commit(t) ==
    /\ sender[t].phase = "open"
    /\ sender[t].written = Length
    /\ Send(CommitMsg(sender[t].coord, sender[t].id))
    /\ sender' = [sender EXCEPT ![t].phase = "committing"]
    /\ UNCHANGED <<nextReq, senderFrame>>
    /\ Remember

\* The stream after an acknowledgement; one at or below base says nothing new.
Acked(s, m) ==
    CASE m.kind = "error" -> [s EXCEPT !.phase = "failed"]
      [] m.kind = "committed" -> [s EXCEPT !.phase = "ok"]
      [] m.kind = "staged" /\ m.n > s.written -> [s EXCEPT !.phase = "failed"]
      [] m.kind = "staged" /\ m.n \in (s.base + 1)..s.written -> [s EXCEPT !.base = m.n]
      [] OTHER -> s

handleAck(t, m) ==
    /\ Live(t)
    /\ m.kind \in {"staged", "committed", "error"}
    /\ m.coord = sender[t].coord /\ m.id = sender[t].id
    /\ Acked(sender[t], m) # sender[t]
    /\ sender' = [sender EXCEPT ![t] = Acked(@, m)]
    /\ UNCHANGED <<nextReq, net, senderFrame>>
    /\ Remember

\* Mutant: a stream whose bytes are all acknowledged counts as idle.
onTimer_ForgetsCommit(t) ==
    /\ Live(t)
    /\ sender[t].written > sender[t].base
    /\ sender' = [sender EXCEPT ![t].phase = "failed"]
    /\ UNCHANGED <<nextReq, net, senderFrame>>
    /\ Remember

\* maxAttempts silent intervals have passed; the retransmissions before that
\* repeat messages of net.  An idle stream is owed nothing and never fails.
onTimer(t) ==
    /\ Live(t)
    /\ sender[t].written > sender[t].base \/ sender[t].phase = "committing"
    /\ sender' = [sender EXCEPT ![t].phase = "failed"]
    /\ UNCHANGED <<nextReq, net, senderFrame>>
    /\ Remember

Abort(t) ==
    /\ Live(t)
    /\ sender' = [sender EXCEPT ![t].phase = "failed"]
    /\ UNCHANGED <<nextReq, net, senderFrame>>
    /\ Remember

\* Some coordinator asks for the shard to be deleted; retries repeat the message.
Delete ==
    /\ DeleteMsg \notin net
    /\ Send(DeleteMsg)
    /\ UNCHANGED <<sender, nextReq, senderFrame>>
    /\ Remember

-----------------------------------------------------------------------------
(* The receiver: Service.                                                  *)

receiverFrame == <<sender, nextReq>>

Fault(op) ==
    /\ op \in Errors
    /\ faults < MaxFaults
    /\ faults' = faults + 1

committed == cur.marker

\* Drops the staging and the partial file, as far as the disk lets it.
fail(m) ==
    /\ staging' = None
    /\ \/ UNCHANGED disk
       \/ /\ cur' = [cur EXCEPT !.data = <<>>]
          /\ dur' \in {dur, [dur EXCEPT !.data = <<>>]}
    /\ recv' = Ready
    /\ Send(ErrorAck(m))

\* The next chunk of the staging's own stream; any other earns the same answer.
appendChunk(m) ==
    IF m.n = Len(staging.hash)
    THEN \/ /\ cur' = [cur EXCEPT !.data = Append(@, m.n + 1)]
            /\ staging' = [staging EXCEPT !.hash = Append(@, m.n + 1)]
            /\ Send(StagedAck(m, m.n + 1))
            /\ UNCHANGED <<recv, dur, faults>>
         \/ Fault("append") /\ fail(m)
    ELSE /\ Send(StagedAck(m, Len(staging.hash)))
         /\ UNCHANGED <<staging, recv, disk, faults>>

\* The first chunk of a new stream replaces whatever is staged.
startStaging(m) ==
    \/ /\ cur' = [cur EXCEPT !.data = <<1>>]
       /\ staging' = [id |-> m.id, hash |-> <<1>>]
       /\ Send(StagedAck(m, 1))
       /\ UNCHANGED <<recv, dur, faults>>
    \/ /\ Fault("write")
       /\ Send(ErrorAck(m))
       /\ UNCHANGED <<staging, recv, disk>>

reAcknowledge(m) ==
    /\ ~Staged /\ committed
    /\ Send(CommittedAck(m))
    /\ UNCHANGED <<staging, recv, disk, faults>>

handleChunk(m) ==
    /\ Handles(m) /\ m.kind = "chunk"
    /\ \/ reAcknowledge(m)
       \/ Staged /\ staging.id = m.id /\ appendChunk(m)
       \/ /\ m.n = 0
          /\ IF Staged THEN m.id > staging.id ELSE ~committed
          /\ startStaging(m)
    /\ UNCHANGED receiverFrame
    /\ Remember

\* Mutant: the shard is not synced before its marker is written.
sealStaging_Unsynced(m) ==
    /\ staging.hash = Shard
    /\ recv' = In("synced", m)
    /\ UNCHANGED <<net, staging, disk, faults>>

\* Length and checksum agree: the first of the three disk operations that
\* make the shard durable.
sealStaging(m) ==
    IF staging.hash = Shard
    THEN \/ /\ dur' = [dur EXCEPT !.data = cur.data]
            /\ recv' = In("synced", m)
            /\ UNCHANGED <<net, staging, cur, faults>>
         \/ Fault("sync") /\ fail(m)
    ELSE fail(m) /\ UNCHANGED faults

handleCommit(m) ==
    /\ Handles(m) /\ m.kind = "commit"
    /\ \/ reAcknowledge(m)
       \/ /\ Staged /\ staging.id = m.id
          /\ IF Len(staging.hash) = m.n
             THEN sealStaging(m)
             ELSE /\ Send(StagedAck(m, Len(staging.hash)))
                  /\ UNCHANGED <<staging, recv, disk, faults>>
    /\ UNCHANGED receiverFrame
    /\ Remember

\* Mutant: durability is acknowledged before the marker is synced.
writeMarker_AcksEarly ==
    /\ recv.at = "synced"
    /\ cur' = [cur EXCEPT !.marker = TRUE]
    /\ recv' = In("marked", Handled)
    /\ Send(CommittedAck(Handled))
    /\ UNCHANGED <<staging, dur, faults, receiverFrame>>
    /\ Remember

writeMarker ==
    /\ recv.at = "synced"
    /\ \/ /\ cur' = [cur EXCEPT !.marker = TRUE]
          /\ recv' = In("marked", Handled)
          /\ UNCHANGED <<net, staging, dur, faults>>
       \/ Fault("mark") /\ fail(Handled)
    /\ UNCHANGED receiverFrame
    /\ Remember

syncMarker ==
    /\ recv.at = "marked"
    /\ \/ /\ dur' = [dur EXCEPT !.marker = TRUE]
          /\ staging' = None
          /\ recv' = Ready
          /\ Send(CommittedAck(Handled))
          /\ UNCHANGED <<cur, faults>>
       \/ Fault("marksync") /\ fail(Handled)
    /\ UNCHANGED receiverFrame
    /\ Remember

\* The marker goes first, then the bytes; what is absent is skipped, and the
\* staging is left alone.  The requester keeps nothing that depends on the
\* answer, so the answer is left out.
handleDelete(m) ==
    /\ Handles(m) /\ m.kind = "delete"
    /\ Overlap \/ ~Staged
    /\ \/ /\ cur.marker
          /\ cur' = [cur EXCEPT !.marker = FALSE]
          /\ recv' = In("unmarked", m)
       \/ /\ ~cur.marker /\ cur.data # <<>>
          /\ cur' = [cur EXCEPT !.data = <<>>]
          /\ recv' = In("removed", m)
    /\ UNCHANGED <<net, staging, dur, faults, receiverFrame>>
    /\ Remember

\* The marker's removal is synced, and the bytes are removed.
syncUnmarked ==
    /\ recv.at = "unmarked"
    /\ \/ /\ dur' = [dur EXCEPT !.marker = FALSE]
          /\ cur' = [cur EXCEPT !.data = <<>>]
          /\ recv' = In("removed", Handled)
          /\ UNCHANGED faults
       \/ /\ Fault("unmark")
          /\ recv' = Ready
          /\ UNCHANGED disk
    /\ UNCHANGED <<net, staging, receiverFrame>>
    /\ Remember

syncRemoved ==
    /\ recv.at = "removed"
    /\ \/ dur' = [dur EXCEPT !.data = <<>>] /\ UNCHANGED faults
       \/ Fault("remove") /\ UNCHANGED dur
    /\ recv' = Ready
    /\ UNCHANGED <<net, staging, cur, receiverFrame>>
    /\ Remember

-----------------------------------------------------------------------------
(* Crashes, and the specification.                                         *)

\* A write that was not synced survives a crash whole, in part or not at all.
Survives(f, g) ==
    {g} \cup IF f = g THEN {} ELSE {SubSeq(f, 1, k) : k \in 0..Len(f)}

\* The receiver restarts with an empty staging and what its disk kept.
Crash ==
    /\ faults < MaxFaults
    /\ faults' = faults + 1
    /\ \E d \in Survives(cur.data, dur.data), k \in {cur.marker, dur.marker} :
          /\ cur' = [data |-> d, marker |-> k]
          /\ dur' = [data |-> d, marker |-> k]
    /\ staging' = None
    /\ recv' = Ready
    /\ UNCHANGED <<net, receiverFrame>>
    /\ Remember

Init ==
    /\ sender = [t \in Transfer |-> NotStarted]
    /\ nextReq = [c \in Coord |-> 0]
    /\ net = {}
    /\ staging = None
    /\ recv = Ready
    /\ cur = [data |-> <<>>, marker |-> FALSE]
    /\ dur = [data |-> <<>>, marker |-> FALSE]
    /\ faults = 0
    /\ held = {}

SenderStep(t) ==
    \/ \E c \in Coord, i \in 1..MaxID : NewWrite(t, c, i)
    \/ Write(t)
    \/ Commit(t)
    \/ \E m \in net : handleAck(t, m)
    \/ onTimer(t)
    \/ Abort(t)

ReceiverStep ==
    \/ \E m \in net : handleChunk(m) \/ handleCommit(m) \/ handleDelete(m)
    \/ writeMarker
    \/ syncMarker
    \/ syncUnmarked
    \/ syncRemoved

Next ==
    \/ \E t \in Transfer : SenderStep(t)
    \/ Delete
    \/ ReceiverStep
    \/ Crash

Spec == Init /\ [][Next]_vars

\* The caller fills an open window and then commits (putOp.step), and the
\* clock fires every armed timer.  Nothing is assumed of the network or of
\* the receiver.
FairSpec ==
    Spec /\ \A t \in Transfer : WF_vars(Write(t) \/ Commit(t) \/ onTimer(t))

-----------------------------------------------------------------------------
(* Properties.                                                             *)

\* Type invariant.  A stream buffers no more than its window (the memory that
\* WriteStream promises to bound), and the receiver stages no more than a
\* shard.
TypeOK ==
    /\ sender \in [Transfer -> WriteStream]
    /\ \A t \in Transfer : sender[t].written \in sender[t].base..(sender[t].base + Window)
    /\ nextReq \in [Coord -> 0..MaxID]
    /\ net \subseteq Message
    /\ staging \in Staging /\ Len(staging.hash) <= Length
    /\ \/ recv = Ready
       \/ \E m \in net : m.kind = "commit" /\ recv \in {In("synced", m), In("marked", m)}
       \/ recv \in {In("unmarked", DeleteMsg), In("removed", DeleteMsg)}
    /\ cur \in File /\ dur \in File
    /\ faults \in 0..MaxFaults
    /\ held \subseteq Transfer

\* What handleCommit and handleDelete order their disk operations for: a
\* marker, seen or durable, stands beside the whole and true bytes of the
\* shard, durable themselves, at every instant at which the node may crash.
MarkerProvesBytes ==
    cur.marker \/ dur.marker => cur.data = Shard /\ dur.data = Shard

\* What a write stream's done(nil) promises: marker and bytes were durable on
\* the target at some moment of this stream's own life.  An acknowledgement
\* meant for another stream, or sent before the last sync, would break it.
AckedWasDurable ==
    \A t \in Transfer : sender[t].phase = "ok" => t \in held

\* handleChunk never takes staged bytes back: a staging gives way only to a
\* newer stream, and within one stream the staged offset only grows, so that
\* a sender may drop what was acknowledged.
StagingMonotone ==
    [][Staged /\ staging' # None =>
          \/ staging'.id > staging.id
          \/ /\ staging'.id = staging.id
             /\ Len(staging'.hash) >= Len(staging.hash)]_vars

\* Whatever is lost and whoever crashes, a stream that was started reports an
\* outcome: the retransmission timer gives up on a silent receiver, and so
\* also on one that answered every chunk and not the commit.
EveryTransferEnds ==
    \A t \in Transfer : Live(t) ~> ~Live(t)

=============================================================================
