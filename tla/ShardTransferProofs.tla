------------------------- MODULE ShardTransferProofs -------------------------
(***************************************************************************)
(* Proofs about ShardTransfer, for any number of coordinators, streams,    *)
(* chunks and faults.                                                      *)
(***************************************************************************)
EXTENDS ShardTransfer, TLAPS

-----------------------------------------------------------------------------
(* Types.                                                                  *)

\* The messages of a stream and of its receiver have their types.
LEMMA MessageTypes ==
    ASSUME NEW m \in Message
    PROVE  /\ m.kind = "chunk" => m \in ChunkMessage
           /\ m.kind \in {"commit", "staged", "committed", "error"} => m \in OtherMessage
           /\ m.kind = "delete" => m = DeleteMsg
  BY DEF Message, ChunkMessage, OtherMessage, DeleteMsg

\* The answers to a message of a stream are messages of that stream.
LEMMA AckTypes ==
    ASSUME NEW m \in ChunkMessage \cup OtherMessage, NEW n \in 0..Length
    PROVE  /\ StagedAck(m, n) \in OtherMessage
           /\ CommittedAck(m) \in OtherMessage
           /\ ErrorAck(m) \in OtherMessage
  BY ShardAssumption DEF ChunkMessage, OtherMessage, StagedAck, CommittedAck, ErrorAck

\* The variables that the sender's steps leave alone keep their types.
ReceiverType ==
    /\ staging \in Staging /\ Len(staging.hash) <= Length
    /\ \/ recv = Ready
       \/ \E m \in net : m.kind = "commit" /\ recv \in {In("synced", m), In("marked", m)}
       \/ recv \in {In("unmarked", DeleteMsg), In("removed", DeleteMsg)}
    /\ cur \in File /\ dur \in File
    /\ faults \in 0..MaxFaults

SenderType ==
    /\ sender \in [Transfer -> WriteStream]
    /\ \A t \in Transfer : sender[t].written \in sender[t].base..(sender[t].base + Window)
    /\ nextReq \in [Coord -> 0..MaxID]

LEMMA TypeSplit == TypeOK <=> SenderType /\ net \subseteq Message /\ ReceiverType /\ held \subseteq Transfer
  BY DEF TypeOK, SenderType, ReceiverType

LEMMA TypeJoin ==
    (SenderType /\ net \subseteq Message /\ ReceiverType /\ held \subseteq Transfer)' => TypeOK'
  BY DEF TypeOK, SenderType, ReceiverType

LEMMA HeldType ==
    ASSUME held \subseteq Transfer, Remember
    PROVE  held' \subseteq Transfer
  BY DEF Remember

\* A step of a stream that keeps its fields in range keeps the types.
LEMMA SenderKeepsReceiver ==
    ASSUME ReceiverType, UNCHANGED senderFrame, net \subseteq net'
    PROVE  ReceiverType'
<1>1. UNCHANGED <<staging, recv, cur, dur, faults>>
  BY DEF senderFrame, disk
<1> QED BY <1>1 DEF ReceiverType

LEMMA StreamUpdate ==
    ASSUME SenderType, NEW t \in Transfer, NEW s \in WriteStream,
           s.written \in s.base..(s.base + Window),
           sender' = [sender EXCEPT ![t] = s], nextReq' \in [Coord -> 0..MaxID]
    PROVE  SenderType'
<1>1. sender' \in [Transfer -> WriteStream]
  BY DEF SenderType
<1>2. ASSUME NEW u \in Transfer
      PROVE  sender'[u].written \in sender'[u].base..(sender'[u].base + Window)
  <2>1. CASE u = t
    BY <2>1 DEF SenderType
  <2>2. CASE u # t
    BY <2>2 DEF SenderType
  <2> QED BY <2>1, <2>2
<1> QED BY <1>1, <1>2 DEF SenderType

\* Every step of a stream keeps the types.
LEMMA SenderTypeStep ==
    ASSUME TypeOK, NEW t \in Transfer, SenderStep(t)
    PROVE  TypeOK'
<1>1. SenderType /\ net \subseteq Message /\ ReceiverType /\ held \subseteq Transfer
  BY TypeSplit
<1>2. sender[t] \in WriteStream /\ sender[t].written \in sender[t].base..(sender[t].base + Window)
  BY <1>1 DEF SenderType
<1> SUFFICES SenderType' /\ net' \subseteq Message /\ UNCHANGED senderFrame
             /\ net \subseteq net' /\ Remember
  <2>1. held' \subseteq Transfer
    BY <1>1, HeldType
  <2>2. ReceiverType'
    BY <1>1, SenderKeepsReceiver
  <2> QED BY <2>1, <2>2, TypeJoin
<1>3. ASSUME NEW c \in Coord, NEW i \in 1..MaxID, NewWrite(t, c, i)
      PROVE  SenderType' /\ net' \subseteq Message /\ UNCHANGED senderFrame
             /\ net \subseteq net' /\ Remember
  <2> DEFINE s == [phase |-> "open", coord |-> c, id |-> i, base |-> 0, written |-> 0]
  <2>1. s \in WriteStream /\ s.written \in s.base..(s.base + Window)
    BY ShardAssumption DEF WriteStream
  <2>2. sender' = [sender EXCEPT ![t] = s] /\ nextReq' \in [Coord -> 0..MaxID]
    BY <1>1, <1>3, ShardAssumption DEF NewWrite, SenderType
  <2>3. SenderType'
    BY <1>1, <2>1, <2>2, StreamUpdate, Zenon
  <2> QED BY <1>1, <1>3, <2>3 DEF NewWrite
<1>4. CASE Write(t)
  <2> DEFINE s == [sender[t] EXCEPT !.written = @ + 1]
  <2>1. s \in WriteStream /\ s.written \in s.base..(s.base + Window)
    BY <1>2, <1>4, ShardAssumption DEF WriteStream, Write
  <2>2. sender' = [sender EXCEPT ![t] = s] /\ nextReq' \in [Coord -> 0..MaxID]
    BY <1>1, <1>4 DEF Write, SenderType
  <2>3. SenderType'
    BY <1>1, <2>1, <2>2, StreamUpdate, Zenon
  <2>4. ChunkMsg(sender[t].coord, sender[t].id, sender[t].written) \in ChunkMessage
    BY <1>2, <1>4, ShardAssumption DEF Write, ChunkMsg, ChunkMessage, WriteStream
  <2> QED BY <1>1, <1>4, <2>3, <2>4 DEF Write, Send, Message
<1>5. CASE Commit(t)
  <2> DEFINE s == [sender[t] EXCEPT !.phase = "committing"]
  <2>1. s \in WriteStream /\ s.written \in s.base..(s.base + Window)
    BY <1>2 DEF WriteStream
  <2>2. sender' = [sender EXCEPT ![t] = s] /\ nextReq' \in [Coord -> 0..MaxID]
    BY <1>1, <1>5 DEF Commit, SenderType
  <2>3. SenderType'
    BY <1>1, <2>1, <2>2, StreamUpdate, Zenon
  <2>4. CommitMsg(sender[t].coord, sender[t].id) \in OtherMessage
    BY <1>2, <1>5, ShardAssumption DEF Commit, CommitMsg, OtherMessage, WriteStream
  <2> QED BY <1>1, <1>5, <2>3, <2>4 DEF Commit, Send, Message
<1>6. ASSUME NEW m \in net, handleAck(t, m)
      PROVE  SenderType' /\ net' \subseteq Message /\ UNCHANGED senderFrame
             /\ net \subseteq net' /\ Remember
  <2> DEFINE s == Acked(sender[t], m)
  <2>1. m \in OtherMessage
    BY <1>1, <1>6, MessageTypes DEF handleAck
  <2>2. s \in WriteStream /\ s.written \in s.base..(s.base + Window)
    BY <1>2, <2>1, ShardAssumption DEF WriteStream, Acked, OtherMessage
  <2>3. sender' = [sender EXCEPT ![t] = s] /\ nextReq' \in [Coord -> 0..MaxID]
    BY <1>1, <1>6 DEF handleAck, SenderType
  <2>4. SenderType'
    BY <1>1, <2>2, <2>3, StreamUpdate, Zenon
  <2> QED BY <1>1, <1>6, <2>4 DEF handleAck
<1>7. CASE onTimer(t) \/ Abort(t)
  <2> DEFINE s == [sender[t] EXCEPT !.phase = "failed"]
  <2>1. s \in WriteStream /\ s.written \in s.base..(s.base + Window)
    BY <1>2 DEF WriteStream
  <2>2. sender' = [sender EXCEPT ![t] = s] /\ nextReq' \in [Coord -> 0..MaxID]
    BY <1>1, <1>7 DEF onTimer, Abort, SenderType
  <2>3. SenderType'
    BY <1>1, <2>1, <2>2, StreamUpdate, Zenon
  <2> QED BY <1>1, <1>7, <2>3 DEF onTimer, Abort
<1> QED BY <1>3, <1>4, <1>5, <1>6, <1>7 DEF SenderStep

\* Writing and removing the shard file, writing and removing its marker.
LEMMA FileUpdate ==
    ASSUME NEW f \in File, NEW d \in Seq(Nat), NEW k \in BOOLEAN
    PROVE  [f EXCEPT !.data = d] \in File /\ [f EXCEPT !.marker = k] \in File
  BY DEF File

LEMMA Contents ==
    /\ <<>> \in Seq(Nat)
    /\ <<1>> \in Seq(Nat)
    /\ \A d \in Seq(Nat), n \in Nat : Append(d, n) \in Seq(Nat) /\ Len(Append(d, n)) = Len(d) + 1
  OBVIOUS

LEMMA FileFields ==
    ASSUME NEW f \in File
    PROVE  f.data \in Seq(Nat) /\ f.marker \in BOOLEAN
  BY DEF File

\* What a step of the receiver has to establish for the types.
ReceiverGoal ==
    /\ ReceiverType'
    /\ net' \subseteq Message
    /\ UNCHANGED receiverFrame
    /\ Remember

\* Abandoning a transfer keeps the types.
LEMMA FailTypes ==
    ASSUME ReceiverType, net \subseteq Message, NEW m \in ChunkMessage \cup OtherMessage,
           fail(m), faults' \in 0..MaxFaults
    PROVE  ReceiverType' /\ net' \subseteq Message
<1>1. staging' \in Staging /\ Len(staging'.hash) <= Length
  BY ShardAssumption DEF fail, None, Staging
<1>2. cur' \in File /\ dur' \in File
  BY Contents, FileUpdate, Zenon DEF fail, ReceiverType, disk
<1>3. net' \subseteq Message
  BY AckTypes, ShardAssumption DEF fail, Send, Message
<1> QED BY <1>1, <1>2, <1>3 DEF fail, ReceiverType

LEMMA FaultType ==
    ASSUME ReceiverType, NEW op, Fault(op)
    PROVE  faults' \in 0..MaxFaults
  BY ShardAssumption DEF Fault, ReceiverType

\* An answer that changes nothing else keeps the types.
LEMMA AnswerTypes ==
    ASSUME ReceiverType, net \subseteq Message, NEW a \in OtherMessage, Send(a),
           UNCHANGED <<staging, recv, disk>>, faults' \in 0..MaxFaults
    PROVE  ReceiverType' /\ net' \subseteq Message
<1>1. UNCHANGED <<staging, recv, cur, dur>> /\ net' = net \cup {a}
  BY DEF disk, Send
<1> QED BY <1>1 DEF ReceiverType, Message

\* handleChunk keeps the types.
LEMMA ChunkTypes ==
    ASSUME ReceiverType, net \subseteq Message, NEW m \in net, handleChunk(m)
    PROVE  ReceiverGoal
<1>1. m \in ChunkMessage /\ recv = Ready
  BY MessageTypes DEF handleChunk, Handles
<1>2. m.n \in 0..(Length - 1) /\ m.n + 1 \in 0..Length /\ Len(staging.hash) \in 0..Length
  BY <1>1, ShardAssumption DEF ChunkMessage, ReceiverType, Staging
<1>3. CASE reAcknowledge(m)
  BY <1>1, <1>2, <1>3, AckTypes, AnswerTypes DEF reAcknowledge, handleChunk, ReceiverGoal, ReceiverType
<1>4. CASE Staged /\ staging.id = m.id /\ appendChunk(m)
  <2>1. CASE Fault("append") /\ fail(m)
    BY <1>1, <2>1, FailTypes, FaultType DEF handleChunk, ReceiverGoal
  <2>2. CASE /\ cur' = [cur EXCEPT !.data = Append(@, m.n + 1)]
             /\ m.n = Len(staging.hash)
             /\ staging' = [staging EXCEPT !.hash = Append(@, m.n + 1)]
             /\ Send(StagedAck(m, m.n + 1))
             /\ UNCHANGED <<recv, dur, faults>>
    <3>1. staging' \in Staging /\ Len(staging'.hash) <= Length
      <4>1. staging.hash \in Seq(Nat) /\ m.n + 1 \in Nat
        BY <1>2 DEF ReceiverType, Staging
      <4>2. Append(staging.hash, m.n + 1) \in Seq(Nat)
            /\ Len(Append(staging.hash, m.n + 1)) <= Length
        BY <1>2, <2>2, <4>1, Contents, ShardAssumption
      <4>3. staging' = [id |-> staging.id, hash |-> Append(staging.hash, m.n + 1)]
        BY <2>2, Zenon DEF ReceiverType, Staging
      <4> QED BY <4>2, <4>3 DEF ReceiverType, Staging
    <3>2. cur' \in File
      <4>1. cur.data \in Seq(Nat) /\ m.n + 1 \in Nat
        BY <1>2, FileFields DEF ReceiverType
      <4>2. Append(cur.data, m.n + 1) \in Seq(Nat)
        BY <4>1, Contents
      <4> QED BY <2>2, <4>2, FileUpdate, Zenon DEF ReceiverType
    <3>3. net' \subseteq Message
      BY <1>1, <1>2, <2>2, AckTypes DEF Send, Message
    <3> QED BY <1>1, <2>2, <3>1, <3>2, <3>3 DEF ReceiverType, ReceiverGoal, handleChunk
  <2>3. CASE /\ Send(StagedAck(m, Len(staging.hash)))
             /\ UNCHANGED <<staging, recv, disk, faults>>
    BY <1>1, <1>2, <2>3, AckTypes, AnswerTypes DEF handleChunk, ReceiverGoal, ReceiverType
  <2> QED BY <1>4, <2>1, <2>2, <2>3 DEF appendChunk
<1>5. CASE startStaging(m)
  <2>1. CASE Fault("write") /\ Send(ErrorAck(m)) /\ UNCHANGED <<staging, recv, disk>>
    <3>1. ErrorAck(m) \in OtherMessage
      BY <1>1, <1>2, AckTypes
    <3> QED BY <2>1, <3>1, AnswerTypes, FaultType DEF handleChunk, ReceiverGoal
  <2>2. CASE /\ cur' = [cur EXCEPT !.data = <<1>>]
             /\ staging' = [id |-> m.id, hash |-> <<1>>]
             /\ Send(StagedAck(m, 1))
             /\ UNCHANGED <<recv, dur, faults>>
    <3>1. staging' \in Staging /\ Len(staging'.hash) <= Length
      BY <1>1, <2>2, ShardAssumption DEF Staging, ChunkMessage
    <3>2. cur' \in File
      BY <2>2, Contents, FileUpdate, Zenon DEF ReceiverType
    <3>3. net' \subseteq Message
      BY <1>1, <2>2, AckTypes, ShardAssumption DEF Send, Message
    <3> QED BY <1>1, <2>2, <3>1, <3>2, <3>3 DEF ReceiverType, ReceiverGoal, handleChunk
  <2> QED BY <1>5, <2>1, <2>2 DEF startStaging
<1> QED BY <1>3, <1>4, <1>5 DEF handleChunk

\* handleCommit and the two disk operations that follow it keep the types.
LEMMA CommitTypes ==
    ASSUME ReceiverType, net \subseteq Message, NEW m \in net, handleCommit(m)
    PROVE  ReceiverGoal
<1>1. m \in OtherMessage /\ m.kind = "commit"
  BY MessageTypes DEF handleCommit, Handles
<1>2. Len(staging.hash) \in 0..Length
  BY ShardAssumption DEF ReceiverType, Staging
<1>3. CASE reAcknowledge(m)
  BY <1>1, <1>2, <1>3, AckTypes, AnswerTypes DEF reAcknowledge, handleCommit, ReceiverGoal, ReceiverType
<1>4. CASE /\ Send(StagedAck(m, Len(staging.hash)))
           /\ UNCHANGED <<staging, recv, disk, faults>>
  BY <1>1, <1>2, <1>4, AckTypes, AnswerTypes, SMTT(30) DEF handleCommit, ReceiverGoal, ReceiverType
<1>5. CASE sealStaging(m)
  <2>1. CASE fail(m) /\ (UNCHANGED faults \/ Fault("sync"))
    <3>1. faults' \in 0..MaxFaults
      BY <2>1, FaultType DEF ReceiverType
    <3> QED BY <1>1, <2>1, <3>1, FailTypes DEF handleCommit, ReceiverGoal
  <2>2. CASE /\ dur' = [dur EXCEPT !.data = cur.data]
             /\ recv' = In("synced", m)
             /\ UNCHANGED <<net, staging, cur, faults>>
    <3>1. dur' \in File
      BY <2>2, FileFields, FileUpdate, Zenon DEF ReceiverType
    <3> QED BY <1>1, <2>2, <3>1 DEF ReceiverType, ReceiverGoal, handleCommit
  <2> QED BY <1>5, <2>1, <2>2 DEF sealStaging
<1> QED BY <1>3, <1>4, <1>5 DEF handleCommit

LEMMA HandledCommit ==
    ASSUME ReceiverType, net \subseteq Message, recv.at \in {"synced", "marked"}
    PROVE  Handled \in net /\ Handled \in OtherMessage /\ Handled.kind = "commit"
<1>1. PICK m \in net : m.kind = "commit" /\ recv \in {In("synced", m), In("marked", m)}
  BY DEF ReceiverType, Ready, In
<1>2. Handled = m
  BY <1>1 DEF Handled, In
<1> QED BY <1>1, <1>2, MessageTypes

LEMMA MarkTypes ==
    ASSUME ReceiverType, net \subseteq Message, writeMarker \/ syncMarker
    PROVE  ReceiverGoal
<1>1. Handled \in net /\ Handled \in OtherMessage /\ Handled.kind = "commit"
  BY HandledCommit DEF writeMarker, syncMarker
<1>2. CASE fail(Handled) /\ (Fault("mark") \/ Fault("marksync"))
  BY <1>1, <1>2, FailTypes, FaultType DEF ReceiverGoal, writeMarker, syncMarker
<1>3. CASE /\ cur' = [cur EXCEPT !.marker = TRUE]
           /\ recv' = In("marked", Handled)
           /\ UNCHANGED <<net, staging, dur, faults>>
  <2>1. cur' \in File
    BY <1>3, Contents, FileUpdate, Zenon DEF ReceiverType
  <2> QED BY <1>1, <1>3, <2>1 DEF ReceiverType, ReceiverGoal, writeMarker, syncMarker
<1>4. CASE /\ dur' = [dur EXCEPT !.marker = TRUE]
           /\ staging' = None
           /\ recv' = Ready
           /\ Send(CommittedAck(Handled))
           /\ UNCHANGED <<cur, faults>>
  <2>1. dur' \in File
    BY <1>4, Contents, FileUpdate, Zenon DEF ReceiverType
  <2>2. net' \subseteq Message
    BY <1>1, <1>4, AckTypes, ShardAssumption DEF Send, Message
  <2>3. staging' \in Staging /\ Len(staging'.hash) <= Length
    BY <1>4, ShardAssumption DEF None, Staging
  <2> QED BY <1>4, <2>1, <2>2, <2>3 DEF ReceiverType, ReceiverGoal, writeMarker, syncMarker
<1> QED BY <1>2, <1>3, <1>4 DEF writeMarker, syncMarker

\* handleDelete and the two disk operations that follow it keep the types.
LEMMA DeleteTypes ==
    ASSUME ReceiverType, net \subseteq Message,
           (\E m \in net : handleDelete(m)) \/ syncUnmarked \/ syncRemoved
    PROVE  ReceiverGoal
<1>1. ASSUME NEW m \in net, handleDelete(m) PROVE ReceiverGoal
  <2>1. m = DeleteMsg
    BY <1>1, MessageTypes DEF handleDelete
  <2>2. cur' \in File
    BY <1>1, Contents, FileUpdate, Zenon DEF handleDelete, ReceiverType
  <2> QED BY <1>1, <2>1, <2>2 DEF handleDelete, ReceiverType, ReceiverGoal, receiverFrame
<1>2. CASE syncUnmarked
  <2>1. Handled = DeleteMsg
    BY <1>2 DEF syncUnmarked, ReceiverType, Handled, In, Ready
  <2>2. faults' \in 0..MaxFaults
    BY <1>2, FaultType DEF syncUnmarked, ReceiverType
  <2>3. cur' \in File /\ dur' \in File
    BY <1>2, Contents, FileUpdate, Zenon DEF syncUnmarked, ReceiverType, disk
  <2> QED BY <1>2, <2>1, <2>2, <2>3 DEF syncUnmarked, ReceiverType, ReceiverGoal, receiverFrame
<1>3. CASE syncRemoved
  <2>1. faults' \in 0..MaxFaults
    BY <1>3, FaultType DEF syncRemoved, ReceiverType
  <2>2. dur' \in File
    BY <1>3, Contents, FileUpdate, Zenon DEF syncRemoved, ReceiverType
  <2> QED BY <1>3, <2>1, <2>2 DEF syncRemoved, ReceiverType, ReceiverGoal, receiverFrame
<1> QED BY <1>1, <1>2, <1>3

LEMMA CrashTypes ==
    ASSUME ReceiverType, net \subseteq Message, Crash
    PROVE  ReceiverGoal
<1>1. PICK d \in Survives(cur.data, dur.data), k \in {cur.marker, dur.marker} :
        cur' = [data |-> d, marker |-> k] /\ dur' = [data |-> d, marker |-> k]
  BY DEF Crash
<1>2. d \in Seq(Nat) /\ k \in BOOLEAN
  <2>1. cur.data \in Seq(Nat) /\ dur.data \in Seq(Nat) /\ cur.marker \in BOOLEAN /\ dur.marker \in BOOLEAN
    BY FileFields DEF ReceiverType
  <2>2. \A n \in 0..Len(cur.data) : SubSeq(cur.data, 1, n) \in Seq(Nat)
    BY <2>1
  <2> QED BY <1>1, <2>1, <2>2, Zenon DEF Survives
<1>3. cur' \in File /\ dur' \in File
  BY <1>1, <1>2 DEF File
<1>4. faults' \in 0..MaxFaults
  BY ShardAssumption DEF Crash, ReceiverType
<1>5. staging' \in Staging /\ Len(staging'.hash) <= Length
  BY ShardAssumption DEF Crash, None, Staging
<1> QED BY <1>3, <1>4, <1>5 DEF Crash, ReceiverType, ReceiverGoal, receiverFrame

LEMMA DeleteRequestTypes ==
    ASSUME TypeOK, Delete
    PROVE  TypeOK'
<1>1. SenderType /\ net \subseteq Message /\ ReceiverType /\ held \subseteq Transfer
  BY TypeSplit
<1>2. net' \subseteq Message /\ net \subseteq net' /\ UNCHANGED <<sender, nextReq>>
      /\ UNCHANGED senderFrame /\ Remember
  BY <1>1 DEF Delete, Send, Message
<1>3. SenderType'
  BY <1>1, <1>2 DEF SenderType
<1>4. ReceiverType'
  BY <1>1, <1>2, SenderKeepsReceiver
<1>5. held' \subseteq Transfer
  BY <1>1, <1>2, HeldType
<1> QED BY <1>2, <1>3, <1>4, <1>5, TypeJoin

LEMMA TypeStep == TypeOK /\ [Next]_vars => TypeOK'
<1> SUFFICES ASSUME TypeOK, [Next]_vars PROVE TypeOK'
  OBVIOUS
<1>1. SenderType /\ net \subseteq Message /\ ReceiverType /\ held \subseteq Transfer
  BY TypeSplit
<1>2. ASSUME NEW t \in Transfer, SenderStep(t) PROVE TypeOK'
  BY <1>2, SenderTypeStep
<1>3. CASE ReceiverStep \/ Crash
  <2>1. ReceiverGoal
    BY <1>1, <1>3, ChunkTypes, CommitTypes, MarkTypes, DeleteTypes, CrashTypes DEF ReceiverStep
  <2>2. SenderType'
    BY <1>1, <2>1 DEF ReceiverGoal, SenderType, receiverFrame
  <2>3. held' \subseteq Transfer
    BY <1>1, <2>1, HeldType DEF ReceiverGoal
  <2> QED BY <2>1, <2>2, <2>3, TypeJoin DEF ReceiverGoal
<1>4. CASE Delete
  BY <1>4, DeleteRequestTypes
<1>5. CASE UNCHANGED vars
  BY <1>5 DEF vars, TypeOK
<1> QED BY <1>2, <1>3, <1>4, <1>5 DEF Next

\* The variables of senders, network and receiver keep their types; a stream
\* never buffers more than its window, and never more than a shard is staged.
THEOREM ShardTypeCorrect == Spec => []TypeOK
<1>1. Init => TypeOK
  <2> SUFFICES ASSUME Init PROVE TypeOK
    OBVIOUS
  <2>1. NotStarted \in WriteStream /\ NotStarted.written = 0 /\ NotStarted.base = 0
    BY ShardAssumption DEF NotStarted, WriteStream
  <2>2. SenderType
    BY <2>1, ShardAssumption DEF Init, SenderType
  <2>3. ReceiverType
    <3>1. staging \in Staging /\ Len(staging.hash) <= Length
      BY ShardAssumption DEF Init, None, Staging
    <3>2. cur \in File /\ dur \in File
      BY Contents DEF Init, File
    <3> QED BY <3>1, <3>2, ShardAssumption DEF Init, ReceiverType
  <2> QED BY <2>2, <2>3, TypeSplit DEF Init
<1> QED BY <1>1, TypeStep, PTL DEF Spec

-----------------------------------------------------------------------------
(* Staged bytes are never taken back.                                      *)

\* Whatever arrives in whatever order, a staging gives way only to a newer
\* stream and otherwise only grows (handleChunk's case analysis).
THEOREM StagingIsMonotone == Spec => StagingMonotone
<1> DEFINE Grows == Staged /\ staging' # None =>
                      \/ staging'.id > staging.id
                      \/ /\ staging'.id = staging.id
                         /\ Len(staging'.hash) >= Len(staging.hash)
<1>1. ASSUME TypeOK, Next PROVE Grows
  <2>1. staging.hash \in Seq(Nat) /\ Len(staging.hash) \in Nat
    BY <1>1 DEF TypeOK, Staging
  <2>2. CASE staging' = staging
    BY <2>1, <2>2
  <2>3. CASE staging' = None
    BY <2>3
  <2>4. ASSUME NEW m \in net, handleChunk(m) PROVE Grows
    <3>1. m \in ChunkMessage
      BY <1>1, <2>4, MessageTypes DEF handleChunk, TypeOK
    <3>2. CASE staging' = [staging EXCEPT !.hash = Append(@, m.n + 1)]
      <4>1. staging' = [id |-> staging.id, hash |-> Append(staging.hash, m.n + 1)]
        BY <1>1, <3>2, Zenon DEF TypeOK, Staging
      <4>2. Len(Append(staging.hash, m.n + 1)) = Len(staging.hash) + 1
        BY <2>1, <3>1, Contents, ShardAssumption DEF ChunkMessage
      <4> QED BY <2>1, <4>1, <4>2
    <3>3. CASE (Staged => m.id > staging.id) /\ staging' = [id |-> m.id, hash |-> <<1>>]
      BY <3>3
    <3> QED BY <2>2, <2>3, <2>4, <3>2, <3>3
            DEF handleChunk, reAcknowledge, appendChunk, startStaging, fail
  <2>5. CASE \E t \in Transfer : SenderStep(t)
    BY <2>2, <2>5 DEF SenderStep, NewWrite, Write, Commit, handleAck, onTimer, Abort, senderFrame
  <2>6. CASE Delete
    BY <2>2, <2>6 DEF Delete, senderFrame
  <2>7. CASE Crash
    BY <2>3, <2>7 DEF Crash
  <2>8. ASSUME NEW m \in net, handleCommit(m) PROVE Grows
    BY <2>2, <2>3, <2>8 DEF handleCommit, reAcknowledge, sealStaging, fail
  <2>9. CASE writeMarker \/ syncMarker
    BY <2>2, <2>3, <2>9 DEF writeMarker, syncMarker, fail
  <2>10. CASE (\E m \in net : handleDelete(m)) \/ syncUnmarked \/ syncRemoved
    BY <2>2, <2>10 DEF handleDelete, syncUnmarked, syncRemoved
  <2> QED BY <1>1, <2>4, <2>5, <2>6, <2>7, <2>8, <2>9, <2>10 DEF Next, ReceiverStep
<1>2. TypeOK /\ [Next]_vars => [Grows]_vars
  BY <1>1
<1> QED BY <1>2, ShardTypeCorrect, PTL DEF Spec, StagingMonotone

-----------------------------------------------------------------------------
(* A marker proves the bytes.                                              *)

\* No delete arrives during a transfer, and syncing a marker, written or
\* removed, does not fail.
Sheltered == ~Overlap /\ "marksync" \notin Errors /\ "unmark" \notin Errors

\* The staging describes the file, and where each handler stands.
DiskInv ==
    /\ MarkerProvesBytes
    /\ Staged => /\ cur.data = staging.hash
                 /\ ~dur.marker
                 /\ recv.at # "marked" => ~cur.marker
    /\ recv.at \in {"synced", "marked"} => Staged /\ staging.hash = Shard /\ dur.data = Shard
    /\ recv.at = "marked" => cur.marker
    /\ recv.at \in {"unmarked", "removed"} => ~Staged /\ ~cur.marker
    /\ recv.at = "removed" => ~dur.marker
    /\ recv.at = "ready" => (cur.marker <=> dur.marker)

LEMMA FileFieldsAfter ==
    ASSUME NEW f \in File, NEW d, NEW k
    PROVE  /\ [f EXCEPT !.data = d].data = d /\ [f EXCEPT !.data = d].marker = f.marker
           /\ [f EXCEPT !.marker = k].marker = k /\ [f EXCEPT !.marker = k].data = f.data
  BY DEF File

LEMMA StepNames ==
    /\ Ready.at = "ready"
    /\ \A step, m : In(step, m).at = step
  BY DEF Ready, In

\* Abandoning a transfer that has no marker.
LEMMA FailKeeps ==
    ASSUME TypeOK, ~cur.marker, ~dur.marker, NEW m, fail(m)
    PROVE  DiskInv'
<1>1. cur \in File /\ dur \in File
  BY DEF TypeOK
<1>2. ~cur'.marker /\ ~dur'.marker
  <2>1. ~[cur EXCEPT !.data = <<>>].marker /\ ~[dur EXCEPT !.data = <<>>].marker
    BY <1>1, FileFieldsAfter
  <2> QED BY <2>1, Zenon DEF fail, disk
<1>3. staging' = None /\ recv'.at = "ready"
  BY StepNames DEF fail
<1> QED BY <1>2, <1>3 DEF DiskInv, MarkerProvesBytes, Staged

LEMMA StillDisk ==
    ASSUME DiskInv, UNCHANGED <<staging, recv, cur, dur>>
    PROVE  DiskInv'
  BY DEF DiskInv, MarkerProvesBytes, Staged

LEMMA ChunkDisk ==
    ASSUME TypeOK, DiskInv, NEW m \in net, handleChunk(m)
    PROVE  DiskInv'
<1>1. recv.at = "ready" /\ cur \in File /\ dur \in File /\ staging \in Staging
  BY StepNames DEF handleChunk, Handles, TypeOK
<1>2. CASE UNCHANGED <<staging, recv, cur, dur>>
  BY <1>2, StillDisk
<1>3. CASE Staged /\ fail(m)
  BY <1>1, <1>3, FailKeeps DEF DiskInv
<1>4. CASE /\ Staged
           /\ cur' = [cur EXCEPT !.data = Append(@, m.n + 1)]
           /\ staging' = [staging EXCEPT !.hash = Append(@, m.n + 1)]
           /\ UNCHANGED <<recv, dur>>
  <2>1. cur'.data = Append(cur.data, m.n + 1) /\ cur'.marker = cur.marker
    BY <1>1, <1>4, FileFieldsAfter
  <2>2. staging'.hash = Append(staging.hash, m.n + 1)
    BY <1>1, <1>4 DEF Staging
  <2>3. cur.data = staging.hash /\ ~cur.marker /\ ~dur.marker
    BY <1>1, <1>4 DEF DiskInv
  <2> QED BY <1>1, <1>4, <2>1, <2>2, <2>3 DEF DiskInv, MarkerProvesBytes, Staged
<1>5. CASE /\ IF Staged THEN m.id > staging.id ELSE ~committed
           /\ cur' = [cur EXCEPT !.data = <<1>>]
           /\ staging' = [id |-> m.id, hash |-> <<1>>]
           /\ UNCHANGED <<recv, dur>>
  <2>1. cur'.data = <<1>> /\ cur'.marker = cur.marker
    BY <1>1, <1>5, FileFieldsAfter
  <2>2. ~cur.marker /\ ~dur.marker
    BY <1>1, <1>5 DEF DiskInv, committed
  <2> QED BY <1>1, <1>5, <2>1, <2>2 DEF DiskInv, MarkerProvesBytes, Staged
<1> QED BY <1>2, <1>3, <1>4, <1>5
        DEF handleChunk, reAcknowledge, appendChunk, startStaging, disk

LEMMA CommitDisk ==
    ASSUME TypeOK, DiskInv, NEW m \in net, handleCommit(m)
    PROVE  DiskInv'
<1>1. recv.at = "ready" /\ cur \in File /\ dur \in File
  BY StepNames DEF handleCommit, Handles, TypeOK
<1>2. CASE UNCHANGED <<staging, recv, cur, dur>>
  BY <1>2, StillDisk
<1>3. CASE Staged /\ fail(m)
  BY <1>1, <1>3, FailKeeps DEF DiskInv
<1>4. CASE /\ Staged /\ staging.hash = Shard
           /\ dur' = [dur EXCEPT !.data = cur.data]
           /\ recv' = In("synced", m)
           /\ UNCHANGED <<staging, cur>>
  <2>1. dur'.data = cur.data /\ dur'.marker = dur.marker /\ recv'.at = "synced"
    BY <1>1, <1>4, FileFieldsAfter, StepNames
  <2>2. cur.data = Shard /\ ~cur.marker /\ ~dur.marker
    BY <1>1, <1>4 DEF DiskInv
  <2> QED BY <1>4, <2>1, <2>2 DEF DiskInv, MarkerProvesBytes, Staged
<1> QED BY <1>2, <1>3, <1>4, SMTT(30) DEF handleCommit, reAcknowledge, sealStaging, disk

LEMMA MarkDisk ==
    ASSUME TypeOK, DiskInv, Sheltered, writeMarker \/ syncMarker
    PROVE  DiskInv'
<1>1. cur \in File /\ dur \in File
  BY DEF TypeOK
<1>2. Staged /\ staging.hash = Shard /\ cur.data = Shard /\ dur.data = Shard /\ ~dur.marker
  BY DEF DiskInv, writeMarker, syncMarker
<1>3. CASE writeMarker
  <2>1. CASE fail(Handled)
    BY <1>2, <1>3, <2>1, FailKeeps DEF DiskInv, writeMarker
  <2>2. CASE /\ cur' = [cur EXCEPT !.marker = TRUE]
             /\ recv' = In("marked", Handled)
             /\ UNCHANGED <<staging, dur>>
    <3>1. cur'.marker /\ cur'.data = cur.data /\ recv'.at = "marked"
      BY <1>1, <2>2, FileFieldsAfter, StepNames
    <3> QED BY <1>2, <2>2, <3>1 DEF DiskInv, MarkerProvesBytes, Staged
  <2> QED BY <1>3, <2>1, <2>2 DEF writeMarker
<1>4. CASE syncMarker
  <2>1. /\ dur' = [dur EXCEPT !.marker = TRUE] /\ staging' = None
        /\ recv' = Ready /\ cur' = cur /\ recv.at = "marked"
    BY <1>4 DEF syncMarker, Sheltered, Fault
  <2>2. dur'.marker /\ dur'.data = dur.data /\ recv'.at = "ready" /\ cur.marker
    BY <1>1, <2>1, FileFieldsAfter, StepNames DEF DiskInv
  <2> QED BY <1>2, <2>1, <2>2 DEF DiskInv, MarkerProvesBytes, Staged
<1> QED BY <1>3, <1>4

LEMMA DeleteDisk ==
    ASSUME TypeOK, DiskInv, Sheltered,
           (\E m \in net : handleDelete(m)) \/ syncUnmarked \/ syncRemoved
    PROVE  DiskInv'
<1>1. cur \in File /\ dur \in File
  BY DEF TypeOK
<1>2. ASSUME NEW m \in net, handleDelete(m) PROVE DiskInv'
  <2>1. recv.at = "ready" /\ ~Staged /\ UNCHANGED <<staging, dur>>
    BY <1>2, StepNames DEF handleDelete, Handles, Sheltered
  <2>2. CASE cur.marker /\ cur' = [cur EXCEPT !.marker = FALSE] /\ recv' = In("unmarked", m)
    <3>1. ~cur'.marker /\ cur'.data = cur.data /\ recv'.at = "unmarked"
      BY <1>1, <2>2, FileFieldsAfter, StepNames
    <3> QED BY <2>1, <2>2, <3>1 DEF DiskInv, MarkerProvesBytes, Staged
  <2>3. CASE ~cur.marker /\ cur' = [cur EXCEPT !.data = <<>>] /\ recv' = In("removed", m)
    <3>1. cur'.marker = cur.marker /\ recv'.at = "removed"
      BY <1>1, <2>3, FileFieldsAfter, StepNames
    <3> QED BY <2>1, <2>3, <3>1 DEF DiskInv, MarkerProvesBytes, Staged
  <2> QED BY <1>2, <2>2, <2>3 DEF handleDelete
<1>3. CASE syncUnmarked
  <2>1. /\ dur' = [dur EXCEPT !.marker = FALSE] /\ cur' = [cur EXCEPT !.data = <<>>]
        /\ recv' = In("removed", Handled) /\ staging' = staging /\ recv.at = "unmarked"
    BY <1>3 DEF syncUnmarked, Sheltered, Fault
  <2>2. ~dur'.marker /\ cur'.marker = cur.marker /\ recv'.at = "removed"
    BY <1>1, <2>1, FileFieldsAfter, StepNames
  <2> QED BY <2>1, <2>2 DEF DiskInv, MarkerProvesBytes, Staged
<1>4. CASE syncRemoved
  <2>1. /\ dur' \in {dur, [dur EXCEPT !.data = <<>>]} /\ cur' = cur
        /\ recv' = Ready /\ staging' = staging /\ recv.at = "removed"
    BY <1>4 DEF syncRemoved
  <2>2. dur'.marker = dur.marker /\ recv'.at = "ready"
    <3>1. [dur EXCEPT !.data = <<>>].marker = dur.marker
      BY <1>1, FileFieldsAfter
    <3> QED BY <2>1, <3>1, StepNames, Zenon
  <2> QED BY <2>1, <2>2 DEF DiskInv, MarkerProvesBytes, Staged
<1> QED BY <1>2, <1>3, <1>4

\* A crash keeps the bytes whenever it may keep a marker.
LEMMA CrashDisk ==
    ASSUME TypeOK, DiskInv, Crash
    PROVE  DiskInv'
<1>1. PICK d \in Survives(cur.data, dur.data), k \in {cur.marker, dur.marker} :
        cur' = [data |-> d, marker |-> k] /\ dur' = [data |-> d, marker |-> k]
  BY DEF Crash
<1>2. cur'.data = d /\ dur'.data = d /\ cur'.marker = k /\ dur'.marker = k
  BY <1>1
<1>3. staging' = None /\ recv'.at = "ready"
  BY StepNames DEF Crash
<1>4. k => d = Shard
  BY <1>1, Zenon DEF DiskInv, MarkerProvesBytes, Survives
<1> QED BY <1>2, <1>3, <1>4 DEF DiskInv, MarkerProvesBytes, Staged

LEMMA DiskStep ==
    ASSUME Sheltered, TypeOK, DiskInv, [Next]_vars
    PROVE  DiskInv'
<1>1. CASE \E t \in Transfer : SenderStep(t)
  <2>1. UNCHANGED <<staging, recv, cur, dur>>
    BY <1>1 DEF SenderStep, NewWrite, Write, Commit, handleAck, onTimer, Abort, senderFrame, disk
  <2> QED BY <2>1, StillDisk
<1>2. CASE Delete \/ UNCHANGED vars
  <2>1. UNCHANGED <<staging, recv, cur, dur>>
    BY <1>2 DEF Delete, senderFrame, disk, vars
  <2> QED BY <2>1, StillDisk
<1>3. CASE ReceiverStep
  BY <1>3, ChunkDisk, CommitDisk, MarkDisk, DeleteDisk DEF ReceiverStep
<1>4. CASE Crash
  BY <1>4, CrashDisk
<1> QED BY <1>1, <1>2, <1>3, <1>4 DEF Next

LEMMA DiskInvariant == ASSUME Sheltered PROVE Spec => []DiskInv
<1>1. Init => DiskInv
  BY StepNames DEF Init, DiskInv, MarkerProvesBytes, Staged
<1>2. TypeOK /\ DiskInv /\ [Next]_vars => DiskInv'
  BY DiskStep
<1> QED BY <1>1, <1>2, ShardTypeCorrect, PTL DEF Spec

\* Sheltered from late deletes and from failing marker syncs, and whatever
\* else is lost, repeated or crashes, a marker stands for the whole durable
\* shard (handleCommit, handleDelete).
THEOREM MarkersProveBytes == ASSUME Sheltered PROVE Spec => []MarkerProvesBytes
<1>1. DiskInv => MarkerProvesBytes
  BY DEF DiskInv
<1> QED BY <1>1, DiskInvariant, PTL

-----------------------------------------------------------------------------
(* An acknowledged stream saw its shard durable.                           *)

Answers(m, t) == sender[t].coord = m.coord /\ sender[t].id = m.id

\* A committed acknowledgement in the network says the truth to every live
\* stream that would take it for its own, and no message carries a stream ID
\* that its coordinator has yet to give out.
AckInv ==
    /\ AckedWasDurable
    /\ \A m \in net : m.kind = "committed" =>
          \A t \in Transfer : Live(t) /\ Answers(m, t) => t \in held
    /\ \A m \in net : m.kind # "delete" => m.id <= nextReq[m.coord]
    /\ \A t \in Transfer : sender[t].phase # "idle" => sender[t].id <= nextReq[sender[t].coord]

\* A step that sends at most one message, and changes no stream.
LEMMA SendKeeps ==
    ASSUME AckInv, UNCHANGED <<sender, nextReq>>, Remember, NEW a, net' \subseteq net \cup {a},
           a.kind # "delete" => a.id <= nextReq[a.coord],
           a.kind = "committed" => Durable'
    PROVE  AckInv'
<1>1. held \subseteq held' /\ (Durable' => \A t \in Transfer : Live(t) => t \in held')
  BY DEF Remember, Live
<1>2. AckedWasDurable'
  BY <1>1 DEF AckInv, AckedWasDurable
<1>3. ASSUME NEW m \in net', m.kind = "committed", NEW t \in Transfer, Live(t)', Answers(m, t)'
      PROVE  t \in held'
  BY <1>1, <1>3 DEF AckInv, Live, Answers
<1>4. \A m \in net' : m.kind # "delete" => m.id <= nextReq'[m.coord]
  BY DEF AckInv
<1>5. \A t \in Transfer : sender'[t].phase # "idle" => sender'[t].id <= nextReq'[sender'[t].coord]
  BY DEF AckInv
<1> QED BY <1>2, <1>3, <1>4, <1>5 DEF AckInv

\* The answers to a message of a stream carry its coordinator and its ID.
LEMMA AnswerFields ==
    ASSUME NEW m, NEW n
    PROVE  /\ StagedAck(m, n).kind = "staged" /\ StagedAck(m, n).id = m.id
           /\ StagedAck(m, n).coord = m.coord
           /\ ErrorAck(m).kind = "error" /\ ErrorAck(m).id = m.id /\ ErrorAck(m).coord = m.coord
           /\ CommittedAck(m).kind = "committed" /\ CommittedAck(m).id = m.id
           /\ CommittedAck(m).coord = m.coord
  BY DEF StagedAck, ErrorAck, CommittedAck

\* What the receiver sends in a step.
LEMMA ReceiverSends ==
    ASSUME TypeOK, DiskInv, Sheltered, ReceiverStep \/ Crash
    PROVE  /\ UNCHANGED <<sender, nextReq>> /\ Remember
           /\ \/ net' = net
              \/ \E m \in net : m.kind # "delete" /\
                    \/ \E n \in Nat : Send(StagedAck(m, n))
                    \/ Send(ErrorAck(m))
                    \/ Send(CommittedAck(m)) /\ Durable'
<1> DEFINE Sends(m) == m.kind # "delete" /\ ( \/ \E n \in Nat : Send(StagedAck(m, n))
                                              \/ Send(ErrorAck(m))
                                              \/ Send(CommittedAck(m)) /\ Durable')
<1>1. UNCHANGED <<sender, nextReq>> /\ Remember
  BY DEF ReceiverStep, Crash, handleChunk, handleCommit, handleDelete, writeMarker, syncMarker,
         syncUnmarked, syncRemoved, receiverFrame
<1>2. Len(staging.hash) \in Nat
  BY DEF TypeOK, Staging
<1>3. ASSUME NEW m \in net, recv.at = "ready", reAcknowledge(m)
      PROVE  Send(CommittedAck(m)) /\ Durable'
  BY <1>3 DEF reAcknowledge, committed, DiskInv, MarkerProvesBytes, Durable, disk
<1>4. ASSUME NEW m \in net, handleChunk(m) PROVE Sends(m)
  <2>1. m.kind # "delete" /\ recv.at = "ready" /\ m \in ChunkMessage
    BY <1>4, StepNames, MessageTypes DEF handleChunk, Handles, TypeOK
  <2>2. m.n + 1 \in Nat
    BY <2>1, ShardAssumption DEF ChunkMessage
  <2> QED BY <1>2, <1>3, <1>4, <2>1, <2>2
          DEF handleChunk, appendChunk, startStaging, fail
<1>5. ASSUME NEW m \in net, handleCommit(m) PROVE net' = net \/ Sends(m)
  <2>1. m.kind # "delete" /\ recv.at = "ready"
    BY <1>5, StepNames DEF handleCommit, Handles
  <2> QED BY <1>2, <1>3, <1>5, <2>1 DEF handleCommit, sealStaging, fail
<1>6. CASE writeMarker \/ syncMarker
  <2>1. Handled \in net /\ Handled.kind = "commit"
    BY <1>6, HandledCommit, TypeSplit DEF writeMarker, syncMarker
  <2>2. CASE writeMarker
    <3>1. net' = net \/ Send(ErrorAck(Handled))
      BY <2>2 DEF writeMarker, fail
    <3> QED BY <1>1, <2>1, <3>1
  <2>3. CASE syncMarker
    <3>1. dur' = [dur EXCEPT !.marker = TRUE] /\ Send(CommittedAck(Handled))
      BY <2>3 DEF syncMarker, Sheltered, Fault
    <3>2. dur'.marker /\ dur'.data = Shard
      BY <2>3, <3>1, FileFieldsAfter DEF TypeOK, DiskInv, syncMarker
    <3>3. Durable'
      BY <3>2 DEF Durable
    <3> QED BY <1>1, <2>1, <3>1, <3>3
  <2> QED BY <1>6, <2>2, <2>3
<1>7. CASE (\E m \in net : handleDelete(m)) \/ syncUnmarked \/ syncRemoved \/ Crash
  <2>1. net' = net
    BY <1>7 DEF handleDelete, syncUnmarked, syncRemoved, Crash
  <2> QED BY <1>1, <2>1
<1> QED BY <1>1, <1>4, <1>5, <1>6, <1>7 DEF ReceiverStep

LEMMA ReceiverAcks ==
    ASSUME TypeOK, DiskInv, AckInv, Sheltered, ReceiverStep \/ Crash
    PROVE  AckInv'
<1>1. UNCHANGED <<sender, nextReq>> /\ Remember
  BY ReceiverSends
<1>2. CASE net' = net
  <2> DEFINE a == DeleteMsg
  <2>1. a.kind = "delete"
    BY SMTT(30) DEF DeleteMsg
  <2> QED BY <1>1, <1>2, <2>1, SendKeeps
<1>3. ASSUME NEW m \in net, m.kind # "delete", NEW a, Send(a), a.id = m.id, a.coord = m.coord,
             a.kind = "committed" => Durable'
      PROVE  AckInv'
  <2>1. net' \subseteq net \cup {a}
    BY <1>3 DEF Send
  <2>2. a.id <= nextReq[a.coord]
    BY Zenon, <1>3 DEF AckInv
  <2> QED BY Zenon, <1>1, <1>3, <2>1, <2>2, SendKeeps
<1>4. ASSUME NEW m \in net, m.kind # "delete", NEW n \in Nat, Send(StagedAck(m, n)) PROVE AckInv'
  BY <1>3, <1>4, AnswerFields
<1>5. ASSUME NEW m \in net, m.kind # "delete", Send(ErrorAck(m)) PROVE AckInv'
  BY <1>3, <1>5, AnswerFields
<1>6. ASSUME NEW m \in net, m.kind # "delete", Send(CommittedAck(m)), Durable' PROVE AckInv'
  BY <1>3, <1>6, AnswerFields, Zenon
<1> QED BY <1>2, <1>4, <1>5, <1>6, ReceiverSends

\* A stream that goes on, or ends without success, keeps its identity.
LEMMA StreamKeeps ==
    ASSUME TypeOK, AckInv, NEW t \in Transfer, NEW s, sender' = [sender EXCEPT ![t] = s],
           Live(t), s.coord = sender[t].coord, s.id = sender[t].id, s.phase # "idle",
           s.phase = "ok" => t \in held, UNCHANGED nextReq, Remember,
           NEW a, net' \subseteq net \cup {a}, a.kind # "committed",
           a.kind # "delete" => a.id <= nextReq[a.coord]
    PROVE  AckInv'
<1>1. held \subseteq held'
  BY DEF Remember
<1>2. sender'[t] = s /\ \A u \in Transfer : u # t => sender'[u] = sender[u]
  BY DEF TypeOK
<1>3. AckedWasDurable'
  BY <1>1, <1>2 DEF AckInv, AckedWasDurable
<1>4. ASSUME NEW m \in net', m.kind = "committed", NEW u \in Transfer, Live(u)', Answers(m, u)'
      PROVE  u \in held'
  <2>1. Live(u) /\ Answers(m, u)
    BY <1>2, <1>4 DEF Live, Answers
  <2>2. m \in net
    BY <1>4
  <2>3. u \in held
    BY <1>4, <2>1, <2>2, Zenon DEF AckInv
  <2> QED BY <1>1, <2>3
<1>5. \A m \in net' : m.kind # "delete" => m.id <= nextReq'[m.coord]
  BY DEF AckInv
<1>6. \A u \in Transfer : sender'[u].phase # "idle" => sender'[u].id <= nextReq'[sender'[u].coord]
  BY <1>2, SMTT(30) DEF AckInv, Live
<1> QED BY <1>3, <1>4, <1>5, <1>6, ZenonT(30) DEF AckInv

\* A new stream has an ID that no message in the network carries.
LEMMA NewWriteAcks ==
    ASSUME TypeOK, AckInv, NEW t \in Transfer, NEW c \in Coord, NEW i \in 1..MaxID, NewWrite(t, c, i)
    PROVE  AckInv'
<1> DEFINE s == [phase |-> "open", coord |-> c, id |-> i, base |-> 0, written |-> 0]
<1>1. held \subseteq held' /\ net' = net
  BY DEF NewWrite, Remember
<1>2. sender'[t] = s /\ \A u \in Transfer : u # t => sender'[u] = sender[u]
  BY SMTT(30) DEF NewWrite, TypeOK
<1>3. nextReq \in [Coord -> Nat] /\ nextReq' = [nextReq EXCEPT ![c] = i] /\ nextReq[c] < i /\ i \in Nat
  BY ShardAssumption, SMTT(30) DEF NewWrite, TypeOK
<1>4. AckedWasDurable'
  BY SMTT(30), <1>1, <1>2 DEF AckInv, AckedWasDurable
<1>5. ASSUME NEW m \in net', m.kind = "committed", NEW u \in Transfer, Live(u)', Answers(m, u)'
      PROVE  u \in held'
  <2>1. m \in OtherMessage /\ m.id <= nextReq[m.coord]
    BY <1>1, <1>5, MessageTypes DEF AckInv, TypeOK
  <2>2. CASE u = t
    BY <1>2, <1>3, <1>5, <2>1, <2>2, ShardAssumption, SMTT(30) DEF Answers, OtherMessage
  <2>3. CASE u # t
    BY <1>1, <1>2, <1>5, <2>3 DEF AckInv, Live, Answers
  <2> QED BY <2>2, <2>3, SMTT(30)
<1>6. ASSUME NEW x \in Coord, NEW j \in Nat, j <= nextReq[x] PROVE j <= nextReq'[x]
  BY <1>3, <1>6
<1>7. ASSUME NEW m \in net', m.kind # "delete" PROVE m.id <= nextReq'[m.coord]
  <2>1. m.coord \in Coord /\ m.id \in Nat
    BY <1>1, <1>7, ShardAssumption, SMTT(30) DEF TypeOK, Message, ChunkMessage, OtherMessage, DeleteMsg
  <2> QED BY <1>1, <1>6, <1>7, <2>1, SMTT(30) DEF AckInv
<1>8. ASSUME NEW u \in Transfer, sender'[u].phase # "idle"
      PROVE  sender'[u].id <= nextReq'[sender'[u].coord]
  <2>1. CASE u = t
    BY <1>2, <1>3, <2>1, SMTT(30)
  <2>2. CASE u # t
    <3>1. sender[u] \in WriteStream
      BY TypeSplit, Zenon DEF SenderType
    <3>2. sender[u].coord \in Coord /\ sender[u].id \in Nat
      BY <3>1, ShardAssumption DEF WriteStream
    <3> QED BY <1>2, <1>6, <1>8, <2>2, <3>2 DEF AckInv
  <2> QED BY <2>1, <2>2
<1> QED BY <1>4, <1>5, <1>7, <1>8 DEF AckInv

LEMMA SenderAcks ==
    ASSUME TypeOK, AckInv, NEW t \in Transfer, SenderStep(t)
    PROVE  AckInv'
<1>1. sender[t] \in WriteStream
  BY DEF TypeOK
<1>2. ASSUME Live(t) PROVE sender[t].id <= nextReq[sender[t].coord]
  BY <1>2 DEF AckInv, Live
<1>3. ASSUME NEW c \in Coord, NEW i \in 1..MaxID, NewWrite(t, c, i) PROVE AckInv'
  BY <1>3, NewWriteAcks
<1>4. CASE Write(t)
  <2> DEFINE s == [sender[t] EXCEPT !.written = @ + 1]
             a == ChunkMsg(sender[t].coord, sender[t].id, sender[t].written)
  <2>1. Live(t) /\ s.coord = sender[t].coord /\ s.id = sender[t].id /\ s.phase = sender[t].phase
    BY <1>1, <1>4 DEF Write, Live, WriteStream
  <2>2. a.kind = "chunk" /\ a.id = sender[t].id /\ a.coord = sender[t].coord
    BY DEF ChunkMsg
  <2>3. /\ sender' = [sender EXCEPT ![t] = s] /\ net' = net \cup {a}
        /\ UNCHANGED nextReq /\ Remember /\ sender[t].phase = "open"
    BY <1>4 DEF Write, Send
  <2> HIDE DEF s, a
  <2> QED BY <1>2, <2>1, <2>2, <2>3, StreamKeeps, Zenon
<1>5. CASE Commit(t)
  <2> DEFINE s == [sender[t] EXCEPT !.phase = "committing"]
             a == CommitMsg(sender[t].coord, sender[t].id)
  <2>1. Live(t) /\ s.coord = sender[t].coord /\ s.id = sender[t].id /\ s.phase = "committing"
    BY <1>1, <1>5 DEF Commit, Live, WriteStream
  <2>2. a.kind = "commit" /\ a.id = sender[t].id /\ a.coord = sender[t].coord
    BY DEF CommitMsg
  <2>3. /\ sender' = [sender EXCEPT ![t] = s] /\ net' = net \cup {a}
        /\ UNCHANGED nextReq /\ Remember
    BY <1>5 DEF Commit, Send
  <2> HIDE DEF s, a
  <2> QED BY <1>2, <2>1, <2>2, <2>3, StreamKeeps, Zenon
<1>6. ASSUME NEW m \in net, handleAck(t, m) PROVE AckInv'
  <2> DEFINE s == Acked(sender[t], m)
             a == DeleteMsg
  <2>1. Live(t) /\ s.coord = sender[t].coord /\ s.id = sender[t].id
        /\ s.phase \in {sender[t].phase, "ok", "failed"} /\ (s.phase = "ok" => m.kind = "committed")
    BY <1>1, <1>6 DEF handleAck, Acked, Live, WriteStream
  <2>2. s.phase = "ok" => t \in held
    <3>1. Answers(m, t)
      BY <1>6, Zenon DEF handleAck, Answers
    <3> HIDE DEF s
    <3> QED BY <1>6, <2>1, <3>1, Zenon DEF AckInv
  <2>3. sender' = [sender EXCEPT ![t] = s] /\ net' = net /\ UNCHANGED nextReq /\ Remember
    BY <1>6 DEF handleAck
  <2>4. a.kind = "delete" /\ s.phase # "idle"
    BY <2>1 DEF DeleteMsg, Live
  <2> HIDE DEF s, a
  <2> QED BY <2>1, <2>2, <2>3, <2>4, StreamKeeps, Zenon
<1>7. CASE onTimer(t) \/ Abort(t)
  <2> DEFINE s == [sender[t] EXCEPT !.phase = "failed"]
             a == DeleteMsg
  <2>1. Live(t) /\ s.coord = sender[t].coord /\ s.id = sender[t].id /\ s.phase = "failed"
    BY <1>1, <1>7 DEF onTimer, Abort, WriteStream
  <2>2. sender' = [sender EXCEPT ![t] = s] /\ net' = net /\ UNCHANGED nextReq /\ Remember
    BY <1>7 DEF onTimer, Abort
  <2>3. a.kind = "delete"
    BY DEF DeleteMsg
  <2> HIDE DEF s, a
  <2> QED BY <2>1, <2>2, <2>3, StreamKeeps, Zenon
<1> QED BY <1>3, <1>4, <1>5, <1>6, <1>7 DEF SenderStep

\* A stream that reports success saw its shard durable while it lived: no
\* acknowledgement of another stream, late or repeated, is taken for its own
\* (handleAck, handleCommit).
THEOREM AcksAreTrue == ASSUME Sheltered PROVE Spec => []AckedWasDurable
<1>1. Init => AckInv
  BY SMTT(30) DEF Init, AckInv, AckedWasDurable, NotStarted
<1>2. TypeOK /\ DiskInv /\ AckInv /\ [Next]_vars => AckInv'
  <2> SUFFICES ASSUME TypeOK, DiskInv, AckInv, [Next]_vars PROVE AckInv'
    OBVIOUS
  <2>1. CASE \E t \in Transfer : SenderStep(t)
    BY <2>1, SenderAcks
  <2>2. CASE ReceiverStep \/ Crash
    BY <2>2, ReceiverAcks
  <2>3. CASE Delete
    <3>1. DeleteMsg.kind = "delete"
      BY DEF DeleteMsg
    <3> QED BY <2>3, <3>1, SendKeeps DEF Delete, Send
  <2>4. CASE UNCHANGED vars
    BY <2>4 DEF vars, AckInv, AckedWasDurable, Live, Answers
  <2> QED BY <2>1, <2>2, <2>3, <2>4 DEF Next
<1>3. AckInv => AckedWasDurable
  BY DEF AckInv
<1> QED BY <1>1, <1>2, <1>3, ShardTypeCorrect, DiskInvariant, PTL DEF Spec

=============================================================================
