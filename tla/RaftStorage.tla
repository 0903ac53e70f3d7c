----------------------------- MODULE RaftStorage ----------------------------
(***************************************************************************)
(* One replica of the metadata plane between the Raft library and its      *)
(* disks: the write-ahead log and its rotation (internal/wal/wal.go,       *)
(* internal/raftnode/raftnode.go), the durable row store it commits applied *)
(* entries to (internal/sys/metadb.go), boot from both, and the offline    *)
(* recovery of internal/raftnode/recover.go.  The replica may crash        *)
(* between any two steps.                                                  *)
(*                                                                         *)
(* The rest of the cluster is the leader's log: it grows, commits, and     *)
(* loses an uncommitted tail when another leader takes over.  Which        *)
(* messages the replica sees of it is up to the network.  An entry is the  *)
(* term it was proposed in; what it does is fixed by its index.  A stored  *)
(* row names the entry that wrote it and how many times that entry had     *)
(* been applied before, so that an entry applied twice shows.              *)
(***************************************************************************)
EXTENDS Naturals, FiniteSets, SequencesExt

CONSTANTS
    MaxIndex,        \* entries the cluster ever proposes
    MaxTerm,         \* elections
    PutAt,           \* indexes of entries that write a row when applied
    ConfAt,          \* indexes of membership changes; the rest write nothing
                     \* (no-ops, and proposals every replica refuses)
    SnapshotEntries, \* Config.SnapshotEntries
    MaxCrashes,      \* crashes of this replica
    MaxWipes,        \* times its row store is unreadable and discarded
    MayForce,        \* may the operator run the offline recovery (once)
    CutCrash         \* may a crash hit wal.Open while it rewrites a torn file

ASSUME StorageAssumption ==
    /\ MaxIndex \in Nat /\ MaxTerm \in Nat \ {0} /\ SnapshotEntries \in Nat \ {0}
    /\ PutAt \subseteq 1..MaxIndex /\ ConfAt \subseteq 1..MaxIndex
    /\ PutAt \cap ConfAt = {}
    /\ MaxCrashes \in Nat /\ MaxWipes \in Nat
    /\ MayForce \in BOOLEAN /\ CutCrash \in BOOLEAN

VARIABLES
    leader,   \* the cluster: the current leader's log,
    cterm,    \* its term,
    ccommit,  \* and how much of that log is committed
    forced,   \* the index an offline recovery restarted history from
    files,    \* durable log files: sequence number -> [frames, torn]
    staged,   \* the write between Disk.Append/WriteFile and Disk.Sync
    db,       \* the durable row store: [ok, idx, rows]
    pc,       \* where the replica is in processReady or in boot
    m,        \* its memory
    told,     \* what its messages have vouched for
    blemish,  \* snapshots and recoveries made from a store ahead of the log
    crashes, wipes

cluster == <<leader, cterm, ccommit, forced>>
faults == <<crashes, wipes>>
vars == <<cluster, files, staged, db, pc, m, told, blemish, faults>>

-----------------------------------------------------------------------------
(* Frames, files and replay. *)

NoSnap == [log |-> <<>>, rows |-> {}, conf |-> {}]
NoFile == [frames |-> <<>>, torn |-> FALSE]
NoStage == [seq |-> 0]
NoDB == [ok |-> FALSE, idx |-> 0, rows |-> {}]

\* One WAL record: a hard state (term 0: none), entries from an index on, and
\* a snapshot (index 0: none).  A snapshot remembers the entries it stands for.
record(t, c, from, ents, snap) ==
    [term |-> t, commit |-> c, from |-> from, ents |-> ents, snap |-> snap]

Index(snap) == Len(snap.log)

\* raft.MemoryStorage: what replaying one record does to it.
Replayed(s, rec) ==
    LET base == IF Index(rec.snap) > 0 THEN rec.snap.log ELSE s.log
        log  == IF rec.ents = <<>> THEN base
                ELSE SubSeq(base, 1, rec.from - 1) \o rec.ents
    IN  [log    |-> log,
         snap   |-> IF Index(rec.snap) > 0 THEN rec.snap ELSE s.snap,
         term   |-> IF rec.term > 0 THEN rec.term ELSE s.term,
         commit |-> IF rec.term > 0 THEN rec.commit ELSE s.commit]

EmptyStorage == [log |-> <<>>, snap |-> NoSnap, term |-> 0, commit |-> 0]

\* Of a file's intact frames the opening and the latest one are kept, each as
\* what replaying the file up to it makes of raft's storage.
replay(file) == IF file.frames = <<>> THEN EmptyStorage ELSE Last(file.frames)

\* A file can carry the node's state when its opening frame holds a snapshot,
\* or when it is the oldest file: the bootstrap log starts bare.
validLog(fs, q) ==
    \/ \A p \in DOMAIN fs : p >= q
    \/ fs[q].frames # <<>> /\ Index(fs[q].frames[1].snap) > 0

\* The newest valid log file.
Newest(fs) ==
    CHOOSE q \in DOMAIN fs :
        /\ validLog(fs, q)
        /\ \A p \in DOMAIN fs : p > q => ~validLog(fs, p)

\* What boot would read from the durable files.
Recovered(fs) == IF DOMAIN fs = {} THEN EmptyStorage ELSE replay(fs[Newest(fs)])

\* Log.Append: frames behind a torn one would never be read.
AppendFrame(fs, q, rec) ==
    LET f == IF q \in DOMAIN fs THEN fs[q] ELSE NoFile
        now == Replayed(replay(f), rec)
        g == IF f.torn THEN f
             ELSE [f EXCEPT !.frames = IF @ = <<>> THEN <<now>> ELSE <<Head(@), now>>]
    IN  [p \in DOMAIN fs \cup {q} |-> IF p = q THEN g ELSE fs[p]]

WithFile(fs, q, f) == [p \in DOMAIN fs \cup {q} |-> IF p = q THEN f ELSE fs[p]]
WithoutFile(fs, q) == [p \in DOMAIN fs \ {q} |-> fs[p]]

-----------------------------------------------------------------------------
(* The rows entries leave behind. *)

\* Store.Apply on one committed entry: a put writes its row; a refused
\* proposal and a no-op write nothing.
Applied(rows, i, t) ==
    IF i \in PutAt
    THEN rows \cup {<<i, t, Cardinality({r \in rows : r[1] = i})>>}
    ELSE rows

\* The rows of entries 1..k of a log, each applied once.
Effect(l, k) == {<<i, l[i], 0>> : i \in PutAt \cap 1..k}

Configuration(k) == {i \in ConfAt : forced < i /\ i <= k}

Up == pc \notin {"down", "cutting", "force", "forced"}

Down == [log |-> <<>>, snap |-> 0, term |-> 0, commit |-> 0, applied |-> 0,
         upto |-> 0, conf |-> {}, confChanged |-> FALSE, store |-> {},
         trusted |-> FALSE, persisted |-> 0, seq |-> 0]

-----------------------------------------------------------------------------
(* Boot. *)

\* The files boot opens: from the newest down to the first valid one.
Opened == {q \in DOMAIN files : q >= Newest(files)}
TornOpened == {q \in Opened : files[q].torn}

\* wal.Open meets a torn tail and rewrites the intact prefix in place,
Cut ==
    /\ pc = "down"
    /\ DOMAIN files # {} /\ TornOpened # {}
    /\ LET q == CHOOSE q \in TornOpened : \A p \in TornOpened : p <= q
       IN  staged' = [seq |-> q]
    /\ pc' = "cutting"
    /\ UNCHANGED <<cluster, files, db, m, told, blemish, faults>>

\* and makes the truncation durable.
CutSync ==
    /\ pc = "cutting"
    /\ files' = [files EXCEPT ![staged.seq].torn = FALSE]
    /\ staged' = NoStage /\ pc' = "down"
    /\ UNCHANGED <<cluster, db, m, told, blemish, faults>>

\* Mutant: boot declares everything the row store holds applied.
Boot_AppliedAtStore ==
    /\ pc = "down"
    /\ DOMAIN files # {} /\ TornOpened = {}
    /\ LET q    == Newest(files)
           s    == replay(files[q])
           keep == Index(s.snap) = 0 \/ (db.ok /\ db.idx >= Index(s.snap))
       IN  /\ m' = [Down EXCEPT !.log = s.log, !.snap = Index(s.snap), !.term = s.term,
                        !.commit = s.commit, !.applied = IF keep THEN db.idx ELSE Index(s.snap),
                        !.conf = s.snap.conf, !.seq = q,
                        !.trusted = db.ok,
                        !.store = IF keep THEN db.rows ELSE s.snap.rows,
                        !.persisted = IF keep THEN db.idx ELSE Index(s.snap)]
           /\ db' = IF keep THEN db ELSE NoDB
           /\ pc' = IF keep THEN "clean" ELSE "bootreset"
    /\ UNCHANGED <<cluster, files, staged, told, blemish, faults>>

\* openPersistedStore and recover on a disk with log files: the row store is
\* trusted when it holds an applied index; the newest valid file is replayed
\* into raft's storage and nothing is applied.  restoreSnapshot keeps a
\* trusted store that is at or beyond the snapshot, and otherwise resets it:
\* ResetAt first drops everything.
Boot ==
    /\ pc = "down"
    /\ DOMAIN files # {} /\ TornOpened = {}
    /\ LET q    == Newest(files)
           s    == replay(files[q])
           keep == Index(s.snap) = 0 \/ (db.ok /\ db.idx >= Index(s.snap))
       IN  /\ m' = [Down EXCEPT !.log = s.log, !.snap = Index(s.snap), !.term = s.term,
                        !.commit = s.commit, !.applied = Index(s.snap),
                        !.conf = s.snap.conf, !.seq = q,
                        !.trusted = db.ok,
                        !.store = IF keep THEN db.rows ELSE s.snap.rows,
                        !.persisted = IF keep THEN db.idx ELSE Index(s.snap)]
           /\ db' = IF keep THEN db ELSE NoDB
           /\ pc' = IF keep THEN "clean" ELSE "bootreset"
    /\ UNCHANGED <<cluster, files, staged, told, blemish, faults>>

\* A fresh disk of a founding member: the log starts with the founding
\* configuration, entry 1, already committed.
BootFresh ==
    /\ pc = "down" /\ DOMAIN files = {}
    /\ m' = [Down EXCEPT !.seq = 1, !.trusted = db.ok, !.store = db.rows,
                         !.persisted = db.idx]
    /\ staged' = [seq |-> 1, rec |-> record(1, 1, 1, <<1>>, NoSnap)]
    /\ pc' = "append"
    /\ UNCHANGED <<cluster, files, db, told, blemish, faults>>

\* The second half of ResetAt: the snapshot's rows and its index in one
\* transaction.
ResetCommit ==
    /\ pc \in {"bootreset", "snapreset"}
    /\ db' = [ok |-> TRUE, idx |-> m.persisted, rows |-> m.store]
    /\ pc' = IF pc = "bootreset" THEN "clean" ELSE "install"
    /\ UNCHANGED <<cluster, files, staged, m, told, blemish, faults>>

\* removeLog: boot and rotation remove every other log file, one at a time.
RemoveOther ==
    /\ pc \in {"clean", "forced"}
    /\ LET keep == IF pc = "clean" THEN m.seq ELSE Newest(files)
       IN  \E q \in DOMAIN files \ {keep} : files' = WithoutFile(files, q)
    /\ UNCHANGED <<cluster, staged, db, pc, m, told, blemish, faults>>

RemovedAll ==
    /\ pc \in {"clean", "forced"}
    /\ Cardinality(DOMAIN files) = 1
    /\ pc' = IF pc = "clean" THEN "idle" ELSE "down"
    /\ UNCHANGED <<cluster, files, staged, db, m, told, blemish, faults>>

-----------------------------------------------------------------------------
(* processReady. *)

\* A Ready with a hard state and perhaps entries: the follower adopts the
\* leader's term, takes its log up to l, and learns of commits up to c.  The
\* record goes to the log file first.
ReadyAppend ==
    /\ pc = "idle"
    /\ \E l \in m.commit..Len(leader), c \in m.commit..ccommit :
         LET from == CHOOSE i \in 1..l + 1 :
                 /\ \A j \in 1..i - 1 : j <= Len(m.log) /\ m.log[j] = leader[j]
                 /\ i = l + 1 \/ i > Len(m.log) \/ m.log[i] # leader[i]
             last == IF from = l + 1 THEN Len(m.log) ELSE l
         IN  /\ from > m.snap /\ c <= l
             /\ from <= l \/ c > m.commit \/ cterm > m.term
             /\ staged' = [seq |-> m.seq,
                           rec |-> record(cterm, c, from, SubSeq(leader, from, l), NoSnap)]
    /\ pc' = "append"
    /\ UNCHANGED <<cluster, files, db, m, told, blemish, faults>>

\* Disk.Sync: the record is durable; raft's memory follows, and the messages
\* that depend on it leave the node.
AppendSync ==
    /\ pc = "append"
    /\ files' = AppendFrame(files, staged.seq, staged.rec)
    /\ LET s == Replayed([log |-> m.log, snap |-> NoSnap, term |-> m.term,
                          commit |-> m.commit], staged.rec)
       IN  m' = [m EXCEPT !.log = s.log, !.term = s.term, !.commit = s.commit]
    /\ staged' = NoStage /\ pc' = "send"
    /\ UNCHANGED <<cluster, db, told, blemish, faults>>

\* The messages of the Ready; then raft hands over some of the entries that
\* are committed and not applied (one Ready holds a bounded amount of them).
Send ==
    /\ pc = "send"
    /\ told' = [term |-> m.term, log |-> m.log]
    /\ \E k \in m.applied..m.commit : m' = [m EXCEPT !.upto = k]
    /\ pc' = "apply"
    /\ UNCHANGED <<cluster, files, staged, db, blemish, faults>>

\* A Ready with committed entries only.
ReadyApply ==
    /\ pc = "idle"
    /\ \E k \in m.applied + 1..m.commit : m' = [m EXCEPT !.upto = k]
    /\ pc' = "apply"
    /\ UNCHANGED <<cluster, files, staged, db, told, blemish, faults>>

\* Mutant: entries the row store already holds are applied again.
applyEntry_NoSkip ==
    /\ pc = "apply" /\ m.applied < m.upto
    /\ LET i   == m.applied + 1
           now == Applied(m.store, i, m.log[i])
           run == i \notin ConfAt
       IN  /\ m' = [m EXCEPT !.applied = i,
                        !.conf = IF i \in ConfAt THEN @ \cup {i} ELSE @,
                        !.confChanged = @ \/ i \in ConfAt,
                        !.store = IF run THEN now ELSE @]
           /\ db' = IF run /\ now # m.store
                    THEN [ok |-> TRUE, idx |-> i, rows |-> now] ELSE db
    /\ UNCHANGED <<cluster, files, staged, pc, told, blemish, faults>>

\* applyEntry.  A membership change always takes effect.  A normal entry at or
\* below the index the row store was loaded at is skipped; any other commits
\* its rows together with its index, and one without effect commits nothing.
applyEntry ==
    /\ pc = "apply" /\ m.applied < m.upto
    /\ LET i   == m.applied + 1
           now == Applied(m.store, i, m.log[i])
           run == i \notin ConfAt /\ i > m.persisted
       IN  /\ m' = [m EXCEPT !.applied = i,
                        !.conf = IF i \in ConfAt THEN @ \cup {i} ELSE @,
                        !.confChanged = @ \/ i \in ConfAt,
                        !.store = IF run THEN now ELSE @]
           /\ db' = IF run /\ now # m.store
                    THEN [ok |-> TRUE, idx |-> i, rows |-> now] ELSE db
    /\ UNCHANGED <<cluster, files, staged, pc, told, blemish, faults>>

\* maybeSnapshot's conditions.
SnapshotDue ==
    /\ m.confChanged \/ m.applied - m.snap >= SnapshotEntries
    /\ m.applied > m.snap

\* maybeSnapshot finds nothing to do.
NoSnapshot ==
    /\ pc = "apply" /\ m.applied = m.upto /\ ~SnapshotDue
    /\ pc' = "idle"
    /\ UNCHANGED <<cluster, files, staged, db, m, told, blemish, faults>>

\* Mutant: the rotation frame carries no hard state.
TakeSnapshot_NoHardState ==
    /\ pc = "apply" /\ m.applied = m.upto /\ SnapshotDue
    /\ LET snap == [log |-> SubSeq(m.log, 1, m.applied), rows |-> m.store, conf |-> m.conf]
       IN  staged' = [seq |-> m.seq + 1,
                      rec |-> record(0, 0, m.applied + 1,
                                     SubSeq(m.log, m.applied + 1, Len(m.log)), snap)]
    /\ m' = [m EXCEPT !.snap = m.applied, !.confChanged = FALSE]
    /\ blemish' = IF m.persisted > m.applied THEN blemish \cup {"snapshot"} ELSE blemish
    /\ pc' = "rotate"
    /\ UNCHANGED <<cluster, files, db, told, faults>>

\* maybeSnapshot: the store's rows become the snapshot at the applied index,
\* the log is compacted to it, and the rotation's one frame carries the
\* snapshot, the standing hard state and the tail peers were promised.
TakeSnapshot ==
    /\ pc = "apply" /\ m.applied = m.upto /\ SnapshotDue
    /\ LET snap == [log |-> SubSeq(m.log, 1, m.applied), rows |-> m.store, conf |-> m.conf]
       IN  staged' = [seq |-> m.seq + 1,
                      rec |-> record(m.term, m.commit, m.applied + 1,
                                     SubSeq(m.log, m.applied + 1, Len(m.log)), snap)]
    /\ m' = [m EXCEPT !.snap = m.applied, !.confChanged = FALSE]
    /\ blemish' = IF m.persisted > m.applied THEN blemish \cup {"snapshot"} ELSE blemish
    /\ pc' = "rotate"
    /\ UNCHANGED <<cluster, files, db, told, faults>>

\* Mutant: a streamed snapshot leaves the applied index alone.
InstallSnapshot_KeepsApplied ==
    /\ pc = "idle"
    /\ \E s \in m.commit + 1..ccommit :
         LET snap == [log |-> SubSeq(leader, 1, s), rows |-> Effect(leader, s),
                      conf |-> Configuration(s)]
             keep == m.trusted /\ m.persisted >= s
         IN  /\ s > forced
             /\ s <= Len(m.log) => m.log[s] # leader[s]
             /\ m' = [m EXCEPT !.log = snap.log, !.snap = s, !.term = cterm, !.commit = s,
                               !.upto = s, !.conf = snap.conf,
                               !.store = IF keep THEN @ ELSE snap.rows,
                               !.persisted = IF keep THEN @ ELSE s]
             /\ staged' = [seq |-> m.seq + 1, rec |-> record(cterm, s, s + 1, <<>>, snap)]
             /\ db' = IF keep THEN db ELSE NoDB
             /\ pc' = IF keep THEN "install" ELSE "snapreset"
    /\ UNCHANGED <<cluster, files, told, blemish, faults>>

\* A Ready with a snapshot the leader streamed: raft installs one only where
\* the log does not already agree with it.  restoreSnapshot runs first, and
\* resets the row store unless that is trusted and beyond the snapshot.
InstallSnapshot ==
    /\ pc = "idle"
    /\ \E s \in m.commit + 1..ccommit :
         LET snap == [log |-> SubSeq(leader, 1, s), rows |-> Effect(leader, s),
                      conf |-> Configuration(s)]
             keep == m.trusted /\ m.persisted >= s
         IN  /\ s > forced
             /\ s <= Len(m.log) => m.log[s] # leader[s]
             /\ m' = [m EXCEPT !.log = snap.log, !.snap = s, !.term = cterm, !.commit = s,
                               !.applied = s, !.upto = s, !.conf = snap.conf,
                               !.store = IF keep THEN @ ELSE snap.rows,
                               !.persisted = IF keep THEN @ ELSE s]
             /\ staged' = [seq |-> m.seq + 1, rec |-> record(cterm, s, s + 1, <<>>, snap)]
             /\ db' = IF keep THEN db ELSE NoDB
             /\ pc' = IF keep THEN "install" ELSE "snapreset"
    /\ UNCHANGED <<cluster, files, told, blemish, faults>>

\* rotate: the new file's frame is durable before the old file goes.  A
\* compaction ends its Ready; an installed snapshot comes before the messages.
RotateSync ==
    /\ pc \in {"rotate", "install"}
    /\ files' = AppendFrame(files, staged.seq, staged.rec)
    /\ m' = [m EXCEPT !.seq = staged.seq]
    /\ staged' = NoStage
    /\ pc' = IF pc = "rotate" THEN "retire" ELSE "replace"
    /\ UNCHANGED <<cluster, db, told, blemish, faults>>

RetireOld ==
    /\ pc \in {"retire", "replace"}
    /\ files' = WithoutFile(files, m.seq - 1)
    /\ pc' = IF pc = "retire" THEN "idle" ELSE "send"
    /\ UNCHANGED <<cluster, staged, db, m, told, blemish, faults>>

-----------------------------------------------------------------------------
(* Offline recovery: quorum is lost for good, and the local log wins. *)

\* ForceNewCluster applies the whole local log to the newest snapshot and
\* writes one frame at the last index, with this node as the only member.
Force ==
    /\ pc = "down" /\ MayForce /\ forced = 0
    /\ DOMAIN files # {} /\ TornOpened = {}
    /\ LET s    == Recovered(files)
           last == Len(s.log)
           todo == [i \in 1..last - Index(s.snap) |-> Index(s.snap) + i]
           rows == FoldLeft(LAMBDA r, i : Applied(r, i, s.log[i]), s.snap.rows, todo)
           top  == CHOOSE q \in DOMAIN files : \A p \in DOMAIN files : p <= q
       IN  /\ last > 0
           /\ staged' = [seq |-> top + 1,
                         rec |-> record(s.term, last, last + 1, <<>>,
                                        [log |-> s.log, rows |-> rows, conf |-> {}])]
    /\ pc' = "force"
    /\ UNCHANGED <<cluster, files, db, m, told, blemish, faults>>

\* The new history is durable: from here on this node is the cluster.
ForceSync ==
    /\ pc = "force"
    /\ files' = AppendFrame(files, staged.seq, staged.rec)
    /\ leader' = staged.rec.snap.log /\ ccommit' = Len(leader')
    /\ forced' = Len(leader')
    /\ blemish' = IF db.idx > Recovered(files).commit THEN blemish \cup {"recovery"} ELSE blemish
    /\ staged' = NoStage /\ pc' = "forced"
    /\ UNCHANGED <<cterm, db, m, told, faults>>

-----------------------------------------------------------------------------
(* The cluster and the faults.  The replica looks at the cluster only when  *)
(* it is idle, so that is when the cluster moves.                           *)

LeaderAppend ==
    /\ pc = "idle"
    /\ Len(leader) < MaxIndex
    /\ leader' = Append(leader, cterm)
    /\ UNCHANGED <<cterm, ccommit, forced, files, staged, db, pc, m, told, blemish, faults>>

\* A leader commits entries of its own term, and with them all before.
LeaderCommit ==
    /\ pc = "idle"
    /\ \E k \in ccommit + 1..Len(leader) : leader[k] = cterm /\ ccommit' = k
    /\ UNCHANGED <<leader, cterm, forced, files, staged, db, pc, m, told, blemish, faults>>

\* Another leader: it has every committed entry, and of the rest what it got.
Elect ==
    /\ pc = "idle"
    /\ cterm < MaxTerm
    /\ cterm' = cterm + 1
    /\ \E k \in ccommit..Len(leader) : leader' = SubSeq(leader, 1, k)
    /\ UNCHANGED <<ccommit, forced, files, staged, db, pc, m, told, blemish, faults>>

\* What a crash makes of a staged write: an append is lost, torn or complete,
\* and what was durable before it stays; a rewrite in place risks it all.
Landed ==
    CASE pc \in {"append", "rotate", "install", "force"} ->
            LET q   == staged.seq
                old == IF q \in DOMAIN files THEN files[q] ELSE NoFile
            IN  {files, WithFile(files, q, old), WithFile(files, q, [old EXCEPT !.torn = TRUE]),
                 AppendFrame(files, q, staged.rec)}
      [] pc = "cutting" ->
            LET q == staged.seq
            IN  {files} \cup {WithFile(files, q, [frames |-> SubSeq(files[q].frames, 1, n), torn |-> t]) :
                                  n \in 0..Len(files[q].frames) - 1, t \in BOOLEAN}
      [] OTHER -> {files}

Crash ==
    /\ crashes < MaxCrashes
    /\ pc # "down" /\ (pc = "cutting" => CutCrash)
    /\ files' \in Landed
    /\ pc = "force" => files' # AppendFrame(files, staged.seq, staged.rec)
    /\ crashes' = crashes + 1
    /\ staged' = NoStage /\ pc' = "down" /\ m' = Down
    /\ UNCHANGED <<cluster, db, told, blemish, wipes>>

\* The row store cannot be opened: the node discards it before it boots.
Wipe ==
    /\ pc = "down" /\ wipes < MaxWipes
    /\ wipes' = wipes + 1 /\ db' = NoDB
    /\ UNCHANGED <<cluster, files, staged, pc, m, told, blemish, crashes>>

-----------------------------------------------------------------------------

Init ==
    /\ leader = <<1>> /\ cterm = 1 /\ ccommit = 1 /\ forced = 0
    /\ files = <<>> /\ staged = NoStage /\ db = NoDB
    /\ pc = "down" /\ m = Down
    /\ told = [term |-> 0, log |-> <<>>]
    /\ blemish = {} /\ crashes = 0 /\ wipes = 0

Replica ==
    \/ Cut \/ CutSync \/ Boot \/ BootFresh \/ ResetCommit \/ RemoveOther \/ RemovedAll
    \/ ReadyAppend \/ AppendSync \/ Send \/ ReadyApply \/ applyEntry
    \/ NoSnapshot \/ TakeSnapshot \/ InstallSnapshot \/ RotateSync \/ RetireOld
    \/ Force \/ ForceSync

Cluster == LeaderAppend \/ LeaderCommit \/ Elect

Next == Replica \/ Cluster \/ Crash \/ Wipe

Spec == Init /\ [][Next]_vars

-----------------------------------------------------------------------------
(* Properties. *)

\* Indexes and terms are within bounds; a replica has applied no more than it knows
\* committed, and compacted no more than it applied (raftnode.go, maybeSnapshot).
TypeOK ==
    /\ leader \in Seq(1..MaxTerm) /\ Len(leader) <= MaxIndex /\ cterm \in 1..MaxTerm
    /\ ccommit \in 0..Len(leader) /\ forced \in 0..MaxIndex
    /\ \A q \in DOMAIN files : files[q].torn \in BOOLEAN
    /\ db.ok \in BOOLEAN /\ db.idx \in 0..MaxIndex
    /\ m.applied \in 0..m.commit /\ m.snap \in 0..m.applied /\ m.commit \in 0..Len(m.log)
    /\ blemish \subseteq {"snapshot", "recovery"}

\* Serving: booted, and not between the two halves of a reset.
Serving == Up /\ pc \notin {"bootreset", "snapreset"}

\* The configuration a replica runs with is the one its applied entries made,
\* although boot skips the metadata entries its row store already holds.
ConfIsExact == Up => m.conf = Configuration(m.applied)

\* A durable snapshot holds what the entries up to its index wrote, and no
\* more: it is what a lagging peer starts from.
SnapshotIsExact ==
    \A q \in DOMAIN files : \A i \in DOMAIN files[q].frames :
        LET snap == files[q].frames[i].snap
        IN  snap.rows = Effect(snap.log, Index(snap))

\* However often the node crashed, lost its row store or installed snapshots,
\* the store it serves is every committed write up to the later of what it
\* applied and what its row store was loaded at, each applied exactly once,
\* the row store on disk holds the same rows, and so do its snapshots for their
\* indexes.  (Unless a snapshot or an offline recovery was made while the row
\* store was ahead of the log.)
StoreIsExact ==
    blemish = {} =>
        /\ SnapshotIsExact
        /\ Serving =>
             /\ m.store = Effect(leader, IF m.applied > m.persisted THEN m.applied ELSE m.persisted)
             /\ db.rows = m.store

\* The refinement mapping: the disk is what boot would read from the files.
Disk == INSTANCE DurableLog WITH
    term <- Recovered(files).term, log <- Recovered(files).log,
    commit <- Recovered(files).commit

\* The files, whatever rotation and crashes do to them, are a durable log: what
\* boot would read moves only as Raft moves it, and nothing is said to a peer
\* before the disk holds it.
DiskIsDurableLog == Disk!Spec
=============================================================================
