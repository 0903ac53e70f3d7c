------------------------------ MODULE MetaStore ------------------------------
(***************************************************************************)
(* The replicated metadata store of internal/meta: what one replica's      *)
(* Store does with the proposals Raft commits, in commit order.  Each      *)
(* action is one Apply* function, which is one transaction: it either      *)
(* makes all its row changes or, on any error return, none (Store.txn      *)
(* rolls back), so a refused proposal is a stuttering step and every error *)
(* return is a guard.                                                      *)
(*                                                                         *)
(* Rows:  b/ rows are buckets[b], v/ rows are versions[b][k] (a set of     *)
(* entries, the row key's version ID being a field), c/ rows are           *)
(* current[b][k], and u/ rows are uploads[b][k] (one per upload) and       *)
(* parts[b][k] (one per part, below its upload's row).                     *)
(*                                                                         *)
(* Data kept abstract: bucket names and object keys are valid names;       *)
(* Size, ETag, CreatedUnixMS and PartCount, which a c/ row copies from the *)
(* entry, are one token, content; a default rule's days and years are one  *)
(* duration; 128-bit version IDs are naturals, so Next cannot wrap; times  *)
(* are small naturals.  The KEK fields are in module KeyRotation.          *)
(***************************************************************************)
EXTENDS Integers, FiniteSets

CONSTANTS
    Bucket,      \* bucket names
    Key,         \* object keys
    MaxID,       \* minted UUIDv7s are 1..MaxID, each minted at most once
    MaxTime,     \* real time runs from 0 to MaxTime
    Skew,        \* how far a proposer's clock may run ahead of real time
    Duration,    \* default-retention durations that proposals may set
    LockMode,    \* retention modes that proposals may carry
    LockChoice,  \* values of ObjectLockEnabled that CreateBucket may carry
    PartNumber   \* part numbers; {} leaves the multipart operations out

ASSUME MetaAssumption ==
    /\ MaxID \in Nat
    /\ MaxTime \in Nat
    /\ Skew \in Nat
    /\ Duration \subseteq Nat \ {0}
    /\ LockMode \subseteq {"Governance", "Compliance"}
    /\ LockChoice \subseteq BOOLEAN
    /\ PartNumber \subseteq Nat \ {0}

VARIABLES
    buckets,     \* b/ rows: bucket configuration, NoBucket when absent
    versions,    \* v/ rows
    current,     \* c/ rows: the derived listing row, NoCurrent when absent
    uploads,     \* u/ rows of uploads in progress: their upload IDs
    parts,       \* u/ rows of uploaded parts
    minted,      \* version, data and upload IDs handed out so far
    now,         \* real time, which no Apply function reads
    freed,       \* history: data IDs whose shards a caller was told to delete
    promised     \* history: every COMPLIANCE retention ever set

vars == <<buckets, versions, current, uploads, parts, minted, now, freed, promised>>

-----------------------------------------------------------------------------
(* Records.                                                                *)

ID == 1..MaxID
Time == 0..(MaxTime + Skew)
Mode == {"None", "Governance", "Compliance"}
Versioning == {"Unversioned", "Enabled", "Suspended"}

BucketConfig == [versioning : Versioning \cup {"Absent"}, lock : BOOLEAN,
                 defMode : Mode, defDuration : Nat]
NoBucket == [versioning |-> "Absent", lock |-> FALSE,
             defMode |-> "None", defDuration |-> 0]

VersionEntry == [vid : Nat, data : SUBSET Nat, kind : {"Object", "DeleteMarker"},
                 multipart : BOOLEAN, null : BOOLEAN, content : Nat,
                 mode : Mode, until : Nat, hold : BOOLEAN]

CurrentRecord == [vid : Nat, content : Nat]
NoCurrent == [vid |-> 0, content |-> 0]
currentRecordFor(e) == [vid |-> e.vid, content |-> e.content]

PartRecord == [upload : Nat, num : Nat, data : Nat, large : BOOLEAN]

Promise == [bucket : Bucket, key : Key, vid : Nat, until : Nat]

\* What a write may say about retention: nothing, or a mode and a date.
Retention == {[mode |-> "None", until |-> 0]}
             \cup [mode : LockMode, until : Time \ {0}]

-----------------------------------------------------------------------------
(* Reads.                                                                  *)

GetBucket(b) == buckets[b].versioning # "Absent"

IsNewest(e, S) == e \in S /\ \A f \in S : f.vid <= e.vid
HasNewest(S) == \E e \in S : IsNewest(e, S)
newestVersion(S) == CHOOSE e \in S : IsNewest(e, S)

nullVersions(S) == {e \in S : e.null}

\* Mutant: the governance bypass also opens COMPLIANCE.
lockedAt_BypassOpensAll(e, at, bypass) ==
    e.hold \/ (e.until > at /\ e.mode # "None" /\ ~bypass)

lockedAt(e, at, bypass) ==
    \/ e.hold
    \/ /\ e.until > at
       /\ \/ e.mode = "Compliance"
          \/ e.mode = "Governance" /\ ~bypass

\* The c/ row a version list should have.
CurrentOf(S) ==
    IF HasNewest(S) /\ newestVersion(S).kind = "Object"
    THEN currentRecordFor(newestVersion(S)) ELSE NoCurrent

\* Commit order beats clock order: the ID a new version gets.
\* (Mutant: nothing is bumped.)
BumpedID_ClockOrder(id, S) == id

BumpedID(id, S) ==
    IF HasNewest(S) /\ id <= newestVersion(S).vid
    THEN newestVersion(S).vid + 1 ELSE id

\* The entry an unversioned or suspended write replaces: the first null
\* version in scan order, which is the newest.
\* (Mutant: it is looked for only at the top of the list.)
ReplacedNull_TopOnly(isNull, S) ==
    IF isNull /\ HasNewest(S) /\ newestVersion(S).null THEN {newestVersion(S)} ELSE {}

ReplacedNull(isNull, S) ==
    IF isNull /\ HasNewest(nullVersions(S)) THEN {newestVersion(nullVersions(S))} ELSE {}

removeNullVersion(isNull, S, at) ==
    \A e \in ReplacedNull(isNull, S) : ~lockedAt(e, at, FALSE)

DataIDs(S) == UNION {e.data : e \in S}

-----------------------------------------------------------------------------
(* Proposers: minted IDs and clock readings.  A proposal's timestamp may   *)
(* be older than its commit by any delay and ahead of real time by Skew.   *)

Mint(id) == id \notin minted /\ minted' = minted \cup {id}
ProposedAt == 0..(now + Skew)

Tick ==
    /\ now < MaxTime
    /\ now' = now + 1
    /\ UNCHANGED <<buckets, versions, current, uploads, parts, minted, freed, promised>>

-----------------------------------------------------------------------------
(* Buckets.                                                                *)

ApplyCreateBucket(b, lock) ==
    /\ ~GetBucket(b)
    /\ buckets' = [buckets EXCEPT ![b] =
           [versioning |-> IF lock THEN "Enabled" ELSE "Unversioned", lock |-> lock,
            defMode |-> "None", defDuration |-> 0]]
    /\ UNCHANGED <<versions, current, uploads, parts, minted, now, freed, promised>>

\* Mutant: uploads in progress do not count as content.
ApplyDeleteBucket_IgnoresUploads(b) ==
    /\ GetBucket(b)
    /\ \A k \in Key : versions[b][k] = {}
    /\ buckets' = [buckets EXCEPT ![b] = NoBucket]
    /\ UNCHANGED <<versions, current, uploads, parts, minted, now, freed, promised>>

ApplyDeleteBucket(b) ==
    /\ GetBucket(b)
    /\ \A k \in Key : versions[b][k] = {} /\ uploads[b][k] = {}
    /\ buckets' = [buckets EXCEPT ![b] = NoBucket]
    /\ UNCHANGED <<versions, current, uploads, parts, minted, now, freed, promised>>

ApplySetBucketVersioning(b, state) ==
    /\ GetBucket(b)
    /\ state \in {"Enabled", "Suspended"}
    /\ state = "Suspended" => ~buckets[b].lock
    /\ buckets' = [buckets EXCEPT ![b].versioning = state]
    /\ UNCHANGED <<versions, current, uploads, parts, minted, now, freed, promised>>

ApplySetObjectLockConfiguration(b, mode, duration) ==
    /\ GetBucket(b)
    /\ buckets[b].lock
    /\ (mode = "None") <=> (duration = 0)
    /\ buckets' = [buckets EXCEPT ![b].defMode = mode, ![b].defDuration = duration]
    /\ UNCHANGED <<versions, current, uploads, parts, minted, now, freed, promised>>

-----------------------------------------------------------------------------
(* Object versions.                                                        *)

PromisesOf(b, k, S) ==
    {[bucket |-> b, key |-> k, vid |-> e.vid, until |-> e.until] :
        e \in {f \in S : f.mode = "Compliance"}}

\* The commit path PUT, CompleteMultipartUpload and the delete marker share:
\* e is placed on top of the list and the null entry it replaces is dropped.
\* (Mutant: a delete marker leaves the listing row behind.)
CommitVersion_KeepsCurrent(b, k, e, at) ==
    LET S == versions[b][k] IN
    /\ removeNullVersion(e.null, S, at)
    /\ versions' = [versions EXCEPT ![b][k] = (S \ ReplacedNull(e.null, S)) \cup {e}]
    /\ current' = IF e.kind = "Object"
                  THEN [current EXCEPT ![b][k] = currentRecordFor(e)] ELSE current
    /\ promised' = promised \cup PromisesOf(b, k, {e})

CommitVersion(b, k, e, at) ==
    LET S == versions[b][k] IN
    /\ removeNullVersion(e.null, S, at)
    /\ versions' = [versions EXCEPT ![b][k] = (S \ ReplacedNull(e.null, S)) \cup {e}]
    /\ current' = [current EXCEPT ![b][k] =
           IF e.kind = "Object" THEN currentRecordFor(e) ELSE NoCurrent]
    /\ promised' = promised \cup PromisesOf(b, k, {e})

\* The bucket's default rule, where the write brings no retention of its own.
EffectiveRetention(b, r, at) ==
    IF r.mode = "None" /\ buckets[b].lock /\ buckets[b].defMode # "None"
    THEN [mode |-> buckets[b].defMode, until |-> at + buckets[b].defDuration]
    ELSE r

ApplyPutObject(b, k, id, at, r, hold) ==
    LET S == versions[b][k]
        isNull == buckets[b].versioning # "Enabled"
        ret == EffectiveRetention(b, r, at)
        e == [vid |-> BumpedID(id, S), data |-> {id}, kind |-> "Object",
              multipart |-> FALSE, null |-> isNull, content |-> id,
              mode |-> ret.mode, until |-> ret.until, hold |-> hold]
    IN  /\ GetBucket(b)
        /\ (r.mode # "None" \/ hold) => buckets[b].lock
        /\ r.mode # "None" => r.until > at
        /\ Mint(id)
        /\ CommitVersion(b, k, e, at)
        /\ freed' = freed \cup DataIDs(ReplacedNull(isNull, S))
        /\ UNCHANGED <<buckets, uploads, parts, now>>

\* DELETE without a version ID in a bucket that never was versioned.
DeleteUnversioned(b, k, at) ==
    LET S == versions[b][k]
        e == newestVersion(S)
    IN  /\ GetBucket(b)
        /\ buckets[b].versioning = "Unversioned"
        /\ HasNewest(S)
        /\ ~lockedAt(e, at, FALSE)
        /\ versions' = [versions EXCEPT ![b][k] = S \ {e}]
        /\ current' = [current EXCEPT ![b][k] = NoCurrent]
        /\ freed' = freed \cup e.data
        /\ UNCHANGED <<buckets, uploads, parts, minted, now, promised>>

\* DELETE without a version ID in a versioned bucket.
InsertDeleteMarker(b, k, id, at) ==
    LET S == versions[b][k]
        isNull == buckets[b].versioning = "Suspended"
        e == [vid |-> BumpedID(id, S), data |-> {}, kind |-> "DeleteMarker",
              multipart |-> FALSE, null |-> isNull, content |-> 0,
              mode |-> "None", until |-> 0, hold |-> FALSE]
    IN  /\ GetBucket(b)
        /\ buckets[b].versioning # "Unversioned"
        /\ Mint(id)
        /\ CommitVersion(b, k, e, at)
        /\ freed' = freed \cup DataIDs(ReplacedNull(isNull, S))
        /\ UNCHANGED <<buckets, uploads, parts, now>>

ApplyDeleteObject(b, k, id, at) ==
    DeleteUnversioned(b, k, at) \/ InsertDeleteMarker(b, k, id, at)

\* DELETE with a version ID.  The result names no data; the gateway deletes
\* the shards of the entry it read before it proposed.
ApplyDeleteVersion(b, k, e, at, bypass) ==
    LET S == versions[b][k] IN
    /\ GetBucket(b)
    /\ e \in S
    /\ ~lockedAt(e, at, bypass)
    /\ versions' = [versions EXCEPT ![b][k] = S \ {e}]
    /\ current' = IF IsNewest(e, S)
                  THEN [current EXCEPT ![b][k] = CurrentOf(S \ {e})]
                  ELSE current
    /\ freed' = freed \cup e.data
    /\ UNCHANGED <<buckets, uploads, parts, minted, now, promised>>

lockTarget(b, k, e) ==
    /\ GetBucket(b)
    /\ buckets[b].lock
    /\ e \in versions[b][k]
    /\ e.kind = "Object"

\* Rewrite the row of e in place.
ReplaceEntry(b, k, e, e2) ==
    versions' = [versions EXCEPT ![b][k] = (versions[b][k] \ {e}) \cup {e2}]

\* Expired retention behaves as no retention.
\* (Mutant: it expires one unit early.)
CurMode_Early(e, at) == IF e.until <= at + 1 THEN "None" ELSE e.mode
CurMode(e, at) == IF e.until <= at THEN "None" ELSE e.mode

ApplyUpdateRetention(b, k, e, at, r, bypass) ==
    LET e2 == [e EXCEPT !.mode = r.mode, !.until = r.until] IN
    /\ lockTarget(b, k, e)
    /\ r.mode # "None" => r.until > at
    /\ CurMode(e, at) = "Compliance" => r.mode = "Compliance" /\ r.until >= e.until
    /\ CurMode(e, at) = "Governance" /\ ~bypass => r.mode # "None" /\ r.until >= e.until
    /\ ReplaceEntry(b, k, e, e2)
    /\ promised' = promised \cup PromisesOf(b, k, {e2})
    /\ UNCHANGED <<buckets, current, uploads, parts, minted, now, freed>>

ApplyUpdateLegalHold(b, k, e, hold) ==
    /\ lockTarget(b, k, e)
    /\ ReplaceEntry(b, k, e, [e EXCEPT !.hold = hold])
    /\ UNCHANGED <<buckets, current, uploads, parts, minted, now, freed, promised>>

\* The coordinator deletes the old shards once the new address is committed.
ApplyReEncodeObject(b, k, e, id) ==
    /\ e \in versions[b][k]
    /\ e.kind = "Object" /\ ~e.multipart
    /\ Mint(id)
    /\ ReplaceEntry(b, k, e, [e EXCEPT !.data = {id}])
    /\ freed' = freed \cup e.data
    /\ UNCHANGED <<buckets, current, uploads, parts, now, promised>>

-----------------------------------------------------------------------------
(* Multipart uploads.                                                      *)

PartsOf(b, k, u) == {p \in parts[b][k] : p.upload = u}

\* Delete the upload's row and its part rows.
DropUpload(b, k, u) ==
    /\ uploads' = [uploads EXCEPT ![b][k] = @ \ {u}]
    /\ parts' = [parts EXCEPT ![b][k] = @ \ PartsOf(b, k, u)]

\* The data of the parts that a completion's list does not use.
\* (Mutant: the used ones are returned too.)
DiscardedParts_All(b, k, u, used) == {p.data : p \in PartsOf(b, k, u)}
\* (Mutant: only parts above the last used one are returned.)
DiscardedParts_Above(b, k, u, used) ==
    {p.data : p \in {q \in PartsOf(b, k, u) : \A r \in used : q.num > r.num}}
DiscardedParts(b, k, u, used) == {p.data : p \in PartsOf(b, k, u) \ used}

ApplyCreateMultipartUpload(b, k, u) ==
    /\ PartNumber # {}
    /\ GetBucket(b)
    /\ u \notin uploads[b][k]
    /\ Mint(u)
    /\ uploads' = [uploads EXCEPT ![b][k] = @ \cup {u}]
    /\ UNCHANGED <<buckets, versions, current, parts, now, freed, promised>>

ApplyUploadPart(b, k, u, n, id, large) ==
    LET prior == {p \in PartsOf(b, k, u) : p.num = n} IN
    /\ GetBucket(b)
    /\ u \in uploads[b][k]
    /\ Mint(id)
    /\ parts' = [parts EXCEPT ![b][k] =
           (@ \ prior) \cup {[upload |-> u, num |-> n, data |-> id, large |-> large]}]
    /\ freed' = freed \cup {p.data : p \in prior}
    /\ UNCHANGED <<buckets, versions, current, uploads, now, promised>>

\* used is the client's list, every item of which names a stored part.
ApplyCompleteMultipartUpload(b, k, u, used, id, at) ==
    LET S == versions[b][k]
        isNull == buckets[b].versioning # "Enabled"
        e == [vid |-> BumpedID(id, S), data |-> {p.data : p \in used}, kind |-> "Object",
              multipart |-> TRUE, null |-> isNull, content |-> id,
              mode |-> "None", until |-> 0, hold |-> FALSE]
    IN  /\ GetBucket(b)
        /\ u \in uploads[b][k]
        /\ used # {} /\ used \subseteq PartsOf(b, k, u)
        /\ \A p, q \in used : p.num < q.num => p.large
        /\ Mint(id)
        /\ CommitVersion(b, k, e, at)
        /\ DropUpload(b, k, u)
        /\ freed' = freed \cup DataIDs(ReplacedNull(isNull, S))
                          \cup DiscardedParts(b, k, u, used)
        /\ UNCHANGED <<buckets, now>>

ApplyAbortMultipartUpload(b, k, u) ==
    /\ GetBucket(b)
    /\ u \in uploads[b][k]
    /\ DropUpload(b, k, u)
    /\ freed' = freed \cup DiscardedParts(b, k, u, {})
    /\ UNCHANGED <<buckets, versions, current, minted, now, promised>>

-----------------------------------------------------------------------------
Init ==
    /\ buckets = [b \in Bucket |-> NoBucket]
    /\ versions = [b \in Bucket |-> [k \in Key |-> {}]]
    /\ current = [b \in Bucket |-> [k \in Key |-> NoCurrent]]
    /\ uploads = [b \in Bucket |-> [k \in Key |-> {}]]
    /\ parts = [b \in Bucket |-> [k \in Key |-> {}]]
    /\ minted = {}
    /\ now = 0
    /\ freed = {}
    /\ promised = {}

BucketStep(b) ==
    \/ \E lock \in LockChoice : ApplyCreateBucket(b, lock)
    \/ ApplyDeleteBucket(b)
    \/ \E state \in Versioning : ApplySetBucketVersioning(b, state)
    \/ \E mode \in {"None"} \cup LockMode, d \in {0} \cup Duration :
           ApplySetObjectLockConfiguration(b, mode, d)

WriteStep(b, k) ==
    \/ \E id \in ID, at \in ProposedAt, r \in Retention, hold \in BOOLEAN :
           ApplyPutObject(b, k, id, at, r, hold)
    \/ \E id \in ID, at \in ProposedAt : ApplyDeleteObject(b, k, id, at)
    \/ \E e \in versions[b][k], at \in ProposedAt, bypass \in BOOLEAN :
           ApplyDeleteVersion(b, k, e, at, bypass)
    \/ \E e \in versions[b][k], at \in ProposedAt, r \in Retention, bypass \in BOOLEAN :
           ApplyUpdateRetention(b, k, e, at, r, bypass)
    \/ \E e \in versions[b][k], hold \in BOOLEAN : ApplyUpdateLegalHold(b, k, e, hold)
    \/ \E e \in versions[b][k], id \in ID : ApplyReEncodeObject(b, k, e, id)

MultipartStep(b, k) ==
    \/ \E u \in ID : ApplyCreateMultipartUpload(b, k, u)
    \/ \E u \in uploads[b][k], n \in PartNumber, id \in ID, large \in BOOLEAN :
           ApplyUploadPart(b, k, u, n, id, large)
    \/ \E u \in uploads[b][k], used \in SUBSET parts[b][k], id \in ID, at \in ProposedAt :
           ApplyCompleteMultipartUpload(b, k, u, used, id, at)
    \/ \E u \in uploads[b][k] : ApplyAbortMultipartUpload(b, k, u)

Next ==
    \/ Tick
    \/ \E b \in Bucket : BucketStep(b)
    \/ \E b \in Bucket, k \in Key : WriteStep(b, k) \/ MultipartStep(b, k)

Spec == Init /\ [][Next]_vars

-----------------------------------------------------------------------------
(* Properties.                                                             *)

TypeOK ==
    /\ buckets \in [Bucket -> BucketConfig]
    /\ versions \in [Bucket -> [Key -> SUBSET VersionEntry]]
    /\ current \in [Bucket -> [Key -> CurrentRecord]]
    /\ uploads \in [Bucket -> [Key -> SUBSET ID]]
    /\ parts \in [Bucket -> [Key -> SUBSET PartRecord]]
    /\ minted \subseteq ID
    /\ now \in 0..MaxTime
    /\ freed \subseteq Nat
    /\ promised \subseteq Promise

\* A c/ row is present if and only if the key's newest version is a live
\* object, and it is a copy of that version (reads.go, Current).
CurrentIsNewestLive ==
    \A b \in Bucket, k \in Key : current[b][k] = CurrentOf(versions[b][k])

\* At most one null version exists per key (reads.go, nullVersion), through
\* every move of the bucket between Enabled and Suspended.
OneNullVersion ==
    \A b \in Bucket, k \in Key : \A e, f \in nullVersions(versions[b][k]) : e = f

\* A bumped version ID never lands on a row that exists, so no commit
\* overwrites another version's row.
VersionRowsDistinct ==
    \A b \in Bucket, k \in Key : \A e, f \in versions[b][k] : e.vid = f.vid => e = f

\* ApplyDeleteObject removes only the newest entry of an unversioned bucket's
\* list: the list must hold one entry, a null object version.
UnversionedHoldsOne ==
    \A b \in Bucket, k \in Key :
        buckets[b].versioning = "Unversioned" =>
            \A e, f \in versions[b][k] : e = f /\ e.null /\ e.kind = "Object"

\* The three together: what every Apply function takes for granted of the list
\* it finds, whatever order IDs were minted in and however often the bucket
\* moved between Enabled and Suspended.
VersionListsRight == OneNullVersion /\ VersionRowsDistinct /\ UnversionedHoldsOne

\* The comments at removeNullVersion and ApplyDeleteObject: a write that
\* replaces an entry never meets a locked one, because retention and holds
\* live only in buckets that are versioned for good and hold no null version.
LocksOnlyWhereVersioned ==
    \A b \in Bucket, k \in Key :
        /\ buckets[b].lock => /\ buckets[b].versioning = "Enabled"
                              /\ nullVersions(versions[b][k]) = {}
        /\ \A e \in versions[b][k] : e.hold \/ e.mode # "None" => buckets[b].lock

\* Deleting a bucket leaves no row behind, and completing or aborting an
\* upload leaves none of its part rows behind.
NoOrphanRows ==
    \A b \in Bucket, k \in Key :
        /\ ~GetBucket(b) => versions[b][k] = {} /\ uploads[b][k] = {}
        /\ \A p \in parts[b][k] : p.upload \in uploads[b][k]

\* METADATA.md: a skewed clock moves a lock boundary by the skew.  Whatever
\* proposals commit after a COMPLIANCE retention is set, the version is still
\* there, still under COMPLIANCE and at least as long, until the proposers'
\* clocks may have reached the date.
ComplianceKept ==
    \A p \in promised :
        p.until > now + Skew =>
            \E e \in versions[p.bucket][p.key] :
                e.vid = p.vid /\ e.mode = "Compliance" /\ e.until >= p.until

\* A data ID that an Apply function returned for reclamation is named by no
\* row, so deleting its shards takes nothing away from a version or a part.
FreedIsUnreferenced ==
    \A b \in Bucket, k \in Key :
        /\ \A e \in versions[b][k] : e.data \cap freed = {}
        /\ \A p \in parts[b][k] : p.data \notin freed

\* No two rows share a data ID: deleting one version's shards is safe for
\* every other row.
DataHasOneOwner ==
    \A b, c \in Bucket, k, l \in Key :
        /\ \A e \in versions[b][k], f \in versions[c][l] :
               e.data \cap f.data # {} => b = c /\ k = l /\ e = f
        /\ \A p \in parts[b][k], q \in parts[c][l] :
               p.data = q.data => b = c /\ k = l /\ p = q
        /\ \A e \in versions[b][k], q \in parts[c][l] : q.data \notin e.data

\* The two together: acting on what any Apply function returned for reclamation,
\* at any later time, deletes no byte that a row still names.
ReclaimIsSafe == FreedIsUnreferenced /\ DataHasOneOwner

NamedAt(b, k) == DataIDs(versions[b][k]) \cup {p.data : p \in parts[b][k]}
Referenced == UNION {UNION {NamedAt(b, k) : k \in Key} : b \in Bucket}

\* A data ID leaves the metadata only through a result (or a caller that read
\* the entry) that hands it back: no step drops the last name of stored data.
NothingForgotten == [][Referenced \ Referenced' \subseteq freed']_vars

\* No step removes a version under legal hold, or one whose COMPLIANCE date
\* lies beyond every proposer's clock, and none changes what it holds
\* (lockedAt; "no code path may destroy a locked version").
LockedSurvives ==
    [][\A b \in Bucket, k \in Key : \A e \in versions[b][k] :
          e.hold \/ (e.mode = "Compliance" /\ e.until > now + Skew) =>
              \E f \in versions'[b][k] : f.vid = e.vid /\ f.content = e.content]_vars

\* Version lists are append-ordered by commit whatever the clocks say: a step
\* that adds a version adds it above every version the list held before.
AppendOrdered ==
    [][\A b \in Bucket, k \in Key : \A f \in versions'[b][k] :
          \/ \E e \in versions[b][k] : e.vid = f.vid
          \/ \A e \in versions[b][k] : e.vid < f.vid]_vars
=============================================================================
