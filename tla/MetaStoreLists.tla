-------------------------- MODULE MetaStoreLists ---------------------------
(***************************************************************************)
(* Facts about version lists, the kinds of step MetaStore takes, its type  *)
(* correctness, and the invariants of its version lists and bucket rows,   *)
(* for every set of buckets and keys, every number of minted IDs, every    *)
(* clock skew and every sequence of proposals.                             *)
(***************************************************************************)
EXTENDS MetaStore, TLAPS, WellFoundedInduction

-----------------------------------------------------------------------------
(* Version lists.                                                          *)

\* A list is bounded when some number is at least every version ID in it.
\* Lists are finite, so all are; that is what makes a newest version exist.
Bounded(S) == \E n \in Nat : \A e \in S : e.vid <= n

\* A nonempty set of naturals with an upper bound has a greatest element.
LEMMA BoundedHasMax ==
    ASSUME NEW T \in SUBSET Nat, T # {}, NEW n \in Nat, \A x \in T : x <= n
    PROVE  \E x \in T : \A y \in T : y <= x
<1> DEFINE U == {u \in Nat : \E x \in T : u = n - x}
<1>1. ASSUME NEW y \in T PROVE n - y \in U
  <2>1. y \in Nat /\ y <= n
    OBVIOUS
  <2>2. n - y \in Nat
    BY <2>1
  <2> QED BY <2>2
<1>2. U \subseteq Nat /\ U # {}
  BY <1>1, Zenon
<1>3. PICK u \in U : \A y \in U : ~(<<y, u>> \in OpToRel(<, Nat))
  BY <1>2, NatLessThanWellFounded, WFMin, Zenon
<1>4. PICK x \in T : u = n - x
  OBVIOUS
<1>5. ASSUME NEW y \in T PROVE y <= x
  <2>1. n - y \in U
    BY <1>1
  <2>2. ~(<<n - y, u>> \in OpToRel(<, Nat))
    BY <1>3, <2>1, Zenon
  <2>3. ~(n - y < u)
    BY <2>2, <2>1, <1>2 DEF OpToRel
  <2>4. x \in Nat /\ y \in Nat
    OBVIOUS
  <2> QED BY <2>3, <1>4, <2>4
<1> QED BY <1>5

\* newestVersion finds an entry whenever the list holds one.
LEMMA NewestExists ==
    ASSUME NEW S \in SUBSET VersionEntry, Bounded(S), S # {}
    PROVE  HasNewest(S)
<1> DEFINE T == {e.vid : e \in S}
<1>1. T \in SUBSET Nat /\ T # {}
  BY DEF VersionEntry
<1>2. PICK n \in Nat : \A e \in S : e.vid <= n
  BY DEF Bounded
<1>3. \A x \in T : x <= n
  BY <1>2
<1>4. PICK x \in T : \A y \in T : y <= x
  BY <1>1, <1>3, BoundedHasMax, Zenon
<1>5. PICK e \in S : e.vid = x
  OBVIOUS
<1> QED BY <1>4, <1>5 DEF HasNewest, IsNewest

\* What newestVersion returns is newest.
LEMMA NewestIsNewest ==
    ASSUME NEW S, HasNewest(S)
    PROVE  newestVersion(S) \in S /\ \A f \in S : f.vid <= newestVersion(S).vid
BY DEF HasNewest, IsNewest, newestVersion

Distinct(S) == \A e, f \in S : e.vid = f.vid => e = f

\* With one row per version ID the newest entry is unique.
LEMMA NewestUnique ==
    ASSUME NEW S \in SUBSET VersionEntry, Distinct(S), NEW e, IsNewest(e, S)
    PROVE  HasNewest(S) /\ newestVersion(S) = e
<1>1. HasNewest(S)
  BY DEF HasNewest, IsNewest
<1>2. newestVersion(S) \in S /\ \A f \in S : f.vid <= newestVersion(S).vid
  BY <1>1, NewestIsNewest
<1>3. newestVersion(S).vid = e.vid
  BY <1>2 DEF IsNewest, VersionEntry
<1> QED BY <1>1, <1>2, <1>3 DEF Distinct, IsNewest

\* The bump: a new version's ID is above every ID in the list.
LEMMA BumpAbove ==
    ASSUME NEW S \in SUBSET VersionEntry, Bounded(S), NEW id \in Nat
    PROVE  BumpedID(id, S) \in Nat /\ \A f \in S : f.vid < BumpedID(id, S)
<1>1. CASE S = {}
  BY <1>1 DEF BumpedID, HasNewest
<1>2. CASE S # {}
  <2>1. HasNewest(S)
    BY <1>2, NewestExists
  <2>2. newestVersion(S) \in S /\ \A f \in S : f.vid <= newestVersion(S).vid
    BY <2>1, NewestIsNewest
  <2>3. newestVersion(S).vid \in Nat /\ \A f \in S : f.vid \in Nat
    BY <2>2 DEF VersionEntry
  <2> QED BY <2>1, <2>2, <2>3 DEF BumpedID
<1> QED BY <1>1, <1>2

\* What the three ways of changing a list do to it: put an entry on top,
\* remove one, rewrite one in place.
LEMMA ListCommit ==
    ASSUME NEW S \in SUBSET VersionEntry, Bounded(S), Distinct(S), NEW R \in SUBSET S,
           NEW e \in VersionEntry, \A f \in S : f.vid < e.vid
    PROVE  LET S2 == (S \ R) \cup {e}
           IN  /\ Bounded(S2) /\ Distinct(S2)
               /\ CurrentOf(S2) = IF e.kind = "Object" THEN currentRecordFor(e) ELSE NoCurrent
<1> DEFINE S2 == (S \ R) \cup {e}
<1>1. S2 \in SUBSET VersionEntry
  OBVIOUS
<1>2. e.vid \in Nat /\ \A f \in S : f.vid \in Nat
  BY DEF VersionEntry
<1>3. \A f \in S2 : f.vid <= e.vid
  BY <1>2
<1>4. Bounded(S2)
  BY <1>2, <1>3 DEF Bounded
<1>5. Distinct(S2)
  BY <1>2 DEF Distinct
<1>6. IsNewest(e, S2)
  BY <1>3 DEF IsNewest
<1>7. HasNewest(S2) /\ newestVersion(S2) = e
  BY <1>1, <1>5, <1>6, NewestUnique
<1> QED BY <1>4, <1>5, <1>7 DEF CurrentOf

\* Removing an entry keeps a list in order.
LEMMA ListRemove ==
    ASSUME NEW S \in SUBSET VersionEntry, Bounded(S), Distinct(S), NEW e \in S
    PROVE  /\ Bounded(S \ {e}) /\ Distinct(S \ {e})
           /\ ~IsNewest(e, S) => CurrentOf(S \ {e}) = CurrentOf(S)
<1>1. Bounded(S \ {e}) /\ Distinct(S \ {e})
  BY DEF Bounded, Distinct
<1>2. ASSUME ~IsNewest(e, S) PROVE CurrentOf(S \ {e}) = CurrentOf(S)
  <2>1. HasNewest(S)
    BY NewestExists
  <2> DEFINE n == newestVersion(S)
  <2>2. IsNewest(n, S)
    BY <2>1, NewestIsNewest DEF IsNewest
  <2>3. IsNewest(n, S \ {e})
    BY <1>2, <2>2 DEF IsNewest
  <2>4. HasNewest(S \ {e}) /\ newestVersion(S \ {e}) = n
    BY <1>1, <2>3, NewestUnique
  <2> QED BY <2>1, <2>4 DEF CurrentOf
<1> QED BY <1>1, <1>2

\* Rewriting an entry under its own version ID keeps a list in order.
LEMMA ListReplace ==
    ASSUME NEW S \in SUBSET VersionEntry, Bounded(S), Distinct(S), NEW e \in S,
           NEW e2 \in VersionEntry, e2.vid = e.vid, e2.content = e.content, e2.kind = e.kind
    PROVE  LET S2 == (S \ {e}) \cup {e2}
           IN  Bounded(S2) /\ Distinct(S2) /\ CurrentOf(S2) = CurrentOf(S)
<1> DEFINE S2 == (S \ {e}) \cup {e2}
<1>1. S2 \in SUBSET VersionEntry
  OBVIOUS
<1>2. Bounded(S2) /\ Distinct(S2)
  BY DEF Bounded, Distinct
<1>3. HasNewest(S)
  BY NewestExists
<1> DEFINE n == newestVersion(S)
           n2 == IF n = e THEN e2 ELSE n
<1>4. n \in S /\ \A f \in S : f.vid <= n.vid
  BY <1>3, NewestIsNewest
<1>5. IsNewest(n2, S2)
  BY <1>4 DEF IsNewest
<1>6. HasNewest(S2) /\ newestVersion(S2) = n2
  BY <1>1, <1>2, <1>5, NewestUnique
<1> QED BY <1>2, <1>3, <1>6 DEF CurrentOf, currentRecordFor

-----------------------------------------------------------------------------
(* Type correctness.                                                       *)

\* What removeNullVersion drops is an entry of the list.
LEMMA ReplacedNullSubset ==
    ASSUME NEW S, NEW isNull
    PROVE  ReplacedNull(isNull, S) \subseteq S
BY NewestIsNewest DEF ReplacedNull, nullVersions

\* The data IDs of typed entries are naturals.
LEMMA DataIDsType ==
    ASSUME NEW S \in SUBSET VersionEntry
    PROVE  DataIDs(S) \subseteq Nat
BY DEF DataIDs, VersionEntry

\* The promises of typed entries are typed.
LEMMA PromisesType ==
    ASSUME NEW b \in Bucket, NEW k \in Key, NEW S \in SUBSET VersionEntry
    PROVE  PromisesOf(b, k, S) \subseteq Promise
BY DEF PromisesOf, Promise, VersionEntry

\* A bumped version ID is a natural number.
LEMMA BumpedType ==
    ASSUME NEW S \in SUBSET VersionEntry, NEW id \in Nat
    PROVE  BumpedID(id, S) \in Nat
BY NewestIsNewest DEF BumpedID, VersionEntry

\* The shared commit path keeps the types of the rows and of the history.
LEMMA CommitType ==
    ASSUME TypeOK, NEW b \in Bucket, NEW k \in Key, NEW e \in VersionEntry, NEW at,
           CommitVersion(b, k, e, at)
    PROVE  /\ versions' \in [Bucket -> [Key -> SUBSET VersionEntry]]
           /\ current' \in [Bucket -> [Key -> CurrentRecord]]
           /\ promised' \subseteq Promise
           /\ DataIDs(ReplacedNull(e.null, versions[b][k])) \subseteq Nat
<1> DEFINE S == versions[b][k]
<1>1. S \in SUBSET VersionEntry
  BY DEF TypeOK
<1>2. ReplacedNull(e.null, S) \in SUBSET VersionEntry
  BY <1>1, ReplacedNullSubset
<1>3. (S \ ReplacedNull(e.null, S)) \cup {e} \in SUBSET VersionEntry
  BY <1>1
<1>4. versions' \in [Bucket -> [Key -> SUBSET VersionEntry]]
  BY <1>3 DEF CommitVersion, TypeOK
<1>5. currentRecordFor(e) \in CurrentRecord /\ NoCurrent \in CurrentRecord
  BY DEF currentRecordFor, CurrentRecord, NoCurrent, VersionEntry
<1>6. current' \in [Bucket -> [Key -> CurrentRecord]]
  BY <1>5 DEF CommitVersion, TypeOK
<1>7. promised' \subseteq Promise
  BY PromisesType, Zenon DEF CommitVersion, TypeOK
<1> QED BY <1>2, <1>4, <1>6, <1>7, DataIDsType

\* A default rule or the write's own retention: a mode and a date.
LEMMA RetentionType ==
    ASSUME TypeOK, NEW b \in Bucket, NEW r \in Retention, NEW at \in ProposedAt
    PROVE  /\ at \in Nat /\ r.mode \in Mode /\ r.until \in Nat
           /\ EffectiveRetention(b, r, at).mode \in Mode
           /\ EffectiveRetention(b, r, at).until \in Nat
<1>1. at \in Nat
  BY MetaAssumption DEF ProposedAt, TypeOK
<1>2. r.mode \in Mode /\ r.until \in Nat
  <2>1. CASE r = [mode |-> "None", until |-> 0]
    BY <2>1 DEF Mode
  <2>2. CASE r \in [mode : LockMode, until : Time \ {0}]
    <3>1. r.mode \in LockMode /\ r.until \in Time
      BY <2>2
    <3>2. r.mode \in Mode
      BY <3>1, MetaAssumption, Zenon DEF Mode
    <3>3. MaxTime + Skew \in Nat
      BY MetaAssumption
    <3> QED BY <3>1, <3>2, <3>3 DEF Time
  <2> QED BY <2>1, <2>2 DEF Retention
<1>3. buckets[b].defMode \in Mode /\ buckets[b].defDuration \in Nat
  BY DEF TypeOK, BucketConfig
<1> QED BY <1>1, <1>2, <1>3 DEF EffectiveRetention


-----------------------------------------------------------------------------
(* The kinds of step.  Every step that changes a version list puts an      *)
(* entry on top (CommitStep), removes one (RemoveStep) or rewrites one in  *)
(* place (RewriteStep); the invariants are proved against these three.     *)

CommitStep(b, k, e, id, at) ==
    /\ e \in VersionEntry
    /\ GetBucket(b)
    /\ e.vid = BumpedID(id, versions[b][k])
    /\ e.null <=> buckets[b].versioning # "Enabled"
    /\ e.kind = "DeleteMarker" => buckets[b].versioning # "Unversioned"
    /\ e.hold \/ e.mode # "None" => buckets[b].lock
    /\ CommitVersion(b, k, e, at)
    /\ UNCHANGED <<buckets, now>>

RemoveStep(b, k, e, at, bypass) ==
    /\ e \in versions[b][k]
    /\ GetBucket(b)
    /\ ~lockedAt(e, at, bypass)
    /\ versions' = [versions EXCEPT ![b][k] = @ \ {e}]
    /\ \/ current' = IF IsNewest(e, versions[b][k])
                     THEN [current EXCEPT ![b][k] = CurrentOf(versions[b][k] \ {e})]
                     ELSE current
       \/ /\ buckets[b].versioning = "Unversioned"
          /\ current' = [current EXCEPT ![b][k] = NoCurrent]
    /\ UNCHANGED <<buckets, now, promised>>

RewriteStep(b, k, e, e2) ==
    /\ e \in versions[b][k]
    /\ e2 \in VersionEntry
    /\ e2.vid = e.vid /\ e2.content = e.content /\ e2.kind = e.kind /\ e2.null = e.null
    /\ e2.hold \/ e2.mode # "None" => buckets[b].lock \/ e.hold \/ e.mode # "None"
    /\ e.mode = "Compliance" /\ e.until > now + Skew
         => e2.mode = "Compliance" /\ e2.until >= e.until
    /\ versions' = [versions EXCEPT ![b][k] = (@ \ {e}) \cup {e2}]
    /\ promised \subseteq promised'
    /\ promised' \subseteq promised \cup PromisesOf(b, k, {e2})
    /\ UNCHANGED <<buckets, current, now>>

\* A PUT (ApplyPutObject) is a CommitStep.
LEMMA PutIsCommit ==
    ASSUME TypeOK, NEW b \in Bucket, NEW k \in Key, NEW id \in ID, NEW at \in ProposedAt,
           NEW r \in Retention, NEW hold \in BOOLEAN, ApplyPutObject(b, k, id, at, r, hold)
    PROVE  \E e : CommitStep(b, k, e, id, at)
<1> DEFINE S == versions[b][k]
           isNull == buckets[b].versioning # "Enabled"
           ret == EffectiveRetention(b, r, at)
           e == [vid |-> BumpedID(id, S), data |-> {id}, kind |-> "Object",
                 multipart |-> FALSE, null |-> isNull, content |-> id,
                 mode |-> ret.mode, until |-> ret.until, hold |-> hold]
<1>1. ret.mode \in Mode /\ ret.until \in Nat
  BY RetentionType
<1>2. id \in Nat /\ BumpedID(id, S) \in Nat
  BY BumpedType DEF TypeOK, ID
<1>3. e \in VersionEntry
  BY <1>1, <1>2 DEF VersionEntry
<1>4. e.hold \/ e.mode # "None" => buckets[b].lock
  <2>1. hold \/ r.mode # "None" => buckets[b].lock
    BY Zenon DEF ApplyPutObject
  <2>2. ret.mode # "None" => r.mode # "None" \/ buckets[b].lock
    BY <2>1, SMTT(30) DEF EffectiveRetention
  <2>3. e.hold = hold /\ e.mode = ret.mode
    BY Zenon
  <2> HIDE DEF e, ret
  <2> QED BY <2>1, <2>2, <2>3
<1>5. CommitVersion(b, k, e, at)
  BY Zenon DEF ApplyPutObject
<1>6. GetBucket(b) /\ UNCHANGED <<buckets, now>>
  BY SMTT(30) DEF ApplyPutObject
<1>7. CommitStep(b, k, e, id, at)
  BY <1>3, <1>4, <1>5, <1>6, Zenon DEF CommitStep
<1> QED BY <1>7

\* A delete marker (ApplyDeleteObject, versioned branch) is a CommitStep.
LEMMA MarkerIsCommit ==
    ASSUME TypeOK, NEW b \in Bucket, NEW k \in Key, NEW id \in ID, NEW at \in ProposedAt,
           InsertDeleteMarker(b, k, id, at)
    PROVE  \E e : CommitStep(b, k, e, id, at)
<1> DEFINE S == versions[b][k]
           isNull == buckets[b].versioning = "Suspended"
           e == [vid |-> BumpedID(id, S), data |-> {}, kind |-> "DeleteMarker",
                 multipart |-> FALSE, null |-> isNull, content |-> 0,
                 mode |-> "None", until |-> 0, hold |-> FALSE]
<1>1. BumpedID(id, S) \in Nat
  BY BumpedType DEF TypeOK, ID
<1>2. e \in VersionEntry
  BY <1>1 DEF VersionEntry, Mode
<1>3. CommitVersion(b, k, e, at)
  BY DEF InsertDeleteMarker
<1>4. GetBucket(b) /\ buckets[b].versioning # "Unversioned" /\ UNCHANGED <<buckets, now>>
  BY DEF InsertDeleteMarker
<1>5. isNull <=> buckets[b].versioning # "Enabled"
  BY <1>4, SMTT(30) DEF GetBucket, TypeOK, BucketConfig, Versioning
<1>6. CommitStep(b, k, e, id, at)
  BY <1>2, <1>3, <1>4, <1>5, Zenon DEF CommitStep
<1> QED BY <1>6, SMTT(30)

\* A completed upload (ApplyCompleteMultipartUpload) is a CommitStep.
LEMMA CompleteIsCommit ==
    ASSUME TypeOK, NEW b \in Bucket, NEW k \in Key, NEW u, NEW used \in SUBSET parts[b][k],
           NEW id \in ID, NEW at \in ProposedAt,
           ApplyCompleteMultipartUpload(b, k, u, used, id, at)
    PROVE  \E e : CommitStep(b, k, e, id, at)
<1> DEFINE S == versions[b][k]
           isNull == buckets[b].versioning # "Enabled"
           e == [vid |-> BumpedID(id, S), data |-> {p.data : p \in used}, kind |-> "Object",
                 multipart |-> TRUE, null |-> isNull, content |-> id,
                 mode |-> "None", until |-> 0, hold |-> FALSE]
<1>1. id \in Nat /\ BumpedID(id, S) \in Nat
  BY BumpedType DEF TypeOK, ID
<1>2. {p.data : p \in used} \in SUBSET Nat
  BY DEF TypeOK, PartRecord
<1>3. e \in VersionEntry
  BY <1>1, <1>2, SMTT(30) DEF VersionEntry, Mode
<1>4. CommitVersion(b, k, e, at)
  BY SMTT(30) DEF ApplyCompleteMultipartUpload
<1>5. GetBucket(b) /\ UNCHANGED <<buckets, now>>
  BY SMTT(30) DEF ApplyCompleteMultipartUpload
<1>6. CommitStep(b, k, e, id, at)
  BY <1>3, <1>4, <1>5, Zenon DEF CommitStep
<1> QED BY <1>6, SMTT(30)

\* Both deletions of a version row are RemoveSteps.
LEMMA DeleteIsRemove ==
    ASSUME TypeOK, NEW b \in Bucket, NEW k \in Key, NEW at \in ProposedAt
    PROVE  /\ DeleteUnversioned(b, k, at) => \E e : RemoveStep(b, k, e, at, FALSE)
           /\ \A e \in versions[b][k], bypass \in BOOLEAN :
                ApplyDeleteVersion(b, k, e, at, bypass) => RemoveStep(b, k, e, at, bypass)
<1>1. ASSUME DeleteUnversioned(b, k, at) PROVE RemoveStep(b, k, newestVersion(versions[b][k]), at, FALSE)
  BY <1>1, NewestIsNewest, Zenon DEF DeleteUnversioned, RemoveStep, TypeOK
<1>2. ASSUME NEW e \in versions[b][k], NEW bypass \in BOOLEAN, ApplyDeleteVersion(b, k, e, at, bypass)
      PROVE  RemoveStep(b, k, e, at, bypass)
  BY <1>2, ZenonT(30) DEF ApplyDeleteVersion, RemoveStep
<1> QED BY <1>1, <1>2, Zenon

\* The three updates of a row in place are RewriteSteps.
LEMMA UpdateIsRewrite ==
    ASSUME TypeOK, NEW b \in Bucket, NEW k \in Key, NEW e \in versions[b][k]
    PROVE  /\ \A at \in ProposedAt, r \in Retention, bypass \in BOOLEAN :
                ApplyUpdateRetention(b, k, e, at, r, bypass) => \E e2 : RewriteStep(b, k, e, e2)
           /\ \A hold \in BOOLEAN :
                ApplyUpdateLegalHold(b, k, e, hold) => \E e2 : RewriteStep(b, k, e, e2)
           /\ \A id \in ID :
                ApplyReEncodeObject(b, k, e, id) => \E e2 : RewriteStep(b, k, e, e2)
<1>1. e \in VersionEntry
  BY DEF TypeOK
<1>2. ASSUME NEW at \in ProposedAt, NEW r \in Retention, NEW bypass \in BOOLEAN,
             ApplyUpdateRetention(b, k, e, at, r, bypass)
      PROVE  RewriteStep(b, k, e, [e EXCEPT !.mode = r.mode, !.until = r.until])
  <2> DEFINE e2 == [e EXCEPT !.mode = r.mode, !.until = r.until]
  <2>1. r.mode \in Mode /\ r.until \in Nat /\ at \in Nat
    BY RetentionType
  <2>2. e2 \in VersionEntry
    BY <1>1, <2>1, Zenon DEF VersionEntry
  <2>3. /\ e2.vid = e.vid /\ e2.content = e.content /\ e2.kind = e.kind /\ e2.null = e.null
        /\ e2.mode = r.mode /\ e2.until = r.until /\ e2.hold = e.hold
    BY <1>1 DEF VersionEntry
  <2>4. ASSUME e.mode = "Compliance", e.until > now + Skew
        PROVE  e2.mode = "Compliance" /\ e2.until >= e.until
    <3>1. ~(e.until <= at)
      BY <1>1, <2>1, <2>4, MetaAssumption DEF ProposedAt, TypeOK, VersionEntry
    <3>2. CurMode(e, at) = "Compliance"
      BY <2>4, <3>1 DEF CurMode
    <3> QED BY <1>2, <2>3, <3>2 DEF ApplyUpdateRetention
  <2>5. buckets[b].lock
    BY <1>2 DEF ApplyUpdateRetention, lockTarget
  <2>6. /\ versions' = [versions EXCEPT ![b][k] = (versions[b][k] \ {e}) \cup {e2}]
        /\ promised' = promised \cup PromisesOf(b, k, {e2})
        /\ UNCHANGED <<buckets, current, now>>
    BY <1>2 DEF ApplyUpdateRetention, ReplaceEntry
  <2> HIDE DEF e2
  <2>9. RewriteStep(b, k, e, e2)
    BY <2>2, <2>3, <2>4, <2>5, <2>6 DEF RewriteStep, TypeOK
  <2> QED BY <2>9 DEF e2
<1>3. ASSUME NEW hold \in BOOLEAN, ApplyUpdateLegalHold(b, k, e, hold)
      PROVE  RewriteStep(b, k, e, [e EXCEPT !.hold = hold])
  <2> DEFINE e2 == [e EXCEPT !.hold = hold]
  <2>1. e2 \in VersionEntry
    BY <1>1 DEF VersionEntry
  <2>2. /\ e2.vid = e.vid /\ e2.content = e.content /\ e2.kind = e.kind /\ e2.null = e.null
        /\ e2.mode = e.mode /\ e2.until = e.until
    BY <1>1 DEF VersionEntry
  <2>3. buckets[b].lock
    BY <1>3 DEF ApplyUpdateLegalHold, lockTarget
  <2>4. /\ versions' = [versions EXCEPT ![b][k] = (versions[b][k] \ {e}) \cup {e2}]
        /\ UNCHANGED <<buckets, current, now, promised>>
    BY <1>3 DEF ApplyUpdateLegalHold, ReplaceEntry
  <2>5. e.until \in Nat
    BY <1>1 DEF VersionEntry
  <2> HIDE DEF e2
  <2>9. RewriteStep(b, k, e, e2)
    BY <2>1, <2>2, <2>3, <2>4, <2>5 DEF RewriteStep, TypeOK
  <2> QED BY <2>9 DEF e2
<1>4. ASSUME NEW id \in ID, ApplyReEncodeObject(b, k, e, id)
      PROVE  RewriteStep(b, k, e, [e EXCEPT !.data = {id}])
  <2> DEFINE e2 == [e EXCEPT !.data = {id}]
  <2>1. e2 \in VersionEntry
    BY <1>1, MetaAssumption DEF VersionEntry, ID
  <2>2. /\ e2.vid = e.vid /\ e2.content = e.content /\ e2.kind = e.kind /\ e2.null = e.null
        /\ e2.mode = e.mode /\ e2.until = e.until /\ e2.hold = e.hold
    BY <1>1 DEF VersionEntry
  <2>3. /\ versions' = [versions EXCEPT ![b][k] = (versions[b][k] \ {e}) \cup {e2}]
        /\ UNCHANGED <<buckets, current, now, promised>>
    BY <1>4 DEF ApplyReEncodeObject, ReplaceEntry
  <2>4. e.until \in Nat
    BY <1>1 DEF VersionEntry
  <2> HIDE DEF e2
  <2>9. RewriteStep(b, k, e, e2)
    BY <2>1, <2>2, <2>3, <2>4 DEF RewriteStep, TypeOK
  <2> QED BY <2>9 DEF e2
<1> QED BY <1>2, <1>3, <1>4, Zenon

-----------------------------------------------------------------------------
(* Type correctness.                                                       *)

RowsType ==
    /\ versions \in [Bucket -> [Key -> SUBSET VersionEntry]]
    /\ current \in [Bucket -> [Key -> CurrentRecord]]
    /\ promised \subseteq Promise

\* The three kinds of step keep the types of the rows they write.
LEMMA KindsKeepTypes ==
    ASSUME TypeOK, NEW b \in Bucket, NEW k \in Key
    PROVE  /\ \A e, id, at : CommitStep(b, k, e, id, at) => RowsType'
           /\ \A e, at, bypass : RemoveStep(b, k, e, at, bypass) => RowsType'
           /\ \A e, e2 : RewriteStep(b, k, e, e2) => RowsType'
<1>1. ASSUME NEW e, NEW id, NEW at, CommitStep(b, k, e, id, at) PROVE RowsType'
  <2>1. e \in VersionEntry /\ CommitVersion(b, k, e, at)
    BY <1>1 DEF CommitStep
  <2> QED BY <2>1, CommitType DEF RowsType
<1>2. ASSUME NEW e, NEW at, NEW bypass, RemoveStep(b, k, e, at, bypass) PROVE RowsType'
  <2>1. versions[b][k] \ {e} \in SUBSET VersionEntry
    BY DEF TypeOK
  <2>2. CurrentOf(versions[b][k] \ {e}) \in CurrentRecord /\ NoCurrent \in CurrentRecord
    BY <2>1, NewestIsNewest
       DEF CurrentOf, currentRecordFor, CurrentRecord, NoCurrent, VersionEntry
  <2>3. versions' \in [Bucket -> [Key -> SUBSET VersionEntry]]
    BY <1>2, <2>1 DEF RemoveStep, TypeOK
  <2>4. current' \in [Bucket -> [Key -> CurrentRecord]]
    <3>1. \/ current' = current
          \/ \E c \in CurrentRecord : current' = [current EXCEPT ![b][k] = c]
      BY <1>2, <2>2 DEF RemoveStep
    <3>2. CASE current' = current
      BY <3>2 DEF TypeOK
    <3>3. ASSUME NEW c \in CurrentRecord, current' = [current EXCEPT ![b][k] = c]
          PROVE  current' \in [Bucket -> [Key -> CurrentRecord]]
      BY <3>3 DEF TypeOK
    <3> QED BY <3>1, <3>2, <3>3
  <2> QED BY <1>2, <2>3, <2>4 DEF RemoveStep, RowsType, TypeOK
<1>3. ASSUME NEW e, NEW e2, RewriteStep(b, k, e, e2) PROVE RowsType'
  <2>1. e2 \in VersionEntry
    BY <1>3 DEF RewriteStep
  <2>2. PromisesOf(b, k, {e2}) \subseteq Promise
    BY <2>1, PromisesType
  <2> QED BY <1>3, <2>1, <2>2, Zenon DEF RewriteStep, RowsType, TypeOK
<1> QED BY <1>1, <1>2, <1>3

\* The data that a replaced null version frees is typed.
LEMMA ReplacedDataType ==
    ASSUME TypeOK, NEW b \in Bucket, NEW k \in Key, NEW isNull
    PROVE  DataIDs(ReplacedNull(isNull, versions[b][k])) \subseteq Nat
<1>1. ReplacedNull(isNull, versions[b][k]) \in SUBSET VersionEntry
  BY ReplacedNullSubset DEF TypeOK
<1> QED BY <1>1, DataIDsType

\* An empty store is well typed.
LEMMA TypeInit == Init => TypeOK
BY MetaAssumption DEF Init, TypeOK, NoBucket, BucketConfig, Mode, Versioning,
   NoCurrent, CurrentRecord

\* Every Apply function keeps the types.
LEMMA TypeStep == TypeOK /\ [Next]_vars => TypeOK'
<1> SUFFICES ASSUME TypeOK, [Next]_vars PROVE TypeOK'
  OBVIOUS
<1>1. CASE Tick
  BY <1>1, MetaAssumption DEF Tick, TypeOK
<1>2. ASSUME NEW b \in Bucket, NEW lock \in LockChoice, ApplyCreateBucket(b, lock)
      PROVE  TypeOK'
  <2>1. lock \in BOOLEAN
    BY MetaAssumption
  <2>2. [versioning |-> IF lock THEN "Enabled" ELSE "Unversioned", lock |-> lock,
         defMode |-> "None", defDuration |-> 0] \in BucketConfig
    BY <2>1 DEF BucketConfig, Versioning, Mode
  <2> QED BY <1>2, <2>2 DEF ApplyCreateBucket, TypeOK
<1>3. ASSUME NEW b \in Bucket, ApplyDeleteBucket(b) PROVE TypeOK'
  <2>1. NoBucket \in BucketConfig
    BY DEF BucketConfig, Versioning, Mode, NoBucket
  <2> QED BY <1>3, <2>1 DEF ApplyDeleteBucket, TypeOK
<1>4. ASSUME NEW b \in Bucket, NEW state \in Versioning, ApplySetBucketVersioning(b, state)
      PROVE  TypeOK'
  <2>1. [buckets[b] EXCEPT !.versioning = state] \in BucketConfig
    BY Zenon DEF BucketConfig, Versioning, TypeOK
  <2> QED BY <1>4, <2>1 DEF ApplySetBucketVersioning, TypeOK
<1>5. ASSUME NEW b \in Bucket, NEW mode \in {"None"} \cup LockMode, NEW d \in {0} \cup Duration,
             ApplySetObjectLockConfiguration(b, mode, d)
      PROVE  TypeOK'
  <2>1. mode \in Mode /\ d \in Nat
    BY MetaAssumption DEF Mode
  <2>2. [buckets[b] EXCEPT !.defMode = mode, !.defDuration = d] \in BucketConfig
    BY <2>1, Zenon DEF BucketConfig, TypeOK
  <2> QED BY <1>5, <2>2 DEF ApplySetObjectLockConfiguration, TypeOK
<1>6. ASSUME NEW b \in Bucket, NEW k \in Key, NEW id \in ID, NEW at \in ProposedAt,
             NEW r \in Retention, NEW hold \in BOOLEAN, ApplyPutObject(b, k, id, at, r, hold)
      PROVE  TypeOK'
  <2>1. RowsType'
    BY <1>6, PutIsCommit, KindsKeepTypes, SMTT(30)
  <2>2. freed' \subseteq Nat
    BY <1>6, ReplacedDataType, Zenon DEF ApplyPutObject, TypeOK
  <2> QED BY <1>6, <2>1, <2>2 DEF ApplyPutObject, Mint, TypeOK, RowsType
<1>7. ASSUME NEW b \in Bucket, NEW k \in Key, NEW id \in ID, NEW at \in ProposedAt,
             ApplyDeleteObject(b, k, id, at)
      PROVE  TypeOK'
  <2>1. CASE DeleteUnversioned(b, k, at)
    <3>1. RowsType'
      BY <2>1, DeleteIsRemove, KindsKeepTypes, Zenon
    <3>2. newestVersion(versions[b][k]) \in VersionEntry
      BY <2>1, NewestIsNewest, SMTT(30) DEF DeleteUnversioned, TypeOK
    <3>3. freed' \subseteq Nat
      BY <2>1, <3>2, Zenon DEF DeleteUnversioned, TypeOK, VersionEntry
    <3> QED BY <2>1, <3>1, <3>3, SMTT(30) DEF DeleteUnversioned, TypeOK, RowsType
  <2>2. CASE InsertDeleteMarker(b, k, id, at)
    <3>1. RowsType'
      BY <2>2, MarkerIsCommit, KindsKeepTypes
    <3>2. freed' \subseteq Nat
      BY <2>2, ReplacedDataType, Zenon DEF InsertDeleteMarker, TypeOK
    <3> QED BY <2>2, <3>1, <3>2, SMTT(30) DEF InsertDeleteMarker, Mint, TypeOK, RowsType
  <2> QED BY <1>7, <2>1, <2>2 DEF ApplyDeleteObject
<1>8. ASSUME NEW b \in Bucket, NEW k \in Key, NEW e \in versions[b][k], NEW at \in ProposedAt,
             NEW bypass \in BOOLEAN, ApplyDeleteVersion(b, k, e, at, bypass)
      PROVE  TypeOK'
  <2>1. RowsType'
    BY <1>8, DeleteIsRemove, KindsKeepTypes, Zenon
  <2>2. freed' \subseteq Nat
    <3>1. e.data \subseteq Nat
      BY DEF TypeOK, VersionEntry
    <3> QED BY <1>8, <3>1, Zenon DEF ApplyDeleteVersion, TypeOK
  <2>3. UNCHANGED <<buckets, uploads, parts, minted, now>>
    BY <1>8, Zenon DEF ApplyDeleteVersion
  <2> QED BY <2>1, <2>2, <2>3, Zenon DEF TypeOK, RowsType
<1>9. ASSUME NEW b \in Bucket, NEW k \in Key, NEW e \in versions[b][k], NEW at \in ProposedAt,
             NEW r \in Retention, NEW bypass \in BOOLEAN,
             ApplyUpdateRetention(b, k, e, at, r, bypass)
      PROVE  TypeOK'
  <2>1. RowsType'
    <3>1. PICK e2 : RewriteStep(b, k, e, e2)
      BY <1>9, UpdateIsRewrite, Zenon
    <3> QED BY <3>1, KindsKeepTypes, Zenon
  <2> QED BY <1>9, <2>1, Zenon DEF ApplyUpdateRetention, TypeOK, RowsType
<1>10. ASSUME NEW b \in Bucket, NEW k \in Key, NEW e \in versions[b][k], NEW hold \in BOOLEAN,
              ApplyUpdateLegalHold(b, k, e, hold)
       PROVE  TypeOK'
  <2>1. RowsType'
    <3>1. PICK e2 : RewriteStep(b, k, e, e2)
      BY <1>10, UpdateIsRewrite, Zenon
    <3> QED BY <3>1, KindsKeepTypes, Zenon
  <2> QED BY <1>10, <2>1, SMTT(30) DEF ApplyUpdateLegalHold, TypeOK, RowsType
<1>11. ASSUME NEW b \in Bucket, NEW k \in Key, NEW e \in versions[b][k], NEW id \in ID,
              ApplyReEncodeObject(b, k, e, id)
       PROVE  TypeOK'
  <2>1. RowsType'
    <3>1. PICK e2 : RewriteStep(b, k, e, e2)
      BY <1>11, UpdateIsRewrite, Zenon
    <3> QED BY <3>1, KindsKeepTypes, Zenon
  <2>2. freed' \subseteq Nat
    <3>1. e.data \subseteq Nat
      BY DEF TypeOK, VersionEntry
    <3> QED BY <1>11, <3>1 DEF ApplyReEncodeObject, TypeOK
  <2> QED BY <1>11, <2>1, <2>2, SMTT(30) DEF ApplyReEncodeObject, Mint, TypeOK, RowsType
<1>12. ASSUME NEW b \in Bucket, NEW k \in Key, NEW u \in ID,
              ApplyCreateMultipartUpload(b, k, u)
       PROVE  TypeOK'
  BY <1>12, SMTT(30) DEF ApplyCreateMultipartUpload, Mint, TypeOK
<1>13. ASSUME NEW b \in Bucket, NEW k \in Key, NEW u \in uploads[b][k], NEW n \in PartNumber,
              NEW id \in ID, NEW large \in BOOLEAN, ApplyUploadPart(b, k, u, n, id, large)
       PROVE  TypeOK'
  <2>1. [upload |-> u, num |-> n, data |-> id, large |-> large] \in PartRecord
    BY MetaAssumption, SMTT(30) DEF PartRecord, ID, TypeOK
  <2>2. freed' \subseteq Nat
    <3>1. \A p \in parts[b][k] : p.data \in Nat
      BY DEF TypeOK, PartRecord
    <3> QED BY <1>13, <3>1, Zenon DEF ApplyUploadPart, PartsOf, TypeOK
  <2> QED BY <1>13, <2>1, <2>2, SMTT(30) DEF ApplyUploadPart, Mint, TypeOK
<1>14. ASSUME NEW b \in Bucket, NEW k \in Key, NEW u \in uploads[b][k],
              NEW used \in SUBSET parts[b][k], NEW id \in ID, NEW at \in ProposedAt,
              ApplyCompleteMultipartUpload(b, k, u, used, id, at)
       PROVE  TypeOK'
  <2>1. RowsType'
    BY <1>14, CompleteIsCommit, KindsKeepTypes, Zenon
  <2>2. DiscardedParts(b, k, u, used) \subseteq Nat
    BY DEF DiscardedParts, PartsOf, TypeOK, PartRecord
  <2>3. freed' \subseteq Nat
    BY <1>14, <2>2, ReplacedDataType, Zenon DEF ApplyCompleteMultipartUpload, TypeOK
  <2> QED BY <1>14, <2>1, <2>3, Zenon DEF ApplyCompleteMultipartUpload, DropUpload, Mint, TypeOK, RowsType
<1>15. ASSUME NEW b \in Bucket, NEW k \in Key, NEW u \in uploads[b][k],
              ApplyAbortMultipartUpload(b, k, u)
       PROVE  TypeOK'
  <2>1. DiscardedParts(b, k, u, {}) \subseteq Nat
    BY DEF DiscardedParts, PartsOf, TypeOK, PartRecord
  <2> QED BY <1>15, <2>1, Zenon DEF ApplyAbortMultipartUpload, DropUpload, TypeOK
<1>16. CASE UNCHANGED vars
  BY <1>16 DEF vars, TypeOK
<1>17. ASSUME NEW b \in Bucket, BucketStep(b) PROVE TypeOK'
  BY <1>2, <1>3, <1>4, <1>5, <1>17, Zenon DEF BucketStep
<1>18. ASSUME NEW b \in Bucket, NEW k \in Key, WriteStep(b, k) PROVE TypeOK'
  BY <1>6, <1>7, <1>8, <1>9, <1>10, <1>11, <1>18, Zenon DEF WriteStep
<1>19. ASSUME NEW b \in Bucket, NEW k \in Key, MultipartStep(b, k) PROVE TypeOK'
  BY <1>12, <1>13, <1>14, <1>15, <1>19, Zenon DEF MultipartStep
<1> QED BY <1>1, <1>16, <1>17, <1>18, <1>19, Zenon DEF Next

\* Every variable keeps its type whatever proposals commit.
THEOREM TypeCorrect == Spec => []TypeOK
BY TypeInit, TypeStep, PTL DEF Spec

-----------------------------------------------------------------------------
(* Version lists and buckets.  The inductive invariant says of every key   *)
(* that its list is bounded and has one row per ID, that the c/ row is the *)
(* newest live version, and that the list is one the bucket's versioning   *)
(* and lock state allow.                                                   *)

ListOK(b, k) ==
    /\ Bounded(versions[b][k])
    /\ Distinct(versions[b][k])
    /\ current[b][k] = CurrentOf(versions[b][k])

BucketOK(b, k) ==
    /\ \A e, f \in nullVersions(versions[b][k]) : e = f
    /\ buckets[b].versioning = "Unversioned" =>
          \A e, f \in versions[b][k] : e = f /\ e.null /\ e.kind = "Object"
    /\ buckets[b].lock => /\ buckets[b].versioning = "Enabled"
                          /\ nullVersions(versions[b][k]) = {}
    /\ \A e \in versions[b][k] : e.hold \/ e.mode # "None" => buckets[b].lock
    /\ ~GetBucket(b) => versions[b][k] = {}

StoreInv == TypeOK /\ \A b \in Bucket, k \in Key : ListOK(b, k) /\ BucketOK(b, k)

\* Steps that leave the version lists alone.
BucketChange(b) ==
    /\ \/ \E lock \in BOOLEAN : ApplyCreateBucket(b, lock)
       \/ ApplyDeleteBucket(b)
       \/ \E state \in Versioning : ApplySetBucketVersioning(b, state)
       \/ \E mode, d : ApplySetObjectLockConfiguration(b, mode, d)

OtherStep == UNCHANGED <<buckets, versions, current, promised>> /\ now' >= now

\* Every step commits, removes or rewrites one version row, changes one
\* bucket row, or leaves the version rows and the bucket rows alone.
LEMMA StepKinds ==
    ASSUME TypeOK, [Next]_vars
    PROVE  \/ OtherStep
           \/ \E b \in Bucket : BucketChange(b)
           \/ \E b \in Bucket, k \in Key, e \in VersionEntry, id \in ID, at \in ProposedAt :
                  CommitStep(b, k, e, id, at)
           \/ \E b \in Bucket, k \in Key, e \in VersionEntry, at \in ProposedAt, bypass \in BOOLEAN :
                  RemoveStep(b, k, e, at, bypass)
           \/ \E b \in Bucket, k \in Key, e, e2 \in VersionEntry : RewriteStep(b, k, e, e2)
<1> DEFINE Goal ==
           \/ OtherStep
           \/ \E b \in Bucket : BucketChange(b)
           \/ \E b \in Bucket, k \in Key, e \in VersionEntry, id \in ID, at \in ProposedAt :
                  CommitStep(b, k, e, id, at)
           \/ \E b \in Bucket, k \in Key, e \in VersionEntry, at \in ProposedAt, bypass \in BOOLEAN :
                  RemoveStep(b, k, e, at, bypass)
           \/ \E b \in Bucket, k \in Key, e, e2 \in VersionEntry : RewriteStep(b, k, e, e2)
<1>1. ASSUME NEW b \in Bucket, BucketStep(b) PROVE BucketChange(b)
  BY <1>1, MetaAssumption DEF BucketStep, BucketChange
<1>2. CASE Tick \/ UNCHANGED vars
  BY <1>2, SMTT(30) DEF Tick, vars, OtherStep, TypeOK
<1>3. ASSUME NEW b \in Bucket, NEW k \in Key, NEW e, NEW id \in ID, NEW at \in ProposedAt,
             CommitStep(b, k, e, id, at)
      PROVE  Goal
  BY <1>3 DEF CommitStep
<1>4. ASSUME NEW b \in Bucket, NEW k \in Key, NEW e, NEW at \in ProposedAt,
             NEW bypass \in BOOLEAN, RemoveStep(b, k, e, at, bypass)
      PROVE  Goal
  <2>1. e \in VersionEntry
    BY <1>4 DEF RemoveStep, TypeOK
  <2> QED BY <1>4, <2>1
<1>5. ASSUME NEW b \in Bucket, NEW k \in Key, NEW e, NEW e2, RewriteStep(b, k, e, e2)
      PROVE  Goal
  <2>1. e \in VersionEntry /\ e2 \in VersionEntry
    BY <1>5 DEF RewriteStep, TypeOK
  <2> QED BY <1>5, <2>1
<1>6. ASSUME NEW b \in Bucket, NEW k \in Key, MultipartStep(b, k) PROVE Goal
  <2>1. CASE \E u \in ID : ApplyCreateMultipartUpload(b, k, u)
    BY <2>1, SMTT(30) DEF ApplyCreateMultipartUpload, OtherStep, TypeOK
  <2>2. CASE \E u \in uploads[b][k], n \in PartNumber, id \in ID, large \in BOOLEAN :
                 ApplyUploadPart(b, k, u, n, id, large)
    BY <2>2, SMTT(30) DEF ApplyUploadPart, OtherStep, TypeOK
  <2>3. CASE \E u \in uploads[b][k], used \in SUBSET parts[b][k], id \in ID, at \in ProposedAt :
                 ApplyCompleteMultipartUpload(b, k, u, used, id, at)
    <3>1. PICK u \in uploads[b][k], used \in SUBSET parts[b][k], id \in ID, at \in ProposedAt :
                 ApplyCompleteMultipartUpload(b, k, u, used, id, at)
      BY <2>3, Zenon
    <3>2. \E e : CommitStep(b, k, e, id, at)
      BY <3>1, CompleteIsCommit
    <3> QED BY <3>2, <1>3
  <2>4. CASE \E u \in uploads[b][k] : ApplyAbortMultipartUpload(b, k, u)
    BY <2>4 DEF ApplyAbortMultipartUpload, OtherStep, TypeOK
  <2> QED BY <1>6, <2>1, <2>2, <2>3, <2>4, Zenon DEF MultipartStep
<1>7. ASSUME NEW b \in Bucket, NEW k \in Key, WriteStep(b, k) PROVE Goal
  <2>1. CASE \E id \in ID, at \in ProposedAt, r \in Retention, hold \in BOOLEAN :
                 ApplyPutObject(b, k, id, at, r, hold)
    BY <2>1, PutIsCommit, <1>3, SMTT(30)
  <2>2. ASSUME NEW id \in ID, NEW at \in ProposedAt, ApplyDeleteObject(b, k, id, at)
        PROVE  Goal
    <3>1. CASE DeleteUnversioned(b, k, at)
      <4>1. PICK e : RemoveStep(b, k, e, at, FALSE)
        BY <3>1, DeleteIsRemove, Zenon
      <4> QED BY <4>1, <1>4, Zenon
    <3>2. CASE InsertDeleteMarker(b, k, id, at)
      BY <3>2, MarkerIsCommit, <1>3
    <3> QED BY <2>2, <3>1, <3>2 DEF ApplyDeleteObject
  <2>3. CASE \E e \in versions[b][k], at \in ProposedAt, bypass \in BOOLEAN :
                 ApplyDeleteVersion(b, k, e, at, bypass)
    <3>1. PICK e \in versions[b][k], at \in ProposedAt, bypass \in BOOLEAN :
               ApplyDeleteVersion(b, k, e, at, bypass)
      BY <2>3, SMTT(30)
    <3>2. RemoveStep(b, k, e, at, bypass)
      BY <3>1, DeleteIsRemove, Zenon
    <3> QED BY <3>2, <1>4, Zenon
  <2>4. CASE \E e \in versions[b][k], at \in ProposedAt, r \in Retention, bypass \in BOOLEAN :
                 ApplyUpdateRetention(b, k, e, at, r, bypass)
    BY <2>4, UpdateIsRewrite, <1>5, Zenon
  <2>5. CASE \E e \in versions[b][k], hold \in BOOLEAN : ApplyUpdateLegalHold(b, k, e, hold)
    BY <2>5, UpdateIsRewrite, <1>5, ZenonT(40)
  <2>6. CASE \E e \in versions[b][k], id \in ID : ApplyReEncodeObject(b, k, e, id)
    BY <2>6, UpdateIsRewrite, <1>5
  <2> QED BY <1>7, <2>1, <2>2, <2>3, <2>4, <2>5, <2>6, Zenon DEF WriteStep
<1> QED BY <1>1, <1>2, <1>6, <1>7 DEF Next

\* What a step leaves alone stays in order.
LEMMA SameRows ==
    ASSUME NEW b \in Bucket, NEW k \in Key, ListOK(b, k), BucketOK(b, k),
           versions'[b][k] = versions[b][k], current'[b][k] = current[b][k],
           buckets'[b] = buckets[b]
    PROVE  ListOK(b, k)' /\ BucketOK(b, k)'
<1>1. ListOK(b, k)'
  BY Zenon DEF ListOK
<1>2. PICK S, B : S = versions[b][k] /\ B = buckets[b]
  BY Zenon
<1>3. versions'[b][k] = S /\ buckets'[b] = B
  BY <1>2
<1>4. BucketOK(b, k)'
  BY <1>2, <1>3 DEF BucketOK, GetBucket
<1> QED BY <1>1, <1>4

\* The bucket operations keep every list legal for its bucket.
LEMMA BucketChangeKeeps ==
    ASSUME StoreInv, NEW c \in Bucket, BucketChange(c), NEW b \in Bucket, NEW k \in Key
    PROVE  ListOK(b, k)' /\ BucketOK(b, k)'
<1>1. ListOK(b, k) /\ BucketOK(b, k) /\ ListOK(c, k) /\ BucketOK(c, k)
  BY DEF StoreInv
<1>2. UNCHANGED <<versions, current>>
  BY ZenonT(40) DEF BucketChange, ApplyCreateBucket, ApplyDeleteBucket, ApplySetBucketVersioning,
         ApplySetObjectLockConfiguration
<1>3. ListOK(b, k)'
  BY <1>1, <1>2, SMTT(30) DEF ListOK
<1>4. buckets \in [Bucket -> BucketConfig]
  BY DEF StoreInv, TypeOK
<1>4a. ASSUME buckets'[b] = buckets[b] PROVE BucketOK(b, k)'
  BY <1>1, <1>2, <1>4a, SameRows
<1>5. ASSUME NEW lock \in BOOLEAN, ApplyCreateBucket(c, lock) PROVE BucketOK(b, k)'
  <2>1. versions[c][k] = {}
    BY <1>1, <1>5 DEF ApplyCreateBucket, BucketOK
  <2>2. CASE b = c
    <3>1. versions'[b][k] = {}
      BY <1>2, <2>1, <2>2
    <3>2. GetBucket(b)' /\ (buckets'[b].lock => buckets'[b].versioning = "Enabled")
      BY <1>4, <1>5, <2>2 DEF ApplyCreateBucket, GetBucket
    <3> QED BY <3>1, <3>2 DEF BucketOK, nullVersions
  <2>3. CASE b # c
    <3>1. buckets'[b] = buckets[b]
      BY <1>4, <1>5, <2>3 DEF ApplyCreateBucket
    <3> QED BY <1>4a, <3>1
  <2> QED BY <2>2, <2>3
<1>6. ASSUME ApplyDeleteBucket(c) PROVE BucketOK(b, k)'
  <2>1. CASE b = c
    <3>1. versions'[b][k] = {}
      BY <1>2, <1>6, <2>1 DEF ApplyDeleteBucket
    <3>2. buckets'[b] = NoBucket
      BY <1>4, <1>6, <2>1 DEF ApplyDeleteBucket
    <3>3. ~buckets'[b].lock
      BY <3>2 DEF NoBucket
    <3> QED BY <3>1, <3>3 DEF BucketOK, nullVersions
  <2>2. CASE b # c
    <3>1. buckets'[b] = buckets[b]
      BY <1>4, <1>6, <2>2 DEF ApplyDeleteBucket
    <3> QED BY <1>4a, <3>1
  <2> QED BY <2>1, <2>2
<1>7. ASSUME NEW state \in Versioning, ApplySetBucketVersioning(c, state) PROVE BucketOK(b, k)'
  <2>1. CASE b = c
    BY <1>1, <1>2, <1>4, <1>7, <2>1
       DEF ApplySetBucketVersioning, BucketOK, GetBucket, BucketConfig
  <2>2. CASE b # c
    <3>1. buckets'[b] = buckets[b]
      BY <1>4, <1>7, <2>2 DEF ApplySetBucketVersioning
    <3> QED BY <1>4a, <3>1
  <2> QED BY <2>1, <2>2
<1>8. ASSUME NEW mode, NEW d, ApplySetObjectLockConfiguration(c, mode, d) PROVE BucketOK(b, k)'
  <2>1. CASE b = c
    BY <1>1, <1>2, <1>4, <1>8, <2>1
       DEF ApplySetObjectLockConfiguration, BucketOK, GetBucket, BucketConfig
  <2>2. CASE b # c
    <3>1. buckets'[b] = buckets[b]
      BY <1>4, <1>8, <2>2 DEF ApplySetObjectLockConfiguration
    <3> QED BY <1>4a, <3>1
  <2> QED BY <2>1, <2>2
<1> QED BY <1>3, <1>5, <1>6, <1>7, <1>8 DEF BucketChange

\* An unversioned or suspended write leaves no other null version in the list.
LEMMA NullReplaced ==
    ASSUME NEW S \in SUBSET VersionEntry, Bounded(S), \A e, f \in nullVersions(S) : e = f
    PROVE  nullVersions(S \ ReplacedNull(TRUE, S)) = {}
<1> DEFINE N == nullVersions(S)
<1>1. N \in SUBSET VersionEntry /\ Bounded(N)
  BY DEF nullVersions, Bounded
<1>2. CASE N = {}
  BY <1>2, Zenon DEF nullVersions
<1>3. CASE N # {}
  <2>1. HasNewest(N)
    BY <1>1, <1>3, NewestExists
  <2>2. newestVersion(N) \in N
    BY <2>1, NewestIsNewest
  <2>3. ReplacedNull(TRUE, S) = {newestVersion(N)}
    BY <2>1 DEF ReplacedNull
  <2> QED BY <2>2, <2>3, Zenon DEF nullVersions
<1> QED BY <1>2, <1>3, Zenon

\* A CommitStep keeps every list and every bucket in order.
LEMMA CommitKeeps ==
    ASSUME StoreInv, NEW c \in Bucket, NEW l \in Key, NEW e \in VersionEntry, NEW id \in ID,
           NEW at \in ProposedAt, CommitStep(c, l, e, id, at), NEW b \in Bucket, NEW k \in Key
    PROVE  ListOK(b, k)' /\ BucketOK(b, k)'
<1> DEFINE S == versions[c][l]
           R == ReplacedNull(e.null, S)
<1>1. ListOK(b, k) /\ BucketOK(b, k) /\ ListOK(c, l) /\ BucketOK(c, l)
  BY DEF StoreInv
<1>2. /\ versions \in [Bucket -> [Key -> SUBSET VersionEntry]]
      /\ current \in [Bucket -> [Key -> CurrentRecord]]
      /\ buckets \in [Bucket -> BucketConfig]
  BY DEF StoreInv, TypeOK
<1>3. /\ versions' = [versions EXCEPT ![c][l] = (S \ R) \cup {e}]
      /\ current' = [current EXCEPT ![c][l] =
             IF e.kind = "Object" THEN currentRecordFor(e) ELSE NoCurrent]
      /\ buckets' = buckets
  BY DEF CommitStep, CommitVersion
<1>4. CASE b # c \/ k # l
  <2>1. versions'[b][k] = versions[b][k] /\ current'[b][k] = current[b][k]
    BY <1>2, <1>3, <1>4
  <2>2. buckets' = buckets
    BY <1>3
  <2> QED BY <1>1, <2>1, <2>2, SameRows
<1>5. CASE b = c /\ k = l
  <2>1. versions'[b][k] = (S \ R) \cup {e}
    BY <1>2, <1>3, <1>5, SMTT(30)
  <2>2. current'[b][k] = IF e.kind = "Object" THEN currentRecordFor(e) ELSE NoCurrent
    BY <1>2, <1>3, <1>5, SMTT(30)
  <2>3. S \in SUBSET VersionEntry /\ R \in SUBSET S
    BY <1>2, ReplacedNullSubset
  <2>4. Bounded(S) /\ Distinct(S) /\ \A f \in S : f.vid < e.vid
    <3>1. Bounded(S) /\ Distinct(S)
      BY <1>1, Zenon DEF ListOK
    <3>2. e.vid = BumpedID(id, S)
      BY Zenon DEF CommitStep
    <3>3. id \in Nat
      BY MetaAssumption DEF ID
    <3>4. \A f \in S : f.vid < BumpedID(id, S)
      BY <2>3, <3>1, <3>3, BumpAbove, Zenon
    <3> QED BY <3>1, <3>2, <3>4, Zenon
  <2> HIDE DEF S, R
  <2>5. ListOK(b, k)'
    <3>1. Bounded((S \ R) \cup {e}) /\ Distinct((S \ R) \cup {e})
      BY <2>3, <2>4, ListCommit, Zenon
    <3>2. CurrentOf((S \ R) \cup {e}) = current'[b][k]
      BY <2>2, <2>3, <2>4, ListCommit, Zenon
    <3> QED BY <2>1, <3>1, <3>2 DEF ListOK
  <2>6. BucketOK(b, k)'
    <3>1. e.null => nullVersions(S \ R) = {}
      <4>1. ASSUME e.null PROVE R = ReplacedNull(TRUE, S)
        BY <4>1 DEF R, ReplacedNull
      <4>2. \A f, g \in nullVersions(S) : f = g
        BY <1>1, Zenon DEF BucketOK, S
      <4> QED BY <2>3, <2>4, <4>1, <4>2, NullReplaced, ZenonT(40)
    <3>2. /\ e.null <=> buckets[c].versioning # "Enabled"
          /\ e.kind = "DeleteMarker" => buckets[c].versioning # "Unversioned"
          /\ e.hold \/ e.mode # "None" => buckets[c].lock
          /\ GetBucket(c)
      BY DEF CommitStep
    <3>3. BucketOK(c, l)
      BY <1>1, SMTT(30)
    <3>4. \A f, g \in nullVersions((S \ R) \cup {e}) : f = g
      <4>1. CASE e.null
        BY <3>1, <4>1, SMTT(30) DEF nullVersions
      <4>2. CASE ~e.null
        BY <3>3, <4>2 DEF nullVersions, BucketOK, S
      <4> QED BY <4>1, <4>2
    <3>5. ASSUME buckets[c].versioning = "Unversioned"
          PROVE  \A f, g \in (S \ R) \cup {e} : f = g /\ f.null /\ f.kind = "Object"
      <4>1. e.null /\ e.kind = "Object"
        BY <3>2, <3>5, SMTT(30) DEF VersionEntry
      <4>2. S \ R = {}
        <5>1. \A f \in S : f.null
          BY <3>3, <3>5, Zenon DEF BucketOK, S
        <5> HIDE DEF S, R
        <5> QED BY <3>1, <4>1, <5>1 DEF nullVersions
      <4> QED BY <4>1, <4>2, SMTT(30)
    <3>6. ASSUME buckets[c].lock
          PROVE  buckets[c].versioning = "Enabled" /\ nullVersions((S \ R) \cup {e}) = {}
      BY <3>2, <3>3, <3>6 DEF BucketOK, nullVersions, S
    <3>7. \A f \in (S \ R) \cup {e} : f.hold \/ f.mode # "None" => buckets[c].lock
      BY <3>2, <3>3, Zenon DEF BucketOK, S
    <3> QED BY <1>3, <1>5, <2>1, <3>2, <3>4, <3>5, <3>6, <3>7, Zenon DEF BucketOK, GetBucket
  <2> QED BY <2>5, <2>6
<1> QED BY <1>4, <1>5

\* A RemoveStep keeps every list and every bucket in order.
LEMMA RemoveKeeps ==
    ASSUME StoreInv, NEW c \in Bucket, NEW l \in Key, NEW e \in VersionEntry,
           NEW at \in ProposedAt, NEW bypass \in BOOLEAN, RemoveStep(c, l, e, at, bypass),
           NEW b \in Bucket, NEW k \in Key
    PROVE  ListOK(b, k)' /\ BucketOK(b, k)'
<1> DEFINE S == versions[c][l]
<1>1. ListOK(b, k) /\ BucketOK(b, k) /\ ListOK(c, l) /\ BucketOK(c, l)
  BY DEF StoreInv
<1>2. /\ versions \in [Bucket -> [Key -> SUBSET VersionEntry]]
      /\ current \in [Bucket -> [Key -> CurrentRecord]]
      /\ buckets \in [Bucket -> BucketConfig]
  BY SMTT(30) DEF StoreInv, TypeOK
<1>3. /\ e \in S
      /\ versions' = [versions EXCEPT ![c][l] = S \ {e}]
      /\ buckets' = buckets
  BY SMTT(30) DEF RemoveStep
<1>4. \/ current' = current /\ ~IsNewest(e, S)
      \/ current' = [current EXCEPT ![c][l] = CurrentOf(S \ {e})]
      \/ /\ buckets[c].versioning = "Unversioned"
         /\ current' = [current EXCEPT ![c][l] = NoCurrent]
  BY SMTT(30) DEF RemoveStep
<1>5. CASE b # c \/ k # l
  <2>1. versions'[b][k] = versions[b][k]
    BY <1>2, <1>3, <1>5, SMTT(30)
  <2>2. current'[b][k] = current[b][k]
    BY <1>2, <1>4, <1>5
  <2>3. buckets' = buckets
    BY <1>3
  <2> QED BY <1>1, <2>1, <2>2, <2>3, SameRows
<1>6. CASE b = c /\ k = l
  <2>1. versions'[b][k] = S \ {e}
    BY <1>2, <1>3, <1>6, SMTT(30)
  <2>2. S \in SUBSET VersionEntry /\ Bounded(S) /\ Distinct(S) /\ current[c][l] = CurrentOf(S)
    BY <1>1, <1>2, SMTT(30) DEF ListOK
  <2>3. /\ Bounded(S \ {e}) /\ Distinct(S \ {e})
        /\ ~IsNewest(e, S) => CurrentOf(S \ {e}) = CurrentOf(S)
    BY <1>3, <2>2, ListRemove, SMTT(30)
  <2>4. current'[b][k] = CurrentOf(S \ {e})
    <3>1. CASE current' = current /\ ~IsNewest(e, S)
      BY <1>6, <2>2, <2>3, <3>1
    <3>2. CASE current' = [current EXCEPT ![c][l] = CurrentOf(S \ {e})]
      BY <1>2, <1>6, <3>2
    <3>3. CASE /\ buckets[c].versioning = "Unversioned"
               /\ current' = [current EXCEPT ![c][l] = NoCurrent]
      <4>1. S \ {e} = {}
        BY <1>1, <1>3, <3>3, SMTT(30) DEF BucketOK
      <4>2. CurrentOf(S \ {e}) = NoCurrent
        BY <4>1, SMTT(30) DEF CurrentOf, HasNewest
      <4> QED BY <1>2, <1>6, <3>3, <4>2, SMTT(30)
    <3> QED BY <1>4, <3>1, <3>2, <3>3, SMTT(30)
  <2>5. ListOK(b, k)'
    <3> HIDE DEF S
    <3> QED BY <2>1, <2>3, <2>4 DEF ListOK
  <2>6. BucketOK(b, k)'
    BY <1>1, <1>3, <1>6, <2>1 DEF BucketOK, GetBucket, nullVersions
  <2> QED BY <2>5, <2>6
<1> QED BY <1>5, <1>6

\* A RewriteStep keeps every list and every bucket in order.
LEMMA RewriteKeeps ==
    ASSUME StoreInv, NEW c \in Bucket, NEW l \in Key, NEW e \in VersionEntry,
           NEW e2 \in VersionEntry, RewriteStep(c, l, e, e2), NEW b \in Bucket, NEW k \in Key
    PROVE  ListOK(b, k)' /\ BucketOK(b, k)'
<1> DEFINE S == versions[c][l]
           S2 == (S \ {e}) \cup {e2}
<1>1. ListOK(b, k) /\ BucketOK(b, k) /\ ListOK(c, l) /\ BucketOK(c, l)
  BY DEF StoreInv
<1>2. /\ versions \in [Bucket -> [Key -> SUBSET VersionEntry]]
      /\ buckets \in [Bucket -> BucketConfig]
  BY SMTT(30) DEF StoreInv, TypeOK
<1>3. /\ e \in S
      /\ e2.vid = e.vid /\ e2.content = e.content /\ e2.kind = e.kind /\ e2.null = e.null
      /\ e2.hold \/ e2.mode # "None" => buckets[c].lock \/ e.hold \/ e.mode # "None"
      /\ versions' = [versions EXCEPT ![c][l] = S2]
      /\ buckets' = buckets /\ current' = current
  BY DEF RewriteStep
<1>4. CASE b # c \/ k # l
  <2>1. versions'[b][k] = versions[b][k]
    BY <1>2, <1>3, <1>4, SMTT(30)
  <2>2. buckets' = buckets /\ current' = current
    BY <1>3
  <2> QED BY <1>1, <2>1, <2>2, SameRows
<1>5. CASE b = c /\ k = l
  <2>1. versions'[b][k] = S2
    BY <1>2, <1>3, <1>5, SMTT(30)
  <2>2. S \in SUBSET VersionEntry /\ Bounded(S) /\ Distinct(S) /\ current[c][l] = CurrentOf(S)
    BY <1>1, <1>2, SMTT(30) DEF ListOK
  <2>3. Bounded(S2) /\ Distinct(S2) /\ CurrentOf(S2) = CurrentOf(S)
    BY <1>3, <2>2, ListReplace, SMTT(30)
  <2>4. ListOK(b, k)'
    BY <1>3, <1>5, <2>1, <2>2, <2>3 DEF ListOK
  <2>5. BucketOK(c, l)
    BY <1>1, SMTT(30)
  <2>6. \A f, g \in nullVersions(S2) : f = g
    BY <1>3, <2>5, SMTT(30) DEF BucketOK, nullVersions
  <2>7. buckets[c].versioning = "Unversioned" =>
          \A f, g \in S2 : f = g /\ f.null /\ f.kind = "Object"
    BY <1>3, <2>5, SMTT(30) DEF BucketOK
  <2>8. buckets[c].lock => buckets[c].versioning = "Enabled" /\ nullVersions(S2) = {}
    BY <1>3, <2>5, SMTT(30) DEF BucketOK, nullVersions
  <2>9. \A f \in S2 : f.hold \/ f.mode # "None" => buckets[c].lock
    BY <1>3, <2>5, SMTT(30) DEF BucketOK
  <2>10. GetBucket(c)
    BY <1>3, <2>5, SMTT(30) DEF BucketOK
  <2>11. BucketOK(b, k)'
    <3>1. versions'[c][l] = S2 /\ buckets' = buckets
      BY <1>3, <1>5, <2>1
    <3> HIDE DEF S2
    <3>2. BucketOK(c, l)'
      BY <2>6, <2>7, <2>8, <2>9, <2>10, <3>1 DEF BucketOK, GetBucket
    <3> QED BY <1>5, <3>2
  <2> QED BY <2>4, <2>11
<1> QED BY <1>4, <1>5

\* StoreInv is inductive, so it holds always.
LEMMA StoreInvariant == Spec => []StoreInv
<1>1. Init => StoreInv
  <2> SUFFICES ASSUME Init, NEW b \in Bucket, NEW k \in Key PROVE ListOK(b, k) /\ BucketOK(b, k)
    BY TypeInit DEF StoreInv
  <2>1. versions[b][k] = {} /\ current[b][k] = NoCurrent /\ buckets[b] = NoBucket
    BY SMTT(30) DEF Init
  <2>2. ListOK(b, k)
    BY <2>1, SMTT(30) DEF ListOK, Bounded, Distinct, CurrentOf, HasNewest
  <2>3. BucketOK(b, k)
    BY <2>1, SMTT(30) DEF BucketOK, nullVersions, NoBucket, GetBucket
  <2> QED BY <2>2, <2>3
<1>2. StoreInv /\ [Next]_vars => StoreInv'
  <2> SUFFICES ASSUME StoreInv, [Next]_vars, NEW b \in Bucket, NEW k \in Key
               PROVE  ListOK(b, k)' /\ BucketOK(b, k)'
    BY TypeStep DEF StoreInv
  <2>1. TypeOK /\ ListOK(b, k) /\ BucketOK(b, k)
    BY SMTT(30) DEF StoreInv
  <2>2. CASE OtherStep
    BY <2>1, <2>2 DEF OtherStep, ListOK, BucketOK, GetBucket
  <2>3. CASE \E c \in Bucket : BucketChange(c)
    BY <2>3, BucketChangeKeeps
  <2>4. CASE \E c \in Bucket, l \in Key, e \in VersionEntry, id \in ID, at \in ProposedAt :
                 CommitStep(c, l, e, id, at)
    BY <2>4, CommitKeeps
  <2>5. CASE \E c \in Bucket, l \in Key, e \in VersionEntry, at \in ProposedAt, bypass \in BOOLEAN :
                 RemoveStep(c, l, e, at, bypass)
    <3>1. PICK c \in Bucket, l \in Key, e \in VersionEntry, at \in ProposedAt, bypass \in BOOLEAN :
               RemoveStep(c, l, e, at, bypass)
      BY <2>5
    <3> QED BY <3>1, RemoveKeeps, Zenon
  <2>6. CASE \E c \in Bucket, l \in Key, e, e2 \in VersionEntry : RewriteStep(c, l, e, e2)
    BY <2>6, RewriteKeeps
  <2> QED BY <2>1, <2>2, <2>3, <2>4, <2>5, <2>6, StepKinds
<1> QED BY <1>1, <1>2, PTL DEF Spec

\* The c/ index is exact for every sequence of proposals: a key is listed if
\* and only if its newest version is a live object, with that version's data.
THEOREM CurrentRowIsExact == Spec => []CurrentIsNewestLive
<1>1. StoreInv => CurrentIsNewestLive
  BY SMTT(30) DEF StoreInv, ListOK, CurrentIsNewestLive
<1> QED BY <1>1, StoreInvariant, PTL

\* What the Apply functions take for granted of a version list holds: no commit
\* overwrites another version's row, a key never has two null versions, however
\* often versioning is suspended and enabled again, and an unversioned list has
\* the single entry that ApplyDeleteObject assumes.
THEOREM VersionListsStayRight == Spec => []VersionListsRight
<1>1. StoreInv => VersionRowsDistinct
  BY SMTT(30) DEF StoreInv, ListOK, Distinct, VersionRowsDistinct
<1>2. StoreInv => OneNullVersion
  BY SMTT(30) DEF StoreInv, BucketOK, OneNullVersion
<1>3. StoreInv => UnversionedHoldsOne
  BY SMTT(30) DEF StoreInv, BucketOK, UnversionedHoldsOne
<1>4. StoreInv => VersionListsRight
  BY <1>1, <1>2, <1>3 DEF VersionListsRight
<1> QED BY <1>4, StoreInvariant, PTL

\* Locked versions live only where no write can replace a version.
THEOREM LocksNeedVersioning == Spec => []LocksOnlyWhereVersioned
<1>1. StoreInv => LocksOnlyWhereVersioned
  BY DEF StoreInv, BucketOK, LocksOnlyWhereVersioned
<1> QED BY <1>1, StoreInvariant, PTL

=============================================================================
