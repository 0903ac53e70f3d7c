-------------------------- MODULE MetaStoreProofs --------------------------
(***************************************************************************)
(* Object lock, what a step of MetaStore may never do to a version list,   *)
(* and which row owns a data ID, for every clock skew and every sequence   *)
(* of proposals.                                                           *)
(***************************************************************************)
EXTENDS MetaStoreLists

-----------------------------------------------------------------------------
(* Object lock.                                                            *)

\* The witness of a promise, and what a step may do to it.
Kept(p, S) == \E e \in S : e.vid = p.vid /\ e.mode = "Compliance" /\ e.until >= p.until

\* A COMPLIANCE version whose date no proposer's clock has reached is locked
\* for every proposal.
LEMMA ComplianceLocks ==
    ASSUME TypeOK, NEW e \in VersionEntry, e.mode = "Compliance", e.until > now + Skew,
           NEW at \in ProposedAt, NEW bypass
    PROVE  lockedAt(e, at, bypass)
BY MetaAssumption DEF TypeOK, VersionEntry, ProposedAt, lockedAt

\* Every step keeps the promises made before it ...
LEMMA OldPromises ==
    ASSUME TypeOK, [Next]_vars, ComplianceKept, NEW p \in promised, p.until > now + Skew
    PROVE  Kept(p, versions'[p.bucket][p.key])
<1>1. p.bucket \in Bucket /\ p.key \in Key /\ p.until \in Nat
  BY DEF TypeOK, Promise
<1> DEFINE b == p.bucket
           k == p.key
<1>2. PICK w \in versions[b][k] : w.vid = p.vid /\ w.mode = "Compliance" /\ w.until >= p.until
  BY Zenon DEF ComplianceKept
<1>3. versions \in [Bucket -> [Key -> SUBSET VersionEntry]] /\ now \in Nat /\ Skew \in Nat
  BY MetaAssumption DEF TypeOK
<1>4. w \in VersionEntry /\ w.until \in Nat
  BY <1>1, <1>2, <1>3 DEF VersionEntry
<1>5. w.until > now + Skew
  BY <1>1, <1>2, <1>3, <1>4
<1>6. ASSUME w \in versions'[b][k] PROVE Kept(p, versions'[b][k])
  BY <1>2, <1>6 DEF Kept
<1>7. CASE OtherStep \/ \E c \in Bucket : BucketChange(c)
  <2>1. versions' = versions
    BY <1>7, Zenon DEF OtherStep, BucketChange, ApplyCreateBucket, ApplyDeleteBucket,
       ApplySetBucketVersioning, ApplySetObjectLockConfiguration
  <2> QED BY <1>6, <2>1
<1>8. ASSUME NEW c \in Bucket, NEW l \in Key, NEW e \in VersionEntry, NEW id \in ID,
             NEW at \in ProposedAt, CommitStep(c, l, e, id, at)
      PROVE  w \in versions'[b][k]
  <2> DEFINE R == ReplacedNull(e.null, versions[c][l])
  <2>1. versions' = [versions EXCEPT ![c][l] = (versions[c][l] \ R) \cup {e}]
    BY <1>8, SMTT(30) DEF CommitStep, CommitVersion
  <2>2. \A f \in R : ~lockedAt(f, at, FALSE)
    BY <1>8, Zenon DEF CommitStep, CommitVersion, removeNullVersion
  <2>3. lockedAt(w, at, FALSE)
    BY <1>2, <1>4, <1>5, ComplianceLocks, Zenon
  <2>4. w \notin R
    BY <2>2, <2>3, Zenon
  <2> HIDE DEF R
  <2> QED BY <1>1, <1>2, <1>3, <2>1, <2>4, SMTT(30)
<1>9. ASSUME NEW c \in Bucket, NEW l \in Key, NEW e \in VersionEntry, NEW at \in ProposedAt,
             NEW bypass \in BOOLEAN, RemoveStep(c, l, e, at, bypass)
      PROVE  w \in versions'[b][k]
  <2>1. versions' = [versions EXCEPT ![c][l] = versions[c][l] \ {e}] /\ ~lockedAt(e, at, bypass)
    BY <1>9 DEF RemoveStep
  <2>2. lockedAt(w, at, bypass)
    BY <1>2, <1>4, <1>5, ComplianceLocks
  <2>3. w # e
    BY <2>1, <2>2, SMTT(30)
  <2> QED BY <1>1, <1>2, <1>3, <2>1, <2>3, SMTT(30)
<1>10. ASSUME NEW c \in Bucket, NEW l \in Key, NEW e \in VersionEntry, NEW e2 \in VersionEntry,
              RewriteStep(c, l, e, e2)
       PROVE  Kept(p, versions'[b][k])
  <2>1. /\ versions' = [versions EXCEPT ![c][l] = (versions[c][l] \ {e}) \cup {e2}]
        /\ e2.vid = e.vid
        /\ e.mode = "Compliance" /\ e.until > now + Skew
             => e2.mode = "Compliance" /\ e2.until >= e.until
    BY <1>10, SMTT(30) DEF RewriteStep
  <2>2. CASE w # e \/ b # c \/ k # l
    <3>1. w \in versions'[b][k]
      BY <1>1, <1>2, <1>3, <2>1, <2>2
    <3> QED BY <1>6, <3>1, SMTT(30)
  <2>3. CASE w = e /\ b = c /\ k = l
    <3>1. e2 \in versions'[b][k]
      BY <1>1, <1>3, <2>1, <2>3
    <3>2. e2.mode = "Compliance" /\ e2.until >= w.until /\ e2.vid = p.vid
      BY <1>2, <1>5, <2>1, <2>3
    <3>3. e2.until \in Nat
      BY SMTT(30) DEF VersionEntry
    <3>4. e2.until >= p.until
      BY <1>1, <1>2, <1>4, <3>2, <3>3, SMTT(30)
    <3> QED BY <3>1, <3>2, <3>4, SMTT(30) DEF Kept
  <2> QED BY <2>2, <2>3, SMTT(30)
<1>11. CASE \E c \in Bucket, l \in Key, e \in VersionEntry, at \in ProposedAt, bypass \in BOOLEAN :
                RemoveStep(c, l, e, at, bypass)
  <2>1. PICK c \in Bucket, l \in Key, e \in VersionEntry, at \in ProposedAt, bypass \in BOOLEAN :
             RemoveStep(c, l, e, at, bypass)
    BY <1>11
  <2>2. w \in versions'[b][k]
    BY <2>1, <1>9, Zenon
  <2> QED BY <1>6, <2>2, SMTT(30)
<1> QED BY <1>6, <1>7, <1>8, <1>10, <1>11, StepKinds, Zenon

\* ... and the promises it makes.
LEMMA NewPromises ==
    ASSUME TypeOK, [Next]_vars, NEW p \in promised' \ promised
    PROVE  Kept(p, versions'[p.bucket][p.key])
<1>1. versions \in [Bucket -> [Key -> SUBSET VersionEntry]]
  BY SMTT(30) DEF TypeOK
<1>2. ASSUME NEW c \in Bucket, NEW l \in Key, NEW e \in VersionEntry,
             promised' \subseteq promised \cup PromisesOf(c, l, {e}), e \in versions'[c][l]
      PROVE  Kept(p, versions'[p.bucket][p.key])
  <2>1. /\ p.bucket = c /\ p.key = l /\ p.vid = e.vid /\ p.until = e.until
        /\ e.mode = "Compliance"
    BY <1>2 DEF PromisesOf
  <2>2. e.until \in Nat
    BY SMTT(30) DEF VersionEntry
  <2> QED BY <1>2, <2>1, <2>2, SMTT(30) DEF Kept
<1>3. ASSUME NEW c \in Bucket, NEW l \in Key, NEW e \in VersionEntry, NEW id \in ID,
             NEW at \in ProposedAt, CommitStep(c, l, e, id, at)
      PROVE  Kept(p, versions'[p.bucket][p.key])
  <2>1. promised' \subseteq promised \cup PromisesOf(c, l, {e})
    BY <1>3, SMTT(30) DEF CommitStep, CommitVersion
  <2>2. e \in versions'[c][l]
    BY <1>1, <1>3, SMTT(30) DEF CommitStep, CommitVersion
  <2> QED BY <1>2, <2>1, <2>2, SMTT(30)
<1>4. ASSUME NEW c \in Bucket, NEW l \in Key, NEW e \in VersionEntry, NEW e2 \in VersionEntry,
             RewriteStep(c, l, e, e2)
      PROVE  Kept(p, versions'[p.bucket][p.key])
  <2>1. promised' \subseteq promised \cup PromisesOf(c, l, {e2})
    BY <1>4, SMTT(30) DEF RewriteStep
  <2>2. e2 \in versions'[c][l]
    BY <1>1, <1>4 DEF RewriteStep
  <2> QED BY <1>2, <2>1, <2>2, SMTT(30)
<1>5. CASE \/ OtherStep
           \/ \E c \in Bucket : BucketChange(c)
           \/ \E c \in Bucket, l \in Key, e \in VersionEntry, at \in ProposedAt, bypass \in BOOLEAN :
                  RemoveStep(c, l, e, at, bypass)
  <2>1. promised' = promised
    BY <1>5, ZenonT(40) DEF OtherStep, RemoveStep, BucketChange, ApplyCreateBucket, ApplyDeleteBucket,
       ApplySetBucketVersioning, ApplySetObjectLockConfiguration
  <2> QED BY <2>1
<1> QED BY <1>3, <1>4, <1>5, StepKinds, Zenon

\* Clocks only move on, so a promise that binds after a step bound before it.
LEMMA TimeMovesOn ==
    ASSUME TypeOK, [Next]_vars
    PROVE  now \in Nat /\ now' \in Nat /\ now' >= now
<1>1. now \in Nat /\ now' \in Nat
  BY TypeStep, MetaAssumption, SMTT(30) DEF TypeOK
<1>2. ASSUME OtherStep PROVE now' >= now
  BY <1>2 DEF OtherStep
<1>3. ASSUME NEW b \in Bucket, BucketChange(b) PROVE now' = now
  BY <1>3, Zenon DEF BucketChange, ApplyCreateBucket, ApplyDeleteBucket,
     ApplySetBucketVersioning, ApplySetObjectLockConfiguration
<1>4. ASSUME NEW b \in Bucket, NEW k \in Key, NEW e \in VersionEntry,
             \/ \E id \in ID, at \in ProposedAt : CommitStep(b, k, e, id, at)
             \/ \E at \in ProposedAt, bypass \in BOOLEAN : RemoveStep(b, k, e, at, bypass)
             \/ \E e2 \in VersionEntry : RewriteStep(b, k, e, e2)
      PROVE  now' = now
  BY <1>4, Zenon DEF CommitStep, RemoveStep, RewriteStep
<1>5. now' >= now \/ now' = now
  BY <1>2, <1>3, <1>4, StepKinds, Zenon
<1> QED BY <1>1, <1>5

\* A COMPLIANCE retention, once set, holds until the proposers' clocks may
\* have reached its date: for every clock skew, however proposals interleave.
THEOREM ComplianceIsKept == Spec => []ComplianceKept
<1>1. Init => ComplianceKept
  BY DEF Init, ComplianceKept
<1>2. TypeOK /\ ComplianceKept /\ [Next]_vars => ComplianceKept'
  <2> SUFFICES ASSUME TypeOK, ComplianceKept, [Next]_vars,
                      NEW p \in promised', p.until > now' + Skew
               PROVE  Kept(p, versions'[p.bucket][p.key])
    BY SMTT(30) DEF ComplianceKept, Kept
  <2>1. CASE p \in promised
    <3>1. p.until \in Nat
      BY <2>1, SMTT(30) DEF TypeOK, Promise
    <3>2. p.until > now + Skew
      BY <3>1, TimeMovesOn, MetaAssumption, SMTT(30)
    <3> QED BY <2>1, <3>2, OldPromises, SMTT(30)
  <2>2. CASE p \notin promised
    BY <2>2, NewPromises
  <2> QED BY <2>1, <2>2, SMTT(30)
<1> QED BY <1>1, <1>2, TypeCorrect, PTL DEF Spec

-----------------------------------------------------------------------------
(* What a step may never do.                                               *)

\* Version lists are append-ordered by commit, whatever IDs the proposers'
\* clocks produced: this is where the bump is needed.
THEOREM ListsAreAppendOrdered == Spec => AppendOrdered
<1> DEFINE Ordered ==
        \A b \in Bucket, k \in Key : \A f \in versions'[b][k] :
           \/ \E e \in versions[b][k] : e.vid = f.vid
           \/ \A e \in versions[b][k] : e.vid < f.vid
<1>1. StoreInv /\ [Next]_vars => Ordered
  <2> SUFFICES ASSUME StoreInv, [Next]_vars, NEW b \in Bucket, NEW k \in Key,
                      NEW f \in versions'[b][k], f \notin versions[b][k]
               PROVE  \/ \E e \in versions[b][k] : e.vid = f.vid
                      \/ \A e \in versions[b][k] : e.vid < f.vid
    BY SMTT(30)
  <2>1. TypeOK /\ versions \in [Bucket -> [Key -> SUBSET VersionEntry]]
    BY SMTT(30) DEF StoreInv, TypeOK
  <2>2. ASSUME NEW c \in Bucket, NEW l \in Key, NEW g \in VersionEntry, NEW id \in ID,
               NEW at \in ProposedAt, CommitStep(c, l, g, id, at)
        PROVE  \A e \in versions[b][k] : e.vid < f.vid
    <3>1. f = g /\ b = c /\ k = l
      BY <2>1, <2>2 DEF CommitStep, CommitVersion
    <3>2. Bounded(versions[c][l]) /\ versions[c][l] \in SUBSET VersionEntry
      BY <2>1, Zenon DEF StoreInv, ListOK
    <3>3. id \in Nat
      BY MetaAssumption, SMTT(30) DEF ID
    <3> QED BY <2>2, <3>1, <3>2, <3>3, BumpAbove, SMTT(30) DEF CommitStep
  <2>3. ASSUME NEW c \in Bucket, NEW l \in Key, NEW g \in VersionEntry, NEW g2 \in VersionEntry,
               RewriteStep(c, l, g, g2)
        PROVE  \E e \in versions[b][k] : e.vid = f.vid
    BY <2>1, <2>3, SMTT(30) DEF RewriteStep
  <2>4. CASE OtherStep \/ \E c \in Bucket : BucketChange(c)
    <3>1. versions' = versions
      BY <2>4, Zenon DEF OtherStep, BucketChange, ApplyCreateBucket, ApplyDeleteBucket,
         ApplySetBucketVersioning, ApplySetObjectLockConfiguration
    <3> QED BY <3>1
  <2>5. CASE \E c \in Bucket, l \in Key, g \in VersionEntry, at \in ProposedAt, bypass \in BOOLEAN :
                 RemoveStep(c, l, g, at, bypass)
    <3>1. PICK c \in Bucket, l \in Key, g \in VersionEntry :
               versions' = [versions EXCEPT ![c][l] = versions[c][l] \ {g}]
      BY <2>5, SMTT(30) DEF RemoveStep
    <3> QED BY <2>1, <3>1
  <2> QED BY <2>1, <2>2, <2>3, <2>4, <2>5, StepKinds, ZenonT(40)
<1> QED BY <1>1, StoreInvariant, PTL DEF Spec, AppendOrdered

\* No step destroys a version that is on legal hold or whose COMPLIANCE date
\* is still ahead of every clock, nor changes what it holds.
THEOREM LockedVersionsSurvive == Spec => LockedSurvives
<1> DEFINE Survive ==
        \A b \in Bucket, k \in Key : \A e \in versions[b][k] :
           e.hold \/ (e.mode = "Compliance" /\ e.until > now + Skew) =>
               \E f \in versions'[b][k] : f.vid = e.vid /\ f.content = e.content
<1>1. TypeOK /\ [Next]_vars => Survive
  <2> SUFFICES ASSUME TypeOK, [Next]_vars, NEW b \in Bucket, NEW k \in Key,
                      NEW e \in versions[b][k],
                      e.hold \/ (e.mode = "Compliance" /\ e.until > now + Skew)
               PROVE  \E f \in versions'[b][k] : f.vid = e.vid /\ f.content = e.content
    OBVIOUS
  <2>1. versions \in [Bucket -> [Key -> SUBSET VersionEntry]] /\ e \in VersionEntry
    BY DEF TypeOK
  <2>2. ASSUME NEW at \in ProposedAt, NEW bypass PROVE lockedAt(e, at, bypass)
    <3>1. CASE e.hold
      BY <3>1 DEF lockedAt
    <3>2. CASE e.mode = "Compliance" /\ e.until > now + Skew
      BY <2>1, <3>2, ComplianceLocks
    <3> QED BY <3>1, <3>2
  <2>3. ASSUME NEW c \in Bucket, NEW l \in Key, NEW g \in VersionEntry, NEW id \in ID,
               NEW at \in ProposedAt, CommitStep(c, l, g, id, at)
        PROVE  e \in versions'[b][k]
    <3> DEFINE R == ReplacedNull(g.null, versions[c][l])
    <3>1. versions' = [versions EXCEPT ![c][l] = (versions[c][l] \ R) \cup {g}]
      BY <2>3, SMTT(30) DEF CommitStep, CommitVersion
    <3>2. e \notin R
      BY <2>2, <2>3, Zenon DEF CommitStep, CommitVersion, removeNullVersion
    <3> HIDE DEF R
    <3> QED BY <2>1, <3>1, <3>2, SMTT(30)
  <2>4. ASSUME NEW c \in Bucket, NEW l \in Key, NEW g \in VersionEntry, NEW at \in ProposedAt,
               NEW bypass \in BOOLEAN, RemoveStep(c, l, g, at, bypass)
        PROVE  e \in versions'[b][k]
    <3>1. versions' = [versions EXCEPT ![c][l] = versions[c][l] \ {g}] /\ e # g
      BY <2>2, <2>4, SMTT(30) DEF RemoveStep
    <3> QED BY <2>1, <3>1
  <2>5. ASSUME NEW c \in Bucket, NEW l \in Key, NEW g \in VersionEntry, NEW g2 \in VersionEntry,
               RewriteStep(c, l, g, g2)
        PROVE  \E f \in versions'[b][k] : f.vid = e.vid /\ f.content = e.content
    BY <2>1, <2>5 DEF RewriteStep
  <2>6. CASE OtherStep \/ \E c \in Bucket : BucketChange(c)
    BY <2>6, Zenon DEF OtherStep, BucketChange, ApplyCreateBucket, ApplyDeleteBucket,
       ApplySetBucketVersioning, ApplySetObjectLockConfiguration
  <2>7. CASE \E c \in Bucket, l \in Key, g \in VersionEntry, at \in ProposedAt, bypass \in BOOLEAN :
                 RemoveStep(c, l, g, at, bypass)
    <3>1. PICK c \in Bucket, l \in Key, g \in VersionEntry, at \in ProposedAt, bypass \in BOOLEAN :
               RemoveStep(c, l, g, at, bypass)
      BY <2>7, SMTT(30)
    <3>2. e \in versions'[b][k]
      BY <3>1, <2>4, Zenon
    <3> QED BY <3>2
  <2> QED BY <2>3, <2>5, <2>6, <2>7, StepKinds, Zenon
<1> QED BY <1>1, TypeCorrect, PTL DEF Spec, LockedSurvives

-----------------------------------------------------------------------------
(* Who names a data ID.  Every step removes rows V and P of one key and    *)
(* adds rows NV and NP there, at most one of them in all.  What the added  *)
(* row names was named by a removed one or is freshly minted, and what the *)
(* removed rows named is named by the added one or handed back.  These are *)
(* the hypotheses of OwnStep; that no two rows share data is inductive     *)
(* once it says too that everything named or handed back was minted.       *)

\* Everything named by a row or handed back was minted.
NamedIsMinted ==
    /\ \A b \in Bucket, k \in Key :
           /\ \A e \in versions[b][k] : e.data \subseteq minted
           /\ \A p \in parts[b][k] : p.data \in minted
    /\ freed \subseteq minted

OwnInv == TypeOK /\ NoOrphanRows /\ NamedIsMinted /\ ReclaimIsSafe

\* What a set of version rows and a set of part rows name.
Names(V, P) == DataIDs(V) \cup {p.data : p \in P}

OwnStep(b, k, V, P, NV, NP) ==
    /\ V \subseteq versions[b][k] /\ P \subseteq parts[b][k]
    /\ versions' = [versions EXCEPT ![b][k] = (versions[b][k] \ V) \cup NV]
    /\ parts' = [parts EXCEPT ![b][k] = (parts[b][k] \ P) \cup NP]
    /\ NV = {} \/ NP = {}
    /\ \A e, f \in NV : e = f
    /\ \A p, q \in NP : p = q
    /\ minted \cup Names(NV, NP) \subseteq minted'
    /\ \A d \in Names(NV, NP) : d \in Names(V, P) \/ d \notin minted
    /\ freed \subseteq freed'
    /\ \A d \in freed' : d \in freed \/ (d \in Names(V, P) /\ d \notin Names(NV, NP))
    /\ Names(V, P) \subseteq freed' \cup Names(NV, NP)

\* A row that a step keeps shares nothing with the row it adds.
LEMMA KeptApart ==
    ASSUME OwnInv, NEW b \in Bucket, NEW k \in Key, NEW V, NEW P, NEW NV, NEW NP,
           OwnStep(b, k, V, P, NV, NP), NEW c \in Bucket, NEW l \in Key
    PROVE  /\ \A f \in versions[c][l] :
                 (c = b /\ l = k => f \notin V) => \A d \in f.data : d \notin Names(V, P) \cup Names(NV, NP)
           /\ \A q \in parts[c][l] :
                 (c = b /\ l = k => q \notin P) => q.data \notin Names(V, P) \cup Names(NV, NP)
<1>1. /\ V \subseteq versions[b][k] /\ P \subseteq parts[b][k]
      /\ \A d \in Names(NV, NP) : d \in Names(V, P) \/ d \notin minted
  BY DEF OwnStep
<1>2. ASSUME NEW f \in versions[c][l], c = b /\ l = k => f \notin V, NEW d \in f.data
      PROVE  d \notin Names(V, P) \cup Names(NV, NP)
  <2>1. d \in minted
    BY <1>2 DEF OwnInv, NamedIsMinted
  <2>2. ASSUME NEW e \in V PROVE d \notin e.data
    BY <1>1, <1>2, <2>2 DEF OwnInv, ReclaimIsSafe, DataHasOneOwner
  <2>3. ASSUME NEW p \in P PROVE d # p.data
    BY <1>1, <1>2, <2>3 DEF OwnInv, ReclaimIsSafe, DataHasOneOwner
  <2>4. d \notin Names(V, P)
    BY <2>2, <2>3 DEF Names, DataIDs
  <2> QED BY <1>1, <2>1, <2>4
<1>3. ASSUME NEW q \in parts[c][l], c = b /\ l = k => q \notin P
      PROVE  q.data \notin Names(V, P) \cup Names(NV, NP)
  <2>1. q.data \in minted
    BY <1>3 DEF OwnInv, NamedIsMinted
  <2>2. ASSUME NEW e \in V PROVE q.data \notin e.data
    BY <1>1, <1>3, <2>2 DEF OwnInv, ReclaimIsSafe, DataHasOneOwner
  <2>3. ASSUME NEW p \in P PROVE q.data # p.data
    BY <1>1, <1>3, <2>3 DEF OwnInv, ReclaimIsSafe, DataHasOneOwner
  <2>4. q.data \notin Names(V, P)
    BY <2>2, <2>3 DEF Names, DataIDs
  <2> QED BY <1>1, <2>1, <2>4
<1> QED BY <1>2, <1>3, Zenon

\* Where a row found after a step comes from.
LEMMA RowOrigin ==
    ASSUME TypeOK, NEW b \in Bucket, NEW k \in Key, NEW V, NEW P, NEW NV, NEW NP,
           OwnStep(b, k, V, P, NV, NP), NEW c \in Bucket, NEW l \in Key
    PROVE  /\ \A f \in versions'[c][l] :
                 \/ f \in versions[c][l] /\ (c = b /\ l = k => f \notin V)
                 \/ c = b /\ l = k /\ f \in NV
           /\ \A q \in parts'[c][l] :
                 \/ q \in parts[c][l] /\ (c = b /\ l = k => q \notin P)
                 \/ c = b /\ l = k /\ q \in NP
BY DEF TypeOK, OwnStep

\* Such a step keeps the ownership of data ...
LEMMA OwnStepKeeps ==
    ASSUME OwnInv, NEW b \in Bucket, NEW k \in Key, NEW V, NEW P, NEW NV, NEW NP,
           OwnStep(b, k, V, P, NV, NP)
    PROVE  NamedIsMinted' /\ ReclaimIsSafe'
<1>1. TypeOK
  BY DEF OwnInv
<1>2. /\ minted \cup Names(NV, NP) \subseteq minted'
      /\ \A d \in Names(NV, NP) : d \in Names(V, P) \/ d \notin minted
      /\ \A d \in freed' : d \in freed \/ (d \in Names(V, P) /\ d \notin Names(NV, NP))
      /\ NV = {} \/ NP = {}
      /\ \A e, f \in NV : e = f
      /\ \A p, q \in NP : p = q
      /\ V \subseteq versions[b][k] /\ P \subseteq parts[b][k]
  BY DEF OwnStep
<1>3. /\ \A f \in NV : \A d \in f.data : d \in Names(NV, NP)
      /\ \A q \in NP : q.data \in Names(NV, NP)
  BY DEF Names, DataIDs
<1>4. \A d \in Names(V, P) : d \in minted /\ d \notin freed
  BY <1>2 DEF Names, DataIDs, OwnInv, NamedIsMinted, ReclaimIsSafe, FreedIsUnreferenced
<1>5. freed \subseteq minted
  BY DEF OwnInv, NamedIsMinted
<1>6. \A d \in Names(NV, NP) : d \notin freed'
  BY <1>2, <1>4, <1>5
<1> DEFINE KeptV(c, l, f) == f \in versions[c][l] /\ (c = b /\ l = k => f \notin V)
           NewV(c, l, f) == c = b /\ l = k /\ f \in NV
           KeptP(c, l, q) == q \in parts[c][l] /\ (c = b /\ l = k => q \notin P)
           NewP(c, l, q) == c = b /\ l = k /\ q \in NP
<1>7. ASSUME NEW c \in Bucket, NEW l \in Key
      PROVE  /\ \A f \in versions'[c][l] : KeptV(c, l, f) \/ NewV(c, l, f)
             /\ \A q \in parts'[c][l] : KeptP(c, l, q) \/ NewP(c, l, q)
  BY <1>1, RowOrigin
<1>8. ASSUME NEW c \in Bucket, NEW l \in Key, NEW f, KeptV(c, l, f)
      PROVE  \A d \in f.data : d \in minted /\ d \notin freed' /\ d \notin Names(NV, NP)
  <2>1. \A d \in f.data : d \notin Names(V, P) \cup Names(NV, NP)
    <3>1. f \in versions[c][l] /\ (c = b /\ l = k => f \notin V)
      BY <1>8
    <3> HIDE DEF KeptV, NewV, KeptP, NewP
    <3>2. \A g \in versions[c][l] :
            (c = b /\ l = k => g \notin V) => \A d \in g.data : d \notin Names(V, P) \cup Names(NV, NP)
      BY KeptApart
    <3> QED BY <3>1, <3>2
  <2>2. \A d \in f.data : d \in minted /\ d \notin freed
    BY <1>8 DEF OwnInv, NamedIsMinted, ReclaimIsSafe, FreedIsUnreferenced
  <2> QED BY <1>2, <2>1, <2>2
<1>9. ASSUME NEW c \in Bucket, NEW l \in Key, NEW q, KeptP(c, l, q)
      PROVE  q.data \in minted /\ q.data \notin freed' /\ q.data \notin Names(NV, NP)
  <2>1. q.data \notin Names(V, P) \cup Names(NV, NP)
    BY <1>9, KeptApart
  <2>2. q.data \in minted /\ q.data \notin freed
    BY <1>9 DEF OwnInv, NamedIsMinted, ReclaimIsSafe, FreedIsUnreferenced
  <2> QED BY <1>2, <2>1, <2>2
<1>10. /\ \A c, d \in Bucket, l, m \in Key : \A e, f :
             KeptV(c, l, e) /\ KeptV(d, m, f) /\ e.data \cap f.data # {} => c = d /\ l = m /\ e = f
       /\ \A c, d \in Bucket, l, m \in Key : \A p, q :
             KeptP(c, l, p) /\ KeptP(d, m, q) /\ p.data = q.data => c = d /\ l = m /\ p = q
       /\ \A c, d \in Bucket, l, m \in Key : \A e, q :
             KeptV(c, l, e) /\ KeptP(d, m, q) => q.data \notin e.data
  BY DEF OwnInv, ReclaimIsSafe, DataHasOneOwner
<1>11. /\ \A c, d \in Bucket, l, m \in Key : \A e, f :
             NewV(c, l, e) /\ NewV(d, m, f) => c = d /\ l = m /\ e = f
       /\ \A c, d \in Bucket, l, m \in Key : \A p, q :
             NewP(c, l, p) /\ NewP(d, m, q) => c = d /\ l = m /\ p = q
       /\ \A c, d \in Bucket, l, m \in Key : \A e, q : ~(NewV(c, l, e) /\ NewP(d, m, q))
  BY <1>2
<1>12. /\ \A c \in Bucket, l \in Key : \A f : NewV(c, l, f) => \A d \in f.data : d \in Names(NV, NP)
       /\ \A c \in Bucket, l \in Key : \A q : NewP(c, l, q) => q.data \in Names(NV, NP)
  BY <1>3
<1> HIDE DEF KeptV, NewV, KeptP, NewP
<1>13. NamedIsMinted'
  <2>1. freed' \subseteq minted'
    BY <1>2, <1>4, <1>5
  <2>2. ASSUME NEW c \in Bucket, NEW l \in Key
        PROVE  /\ \A f \in versions'[c][l] : f.data \subseteq minted'
               /\ \A q \in parts'[c][l] : q.data \in minted'
    <3>1. \A f \in versions'[c][l] : \A d \in f.data : d \in minted'
      BY <1>2, <1>7, <1>8, <1>12
    <3>2. \A q \in parts'[c][l] : q.data \in minted'
      BY <1>2, <1>7, <1>9, <1>12
    <3> QED BY <3>1, <3>2
  <2> QED BY <2>1, <2>2 DEF NamedIsMinted
<1>14. FreedIsUnreferenced'
  <2>1. ASSUME NEW c \in Bucket, NEW l \in Key
        PROVE  /\ \A f \in versions'[c][l] : \A d \in f.data : d \notin freed'
               /\ \A q \in parts'[c][l] : q.data \notin freed'
    <3>1. \A f \in versions'[c][l] : \A d \in f.data : d \notin freed'
      BY <1>6, <1>7, <1>8, <1>12
    <3>2. \A q \in parts'[c][l] : q.data \notin freed'
      BY <1>6, <1>7, <1>9, <1>12
    <3> QED BY <3>1, <3>2
  <2> QED BY <2>1 DEF FreedIsUnreferenced
<1>15. DataHasOneOwner'
  <2> SUFFICES ASSUME NEW c \in Bucket, NEW d \in Bucket, NEW l \in Key, NEW m \in Key
               PROVE  /\ \A e \in versions'[c][l], f \in versions'[d][m] :
                            e.data \cap f.data # {} => c = d /\ l = m /\ e = f
                      /\ \A p \in parts'[c][l], q \in parts'[d][m] :
                            p.data = q.data => c = d /\ l = m /\ p = q
                      /\ \A e \in versions'[c][l], q \in parts'[d][m] : q.data \notin e.data
    BY Zenon DEF DataHasOneOwner
  <2>1. ASSUME NEW e \in versions'[c][l], NEW f \in versions'[d][m], e.data \cap f.data # {}
        PROVE  c = d /\ l = m /\ e = f
    <3>1. PICK x : x \in e.data /\ x \in f.data
      BY <2>1
    <3>2. KeptV(c, l, e) \/ NewV(c, l, e)
      BY <1>7
    <3>3. KeptV(d, m, f) \/ NewV(d, m, f)
      BY <1>7
    <3>4. ~(KeptV(c, l, e) /\ NewV(d, m, f)) /\ ~(NewV(c, l, e) /\ KeptV(d, m, f))
      BY <3>1, <1>8, <1>12
    <3> QED BY <2>1, <3>2, <3>3, <3>4, <1>10, <1>11
  <2>2. ASSUME NEW p \in parts'[c][l], NEW q \in parts'[d][m], p.data = q.data
        PROVE  c = d /\ l = m /\ p = q
    <3>2. KeptP(c, l, p) \/ NewP(c, l, p)
      BY <1>7
    <3>3. KeptP(d, m, q) \/ NewP(d, m, q)
      BY <1>7
    <3>4. ~(KeptP(c, l, p) /\ NewP(d, m, q)) /\ ~(NewP(c, l, p) /\ KeptP(d, m, q))
      BY <2>2, <1>9, <1>12
    <3> QED BY <2>2, <3>2, <3>3, <3>4, <1>10, <1>11
  <2>3. ASSUME NEW e \in versions'[c][l], NEW q \in parts'[d][m]
        PROVE  q.data \notin e.data
    <3>2. KeptV(c, l, e) \/ NewV(c, l, e)
      BY <1>7
    <3>3. KeptP(d, m, q) \/ NewP(d, m, q)
      BY <1>7
    <3>4. KeptV(c, l, e) /\ NewP(d, m, q) => q.data \notin e.data
      BY <1>8, <1>12
    <3>5. NewV(c, l, e) /\ KeptP(d, m, q) => q.data \notin e.data
      BY <1>9, <1>12
    <3> QED BY <3>2, <3>3, <3>4, <3>5, <1>10, <1>11
  <2> QED BY <2>1, <2>2, <2>3, Zenon
<1> QED BY <1>13, <1>14, <1>15 DEF ReclaimIsSafe

\* ... and forgets nothing.
LEMMA OwnStepForgetsNothing ==
    ASSUME TypeOK, NEW b \in Bucket, NEW k \in Key, NEW V, NEW P, NEW NV, NEW NP,
           OwnStep(b, k, V, P, NV, NP)
    PROVE  Referenced \ Referenced' \subseteq freed'
<1> SUFFICES ASSUME NEW d \in Referenced PROVE d \in freed' \/ d \in Referenced'
  OBVIOUS
<1>0. PICK c \in Bucket : d \in UNION {NamedAt(c, l) : l \in Key}
  BY DEF Referenced
<1>1. PICK l \in Key : d \in NamedAt(c, l)
  BY <1>0
<1>2. /\ \A f \in versions[c][l] : (c = b /\ l = k => f \notin V) => f \in versions'[c][l]
      /\ \A q \in parts[c][l] : (c = b /\ l = k => q \notin P) => q \in parts'[c][l]
      /\ \A f \in NV : f \in versions'[b][k]
      /\ \A q \in NP : q \in parts'[b][k]
  BY DEF OwnStep, TypeOK
<1>3. ASSUME NEW x \in NamedAt(c, l)' PROVE x \in Referenced'
  <2>1. x \in UNION {NamedAt(c, m)' : m \in Key}
    BY <1>3
  <2> QED BY <2>1 DEF Referenced
<1>4. ASSUME NEW x \in NamedAt(b, k)' PROVE x \in Referenced'
  <2>1. x \in UNION {NamedAt(b, m)' : m \in Key}
    BY <1>4
  <2> QED BY <2>1 DEF Referenced
<1>5. \A x \in Names(NV, NP) : x \in NamedAt(b, k)'
  BY <1>2 DEF Names, DataIDs, NamedAt
<1>6. \A x \in Names(V, P) : x \in freed' \/ x \in Names(NV, NP)
  BY DEF OwnStep
<1>7. d \in NamedAt(c, l)' \/ d \in Names(V, P)
  <2>1. CASE \E f \in versions[c][l] : d \in f.data
    BY <1>2, <2>1 DEF NamedAt, DataIDs, Names
  <2>2. CASE \E q \in parts[c][l] : d = q.data
    BY <1>2, <2>2 DEF NamedAt, DataIDs, Names
  <2> QED BY <1>1, <2>1, <2>2 DEF NamedAt, DataIDs
<1> QED BY <1>3, <1>4, <1>5, <1>6, <1>7

\* What the sets of rows a step removes and adds name.
LEMMA NamesOf ==
    /\ \A V : Names(V, {}) = DataIDs(V)
    /\ \A e : Names({e}, {}) = e.data
    /\ \A P : Names({}, P) = {p.data : p \in P}
    /\ Names({}, {}) = {}
    /\ \A V, P, d : d \in Names(V, P) <=> d \in DataIDs(V) \/ \E p \in P : d = p.data
BY DEF Names, DataIDs

\* A commit (CommitVersion) removes the null version it replaces and the
\* rows of the parts it is made of, and adds one version.
LEMMA CommitOwns ==
    ASSUME OwnInv, NEW b \in Bucket, NEW k \in Key, NEW e, NEW at, NEW id,
           NEW P \in SUBSET parts[b][k], CommitVersion(b, k, e, at), Mint(id),
           parts' = [parts EXCEPT ![b][k] = parts[b][k] \ P],
           \A d \in e.data : d = id \/ \E p \in P : d = p.data,
           freed' = freed \cup DataIDs(ReplacedNull(e.null, versions[b][k]))
                          \cup {p.data : p \in {q \in P : q.data \notin e.data}}
    PROVE  OwnStep(b, k, ReplacedNull(e.null, versions[b][k]), P, {e}, {})
<1> DEFINE R == ReplacedNull(e.null, versions[b][k])
<1>1. R \subseteq versions[b][k]
  BY ReplacedNullSubset
<1>2. /\ versions' = [versions EXCEPT ![b][k] = (versions[b][k] \ R) \cup {e}]
      /\ id \notin minted /\ minted' = minted \cup {id}
  BY Zenon DEF CommitVersion, Mint
<1>3. freed' = freed \cup DataIDs(R) \cup {p.data : p \in {q \in P : q.data \notin e.data}}
  BY Zenon
<1> HIDE DEF R
<1>4. \A p \in P : p.data \in minted
  BY DEF OwnInv, NamedIsMinted
<1>5. \A d \in DataIDs(R) : d \in minted /\ \A p \in P : d # p.data
  BY <1>1 DEF DataIDs, OwnInv, NamedIsMinted, ReclaimIsSafe, DataHasOneOwner
<1>6. Names({e}, {}) = e.data /\ \A d : d \in Names(R, P) <=> d \in DataIDs(R) \/ \E p \in P : d = p.data
  <2>1. Names({e}, {}) = e.data
    BY NamesOf, Zenon
  <2>2. \A d : d \in Names(R, P) <=> d \in DataIDs(R) \/ \E p \in P : d = p.data
    BY NamesOf
  <2> QED BY <2>1, <2>2, Zenon
<1>7. \A d \in DataIDs(R) : d \notin e.data
  BY <1>2, <1>5
<1>8. parts' = [parts EXCEPT ![b][k] = (parts[b][k] \ P) \cup {}]
  OBVIOUS
<1>9. /\ minted \cup e.data \subseteq minted'
      /\ \A d \in e.data : d \in Names(R, P) \/ d \notin minted
  BY <1>2, <1>4, <1>6
<1>10. /\ freed \subseteq freed'
       /\ \A d \in freed' : d \in freed \/ (d \in Names(R, P) /\ d \notin e.data)
       /\ Names(R, P) \subseteq freed' \cup e.data
  BY <1>3, <1>6, <1>7
<1>11. OwnStep(b, k, R, P, {e}, {})
  BY Zenon, <1>1, <1>2, <1>6, <1>8, <1>9, <1>10 DEF OwnStep
<1> QED BY <1>11 DEF R

\* A deletion of a version row hands back what the row named.
LEMMA RemoveOwns ==
    ASSUME OwnInv, NEW b \in Bucket, NEW k \in Key, NEW e \in versions[b][k],
           versions' = [versions EXCEPT ![b][k] = versions[b][k] \ {e}],
           freed' = freed \cup e.data, UNCHANGED <<parts, minted>>
    PROVE  OwnStep(b, k, {e}, {}, {}, {})
<1>1. Names({e}, {}) = e.data /\ Names({}, {}) = {}
  BY NamesOf, Zenon
<1>2. parts' = [parts EXCEPT ![b][k] = (parts[b][k] \ {}) \cup {}]
  BY DEF OwnInv, TypeOK
<1> QED BY Zenon, <1>1, <1>2 DEF OwnStep

\* A rewrite in place either keeps the data or names a new, minted ID.
LEMMA RewriteOwns ==
    ASSUME OwnInv, NEW b \in Bucket, NEW k \in Key, NEW e \in versions[b][k], NEW e2,
           ReplaceEntry(b, k, e, e2), parts' = parts,
           \/ e2.data = e.data /\ UNCHANGED <<minted, freed>>
           \/ \E id : e2.data = {id} /\ Mint(id) /\ freed' = freed \cup e.data
    PROVE  OwnStep(b, k, {e}, {}, {e2}, {})
<1>1. Names({e}, {}) = e.data /\ Names({e2}, {}) = e2.data
  BY NamesOf, Zenon
<1>2. parts' = [parts EXCEPT ![b][k] = (parts[b][k] \ {}) \cup {}]
  BY DEF OwnInv, TypeOK
<1>3. e.data \subseteq minted
  BY DEF OwnInv, NamedIsMinted
<1>4. versions' = [versions EXCEPT ![b][k] = (versions[b][k] \ {e}) \cup {e2}]
  BY DEF ReplaceEntry
<1> QED BY Zenon, <1>1, <1>2, <1>3, <1>4 DEF OwnStep, Mint

\* A step of the data's owners, at some key.
DataStep == \E b \in Bucket, k \in Key : \E V, P, NV, NP : OwnStep(b, k, V, P, NV, NP)

\* Every write of a version is one ...
LEMMA WriteOwns ==
    ASSUME OwnInv, NEW b \in Bucket, NEW k \in Key, WriteStep(b, k)
    PROVE  DataStep
<1>0. parts \in [Bucket -> [Key -> SUBSET PartRecord]] /\ TypeOK
  BY DEF OwnInv, TypeOK
<1>1. ASSUME parts' = parts PROVE parts' = [parts EXCEPT ![b][k] = parts[b][k] \ {}]
  BY <1>0, <1>1
<1>2. ASSUME NEW id \in ID, NEW at \in ProposedAt, NEW r \in Retention, NEW hold \in BOOLEAN,
             ApplyPutObject(b, k, id, at, r, hold)
      PROVE  DataStep
  <2> DEFINE S == versions[b][k]
             isNull == buckets[b].versioning # "Enabled"
             ret == EffectiveRetention(b, r, at)
             e == [vid |-> BumpedID(id, S), data |-> {id}, kind |-> "Object",
                   multipart |-> FALSE, null |-> isNull, content |-> id,
                   mode |-> ret.mode, until |-> ret.until, hold |-> hold]
  <2>1. /\ CommitVersion(b, k, e, at) /\ Mint(id) /\ parts' = parts
        /\ freed' = freed \cup DataIDs(ReplacedNull(isNull, S))
    BY <1>2, Zenon DEF ApplyPutObject
  <2>2. e.data = {id} /\ e.null = isNull
    OBVIOUS
  <2> HIDE DEF e, isNull
  <2>3. freed' = freed \cup DataIDs(ReplacedNull(e.null, S))
                       \cup {p.data : p \in {q \in {} : q.data \notin e.data}}
    BY <2>1, <2>2
  <2>4. OwnStep(b, k, ReplacedNull(e.null, S), {}, {e}, {})
    BY Zenon, <1>1, <2>1, <2>2, <2>3, CommitOwns
  <2> QED BY <2>4, Zenon DEF DataStep
<1>3. ASSUME NEW id \in ID, NEW at \in ProposedAt, InsertDeleteMarker(b, k, id, at)
      PROVE  DataStep
  <2> DEFINE S == versions[b][k]
             isNull == buckets[b].versioning = "Suspended"
             e == [vid |-> BumpedID(id, S), data |-> {}, kind |-> "DeleteMarker",
                   multipart |-> FALSE, null |-> isNull, content |-> 0,
                   mode |-> "None", until |-> 0, hold |-> FALSE]
  <2>1. /\ CommitVersion(b, k, e, at) /\ Mint(id) /\ parts' = parts
        /\ freed' = freed \cup DataIDs(ReplacedNull(isNull, S))
    BY <1>3, Zenon DEF InsertDeleteMarker
  <2>2. e.data = {} /\ e.null = isNull
    OBVIOUS
  <2> HIDE DEF e, isNull
  <2>3. freed' = freed \cup DataIDs(ReplacedNull(e.null, S))
                       \cup {p.data : p \in {q \in {} : q.data \notin e.data}}
    BY <2>1, <2>2
  <2>4. OwnStep(b, k, ReplacedNull(e.null, S), {}, {e}, {})
    BY Zenon, <1>1, <2>1, <2>2, <2>3, CommitOwns
  <2> QED BY <2>4, Zenon DEF DataStep
<1>4. ASSUME NEW at \in ProposedAt, DeleteUnversioned(b, k, at) PROVE DataStep
  <2> DEFINE e == newestVersion(versions[b][k])
  <2>1. e \in versions[b][k]
    BY <1>4, NewestIsNewest, Zenon DEF DeleteUnversioned
  <2>2. OwnStep(b, k, {e}, {}, {}, {})
    BY <1>4, <2>1, RemoveOwns, Zenon DEF DeleteUnversioned
  <2> QED BY <2>2, Zenon DEF DataStep
<1>5. ASSUME NEW e \in versions[b][k], NEW at \in ProposedAt, NEW bypass \in BOOLEAN,
             ApplyDeleteVersion(b, k, e, at, bypass)
      PROVE  DataStep
  <2>1. OwnStep(b, k, {e}, {}, {}, {})
    BY <1>5, RemoveOwns, Zenon DEF ApplyDeleteVersion
  <2> QED BY <2>1, Zenon DEF DataStep
<1>6. ASSUME NEW e \in versions[b][k], NEW at \in ProposedAt, NEW r \in Retention,
             NEW bypass \in BOOLEAN, ApplyUpdateRetention(b, k, e, at, r, bypass)
      PROVE  DataStep
  <2> DEFINE e2 == [e EXCEPT !.mode = r.mode, !.until = r.until]
  <2>1. e2.data = e.data
    BY <1>0 DEF TypeOK, VersionEntry
  <2>2. ReplaceEntry(b, k, e, e2) /\ UNCHANGED <<parts, minted, freed>>
    BY <1>6, Zenon DEF ApplyUpdateRetention
  <2> HIDE DEF e2
  <2>3. OwnStep(b, k, {e}, {}, {e2}, {})
    BY <2>1, <2>2, RewriteOwns
  <2> QED BY <2>3, Zenon DEF DataStep
<1>7. ASSUME NEW e \in versions[b][k], NEW hold \in BOOLEAN, ApplyUpdateLegalHold(b, k, e, hold)
      PROVE  DataStep
  <2> DEFINE e2 == [e EXCEPT !.hold = hold]
  <2>1. e2.data = e.data
    BY <1>0 DEF TypeOK, VersionEntry
  <2>2. ReplaceEntry(b, k, e, e2) /\ UNCHANGED <<parts, minted, freed>>
    BY <1>7, Zenon DEF ApplyUpdateLegalHold
  <2> HIDE DEF e2
  <2>3. OwnStep(b, k, {e}, {}, {e2}, {})
    BY <2>1, <2>2, RewriteOwns
  <2> QED BY <2>3, Zenon DEF DataStep
<1>8. ASSUME NEW e \in versions[b][k], NEW id \in ID, ApplyReEncodeObject(b, k, e, id)
      PROVE  DataStep
  <2> DEFINE e2 == [e EXCEPT !.data = {id}]
  <2>1. e2.data = {id}
    BY <1>0 DEF TypeOK, VersionEntry
  <2>2. ReplaceEntry(b, k, e, e2) /\ parts' = parts /\ Mint(id) /\ freed' = freed \cup e.data
    BY <1>8, Zenon DEF ApplyReEncodeObject
  <2> HIDE DEF e2
  <2>3. OwnStep(b, k, {e}, {}, {e2}, {})
    BY <2>1, <2>2, RewriteOwns, Zenon
  <2> QED BY <2>3, Zenon DEF DataStep
<1> QED BY <1>2, <1>3, <1>4, <1>5, <1>6, <1>7, <1>8, Zenon DEF WriteStep, ApplyDeleteObject

\* ... and so is every step of a multipart upload that touches data.
LEMMA MultipartOwns ==
    ASSUME OwnInv, NEW b \in Bucket, NEW k \in Key, MultipartStep(b, k)
    PROVE  DataStep \/ (UNCHANGED <<versions, parts, freed>> /\ minted \subseteq minted')
<1>0. /\ parts \in [Bucket -> [Key -> SUBSET PartRecord]]
      /\ versions \in [Bucket -> [Key -> SUBSET VersionEntry]]
  BY DEF OwnInv, TypeOK
<1>1. ASSUME NEW u \in ID, ApplyCreateMultipartUpload(b, k, u)
      PROVE  UNCHANGED <<versions, parts, freed>> /\ minted \subseteq minted'
  BY <1>1 DEF ApplyCreateMultipartUpload, Mint
<1>2. ASSUME versions' = versions
      PROVE  versions' = [versions EXCEPT ![b][k] = (versions[b][k] \ {}) \cup {}]
  BY <1>0, <1>2
<1>3. ASSUME NEW u \in uploads[b][k], NEW n \in PartNumber, NEW id \in ID, NEW large \in BOOLEAN,
             ApplyUploadPart(b, k, u, n, id, large)
      PROVE  DataStep
  <2> DEFINE prior == {p \in PartsOf(b, k, u) : p.num = n}
             np == [upload |-> u, num |-> n, data |-> id, large |-> large]
  <2>1. /\ Mint(id) /\ versions' = versions
        /\ parts' = [parts EXCEPT ![b][k] = (parts[b][k] \ prior) \cup {np}]
        /\ freed' = freed \cup {p.data : p \in prior}
    BY <1>0, <1>3 DEF ApplyUploadPart
  <2>2. prior \subseteq parts[b][k] /\ np.data = id
    BY DEF PartsOf
  <2> HIDE DEF prior, np
  <2>3. Names({}, prior) = {p.data : p \in prior} /\ Names({}, {np}) = {p.data : p \in {np}}
    BY NamesOf, Zenon
  <2>4. {p.data : p \in {np}} = {id} /\ {p.data : p \in prior} \subseteq minted
    BY <2>2 DEF OwnInv, NamedIsMinted
  <2>5. OwnStep(b, k, {}, prior, {}, {np})
    BY Zenon, <1>2, <2>1, <2>2, <2>3, <2>4 DEF OwnStep, Mint
  <2> QED BY <2>5, Zenon DEF DataStep
<1>4. ASSUME NEW u \in uploads[b][k], NEW used \in SUBSET parts[b][k], NEW id \in ID,
             NEW at \in ProposedAt, ApplyCompleteMultipartUpload(b, k, u, used, id, at)
      PROVE  DataStep
  <2> DEFINE S == versions[b][k]
             P == PartsOf(b, k, u)
             isNull == buckets[b].versioning # "Enabled"
             e == [vid |-> BumpedID(id, S), data |-> {p.data : p \in used}, kind |-> "Object",
                   multipart |-> TRUE, null |-> isNull, content |-> id,
                   mode |-> "None", until |-> 0, hold |-> FALSE]
  <2>1. /\ CommitVersion(b, k, e, at) /\ Mint(id) /\ used \subseteq P /\ DropUpload(b, k, u)
        /\ freed' = freed \cup DataIDs(ReplacedNull(isNull, S)) \cup {p.data : p \in P \ used}
    BY <1>4, Zenon DEF ApplyCompleteMultipartUpload, DiscardedParts
  <2>2. e.data = {p.data : p \in used} /\ e.null = isNull
    OBVIOUS
  <2>3. P \subseteq parts[b][k]
    BY DEF PartsOf
  <2>4. parts' = [parts EXCEPT ![b][k] = parts[b][k] \ P]
    BY <1>0, <2>1 DEF DropUpload
  <2> HIDE DEF e, isNull, P
  <2>5. \A p, q \in P : p.data = q.data => p = q
    BY <2>3 DEF OwnInv, ReclaimIsSafe, DataHasOneOwner
  <2>6. \A q \in P : q \in used <=> q.data \in e.data
    BY <2>1, <2>2, <2>5
  <2>7. {p.data : p \in P \ used} = {p.data : p \in {q \in P : q.data \notin e.data}}
    BY <2>6
  <2>8. freed' = freed \cup DataIDs(ReplacedNull(e.null, S))
                       \cup {p.data : p \in {q \in P : q.data \notin e.data}}
    BY <2>1, <2>2, <2>7
  <2>9. \A d \in e.data : \E p \in P : d = p.data
    BY <2>1, <2>2
  <2>10. OwnStep(b, k, ReplacedNull(e.null, S), P, {e}, {})
    BY Zenon, <2>1, <2>3, <2>4, <2>8, <2>9, CommitOwns
  <2> QED BY <2>10, Zenon DEF DataStep
<1>5. ASSUME NEW u \in uploads[b][k], ApplyAbortMultipartUpload(b, k, u) PROVE DataStep
  <2> DEFINE P == PartsOf(b, k, u)
  <2>1. /\ DropUpload(b, k, u) /\ UNCHANGED <<versions, minted>>
        /\ freed' = freed \cup {p.data : p \in P \ {}}
    BY <1>5, Zenon DEF ApplyAbortMultipartUpload, DiscardedParts
  <2>2. P \subseteq parts[b][k]
    BY DEF PartsOf
  <2>3. parts' = [parts EXCEPT ![b][k] = (parts[b][k] \ P) \cup {}]
    BY <1>0, <2>1 DEF DropUpload
  <2> HIDE DEF P
  <2>4. Names({}, P) = {p.data : p \in P} /\ Names({}, {}) = {} /\ P \ {} = P
    BY NamesOf
  <2>5. OwnStep(b, k, {}, P, {}, {})
    BY <1>2, <2>1, <2>2, <2>3, <2>4 DEF OwnStep
  <2> QED BY <2>5, Zenon DEF DataStep
<1> QED BY <1>1, <1>3, <1>4, <1>5, Zenon DEF MultipartStep

\* Every step is one of the two kinds.
LEMMA DataStepKinds ==
    ASSUME OwnInv, [Next]_vars
    PROVE  DataStep \/ (UNCHANGED <<versions, parts, freed>> /\ minted \subseteq minted')
<1>1. ASSUME NEW b \in Bucket, BucketStep(b) PROVE UNCHANGED <<versions, parts, freed, minted>>
  BY <1>1, Zenon DEF BucketStep, ApplyCreateBucket, ApplyDeleteBucket, ApplySetBucketVersioning,
     ApplySetObjectLockConfiguration
<1>2. CASE Tick \/ UNCHANGED vars
  BY <1>2 DEF Tick, vars
<1> QED BY <1>1, <1>2, WriteOwns, MultipartOwns, Zenon DEF Next

-----------------------------------------------------------------------------
(* Rows below a bucket and below an upload.                                *)

\* A step at one key of an existing bucket that leaves no part there without
\* its upload leaves no orphan anywhere.
LEMMA OneKeyKeeps ==
    ASSUME NoOrphanRows, NEW b \in Bucket, NEW k \in Key, GetBucket(b), buckets' = buckets,
           \A c \in Bucket, l \in Key : (c = b /\ l = k) \/
               (/\ versions'[c][l] = versions[c][l]
                /\ uploads'[c][l] = uploads[c][l]
                /\ parts'[c][l] = parts[c][l]),
           \A p \in parts'[b][k] : p.upload \in uploads'[b][k]
    PROVE  NoOrphanRows'
BY DEF NoOrphanRows, GetBucket

\* Every Apply function keeps rows below what they belong to.
LEMMA OrphanStep ==
    ASSUME TypeOK, NoOrphanRows, [Next]_vars
    PROVE  NoOrphanRows'
<1>0. /\ versions \in [Bucket -> [Key -> SUBSET VersionEntry]]
      /\ uploads \in [Bucket -> [Key -> SUBSET ID]]
      /\ parts \in [Bucket -> [Key -> SUBSET PartRecord]]
      /\ buckets \in [Bucket -> BucketConfig]
  BY DEF TypeOK
<1>1. CASE Tick \/ UNCHANGED vars
  BY <1>1 DEF Tick, vars, NoOrphanRows, GetBucket
<1>2. ASSUME NEW b \in Bucket, BucketStep(b) PROVE NoOrphanRows'
  <2>1. UNCHANGED <<versions, uploads, parts>>
    BY <1>2, Zenon DEF BucketStep, ApplyCreateBucket, ApplyDeleteBucket, ApplySetBucketVersioning,
       ApplySetObjectLockConfiguration
  <2>2. \A c \in Bucket : c # b => buckets'[c] = buckets[c]
    BY Zenon, <1>0, <1>2 DEF BucketStep, ApplyCreateBucket, ApplyDeleteBucket, ApplySetBucketVersioning,
       ApplySetObjectLockConfiguration
  <2>3. ~GetBucket(b)' => \A k \in Key : versions[b][k] = {} /\ uploads[b][k] = {}
    <3>1. CASE ApplyDeleteBucket(b)
      BY <3>1 DEF ApplyDeleteBucket
    <3>2. CASE \E lock \in LockChoice : ApplyCreateBucket(b, lock)
      BY <1>0, <3>2 DEF ApplyCreateBucket, GetBucket
    <3>3. CASE \E state \in Versioning : ApplySetBucketVersioning(b, state)
      BY <1>0, <3>3 DEF ApplySetBucketVersioning, GetBucket, BucketConfig
    <3>4. CASE \E mode \in {"None"} \cup LockMode, d \in {0} \cup Duration :
                   ApplySetObjectLockConfiguration(b, mode, d)
      <4>1. PICK mode, d : buckets' = [buckets EXCEPT ![b].defMode = mode, ![b].defDuration = d]
        BY <3>4, Zenon DEF ApplySetObjectLockConfiguration
      <4>2. buckets'[b].versioning = buckets[b].versioning
        BY <1>0, <4>1 DEF BucketConfig
      <4>3. GetBucket(b)
        BY <3>4, Zenon DEF ApplySetObjectLockConfiguration
      <4> QED BY <4>2, <4>3, Zenon DEF GetBucket
    <3> QED BY <1>2, <3>1, <3>2, <3>3, <3>4, Zenon DEF BucketStep
  <2>4. ASSUME NEW c \in Bucket, NEW k \in Key, ~GetBucket(c)'
        PROVE  versions[c][k] = {} /\ uploads[c][k] = {}
    <3>1. CASE c = b
      BY <2>3, <2>4, <3>1
    <3>2. CASE c # b
      BY <2>2, <2>4, <3>2 DEF NoOrphanRows, GetBucket
    <3> QED BY <3>1, <3>2
  <2>5. \A c \in Bucket, k \in Key : \A p \in parts'[c][k] : p.upload \in uploads'[c][k]
    BY <2>1 DEF NoOrphanRows
  <2> QED BY <2>1, <2>4, <2>5, Zenon DEF NoOrphanRows
<1>3. ASSUME NEW b \in Bucket, NEW k \in Key, WriteStep(b, k) PROVE NoOrphanRows'
  <2>1. UNCHANGED <<buckets, uploads, parts>>
    BY <1>3, ZenonT(40) DEF WriteStep, ApplyPutObject, ApplyDeleteObject, DeleteUnversioned,
       InsertDeleteMarker, ApplyDeleteVersion, ApplyUpdateRetention, ApplyUpdateLegalHold,
       ApplyReEncodeObject
  <2>2. \E T : versions' = [versions EXCEPT ![b][k] = T]
    <3>1. CASE \E e, at : CommitVersion(b, k, e, at)
      BY <3>1, Zenon DEF CommitVersion
    <3>2. CASE \E e, e2 : ReplaceEntry(b, k, e, e2)
      BY <3>2, Zenon DEF ReplaceEntry
    <3>3. CASE \/ \E at : DeleteUnversioned(b, k, at)
               \/ \E e, at, bypass : ApplyDeleteVersion(b, k, e, at, bypass)
      BY <3>3, Zenon DEF DeleteUnversioned, ApplyDeleteVersion
    <3> QED BY <1>3, <3>1, <3>2, <3>3, ZenonT(40) DEF WriteStep, ApplyPutObject, ApplyDeleteObject,
            InsertDeleteMarker, ApplyUpdateRetention, ApplyUpdateLegalHold, ApplyReEncodeObject
  <2>3. GetBucket(b) \/ \E e : e \in versions[b][k]
    BY <1>3, ZenonT(40) DEF WriteStep, ApplyPutObject, ApplyDeleteObject, DeleteUnversioned,
       InsertDeleteMarker, ApplyDeleteVersion, ApplyUpdateRetention, ApplyUpdateLegalHold,
       ApplyReEncodeObject, lockTarget
  <2>4. GetBucket(b)
    BY <2>3 DEF NoOrphanRows
  <2>5. \A c \in Bucket, l \in Key : (c = b /\ l = k) \/ versions'[c][l] = versions[c][l]
    BY <1>0, <2>2
  <2>6. \A p \in parts'[b][k] : p.upload \in uploads'[b][k]
    BY <2>1 DEF NoOrphanRows
  <2>7. \A c \in Bucket, l \in Key : (c = b /\ l = k) \/
            (/\ versions'[c][l] = versions[c][l]
             /\ uploads'[c][l] = uploads[c][l]
             /\ parts'[c][l] = parts[c][l])
    BY <2>1, <2>5
  <2> QED BY <2>1, <2>4, <2>6, <2>7, OneKeyKeeps
<1>4. ASSUME NEW b \in Bucket, NEW k \in Key, MultipartStep(b, k) PROVE NoOrphanRows'
  <2>1. ASSUME NEW u \in ID, ApplyCreateMultipartUpload(b, k, u) PROVE NoOrphanRows'
    <3>1. /\ GetBucket(b) /\ UNCHANGED <<buckets, versions, parts>>
          /\ uploads' = [uploads EXCEPT ![b][k] = uploads[b][k] \cup {u}]
      BY <1>0, <2>1 DEF ApplyCreateMultipartUpload
    <3>2. \A p \in parts'[b][k] : p.upload \in uploads'[b][k]
      BY <1>0, <3>1 DEF NoOrphanRows
    <3>3. \A c \in Bucket, l \in Key :
            /\ versions'[c][l] = versions[c][l] /\ parts'[c][l] = parts[c][l]
            /\ (c = b /\ l = k) \/ uploads'[c][l] = uploads[c][l]
      BY <1>0, <3>1
    <3> QED BY <3>1, <3>2, <3>3, OneKeyKeeps
  <2>2. ASSUME NEW u \in uploads[b][k], NEW n \in PartNumber, NEW id \in ID, NEW large \in BOOLEAN,
               ApplyUploadPart(b, k, u, n, id, large)
        PROVE  NoOrphanRows'
    <3>1. \A p \in parts'[b][k] : p.upload \in uploads'[b][k]
      BY <1>0, <2>2 DEF ApplyUploadPart, NoOrphanRows
    <3> QED BY <1>0, <2>2, <3>1, OneKeyKeeps DEF ApplyUploadPart
  <2>3. ASSUME NEW u \in uploads[b][k], DropUpload(b, k, u), GetBucket(b), buckets' = buckets,
               \E T : versions' = [versions EXCEPT ![b][k] = T]
        PROVE  NoOrphanRows'
    <3>1. \A p \in parts'[b][k] : p.upload \in uploads'[b][k]
      BY <1>0, <2>3 DEF DropUpload, PartsOf, NoOrphanRows
    <3>2. \A c \in Bucket, l \in Key : (c = b /\ l = k) \/
               (/\ versions'[c][l] = versions[c][l]
                /\ uploads'[c][l] = uploads[c][l]
                /\ parts'[c][l] = parts[c][l])
      BY <1>0, <2>3 DEF DropUpload
    <3> QED BY <2>3, <3>1, <3>2, OneKeyKeeps
  <2>4. ASSUME NEW u \in uploads[b][k], NEW used \in SUBSET parts[b][k], NEW id \in ID,
               NEW at \in ProposedAt, ApplyCompleteMultipartUpload(b, k, u, used, id, at)
        PROVE  NoOrphanRows'
    BY <2>3, <2>4, Zenon DEF ApplyCompleteMultipartUpload, CommitVersion
  <2>5. ASSUME NEW u \in uploads[b][k], ApplyAbortMultipartUpload(b, k, u) PROVE NoOrphanRows'
    <3>1. versions' = [versions EXCEPT ![b][k] = versions[b][k]]
      BY <1>0, <2>5 DEF ApplyAbortMultipartUpload
    <3> QED BY <2>3, <2>5, <3>1, Zenon DEF ApplyAbortMultipartUpload
  <2> QED BY <1>4, <2>1, <2>2, <2>4, <2>5, Zenon DEF MultipartStep
<1> QED BY <1>1, <1>2, <1>3, <1>4, Zenon DEF Next

-----------------------------------------------------------------------------
(* The theorems.                                                           *)

\* The inductive invariant of the rows' data.
LEMMA OwnInvariant == Spec => []OwnInv
<1>1. Init => OwnInv
  <2> SUFFICES ASSUME Init PROVE OwnInv
    OBVIOUS
  <2>1. TypeOK
    BY TypeInit
  <2>2. freed = {} /\ \A b \in Bucket, k \in Key : versions[b][k] = {} /\ parts[b][k] = {}
    BY DEF Init
  <2>3. NoOrphanRows
    BY DEF Init, NoOrphanRows
  <2>4. NamedIsMinted
    BY <2>2 DEF NamedIsMinted
  <2>5. ReclaimIsSafe
    BY <2>2 DEF ReclaimIsSafe, FreedIsUnreferenced, DataHasOneOwner
  <2> QED BY <2>1, <2>3, <2>4, <2>5 DEF OwnInv
<1>2. OwnInv /\ [Next]_vars => OwnInv'
  <2> SUFFICES ASSUME OwnInv, [Next]_vars PROVE OwnInv'
    OBVIOUS
  <2>1. TypeOK' /\ NoOrphanRows'
    BY TypeStep, OrphanStep DEF OwnInv
  <2>2. CASE DataStep
    BY <2>1, <2>2, OwnStepKeeps, Zenon DEF OwnInv, DataStep
  <2>3. CASE UNCHANGED <<versions, parts, freed>> /\ minted \subseteq minted'
    <3>1. NamedIsMinted'
      BY <2>3 DEF OwnInv, NamedIsMinted
    <3>2. versions' = versions /\ parts' = parts /\ freed' = freed
      BY <2>3
    <3>3. FreedIsUnreferenced'
      BY <3>2, Zenon DEF OwnInv, ReclaimIsSafe, FreedIsUnreferenced
    <3>4. DataHasOneOwner'
      <4>1. DataHasOneOwner
        BY DEF OwnInv, ReclaimIsSafe
      <4> QED BY <3>2, <4>1 DEF DataHasOneOwner
    <3> QED BY <2>1, <3>1, <3>3, <3>4 DEF OwnInv, ReclaimIsSafe
  <2> QED BY <2>2, <2>3, DataStepKinds
<1> QED BY <1>1, <1>2, PTL DEF Spec

\* No row is left below a deleted bucket or a finished upload.
THEOREM RowsHaveParents == Spec => []NoOrphanRows
<1>1. OwnInv => NoOrphanRows
  BY DEF OwnInv
<1> QED BY <1>1, OwnInvariant, PTL

\* What an Apply function returned for reclamation is named by no row then or
\* later, and no two rows share data: however long the caller takes to delete
\* the shards, it deletes nothing that is still named.
THEOREM ReclaimStaysSafe == Spec => []ReclaimIsSafe
<1>1. OwnInv => ReclaimIsSafe
  BY DEF OwnInv
<1> QED BY <1>1, OwnInvariant, PTL

\* No step drops the last name of stored data without handing it back.
THEOREM DataIsHandedBack == Spec => NothingForgotten
<1>1. OwnInv /\ [Next]_vars => Referenced \ Referenced' \subseteq freed'
  <2> SUFFICES ASSUME OwnInv, [Next]_vars PROVE Referenced \ Referenced' \subseteq freed'
    OBVIOUS
  <2>1. CASE DataStep
    BY <2>1, OwnStepForgetsNothing, Zenon DEF OwnInv, DataStep
  <2>2. CASE UNCHANGED <<versions, parts, freed>>
    BY <2>2 DEF Referenced, NamedAt
  <2> QED BY <2>1, <2>2, DataStepKinds
<1> QED BY <1>1, OwnInvariant, PTL DEF Spec, NothingForgotten

=============================================================================
