-------------------------- MODULE KeyRotationProofs --------------------------
(***************************************************************************)
(* Proofs about KeyRotation, for every set of nodes, keys and rows.  The   *)
(* fingerprint of a row is true because every wrapped data key is made by  *)
(* WrappedUnder with a loaded key: the invariant KeyInv carries that to    *)
(* the PUTs under way and to the key the sweep is rewrapping to.           *)
(***************************************************************************)
EXTENDS KeyRotation, TLAPS

\* A PUT on its way to its commit carries a key and that key's fingerprint.
PutsAreStamped == \A r \in Row : put[r].enc => put[r].fp # 0 /\ put[r].wrap = put[r].fp

\* A sweep under way has a key to rewrap to.
SweepHasKey == sweep.phase # "idle" => sweep.new # 0

KeyInv == TypeOK /\ FingerprintIsTrue /\ PutsAreStamped /\ SweepHasKey

\* The key a write uses is always a loaded one (the fallback to the master
\* key in the Encryption closure of node.go).
LEMMA WriteKeyLoaded ==
    ASSUME TypeOK, NEW n \in Node
    PROVE  Encryption(n) \in KEK
  <1>1. master[n] \in KEK /\ next[n] \in Fingerprint
    BY DEF TypeOK
  <1>. QED
    BY <1>1 DEF Encryption, ring, Fingerprint

\* What WrappedUnder makes is a wrapped key that its fingerprint names.
LEMMA WrappedIsTrue ==
    ASSUME NEW k \in KEK
    PROVE  /\ WrappedUnder(k) \in Wrapped
           /\ WrappedUnder(k).enc /\ WrappedUnder(k).fp = k /\ WrappedUnder(k).wrap = k
           /\ k # 0
  BY KeyAssumption DEF WrappedUnder, Wrapped, Fingerprint

\* A new cluster, and one older than fingerprints, start with true rows.
LEMMA KeyInit == Init => KeyInv
  <1>. SUFFICES ASSUME Init PROVE KeyInv
    OBVIOUS
  <1>0. 0 \in Fingerprint /\ Founding \in Fingerprint /\ 0 \notin KEK
    BY KeyAssumption DEF Fingerprint
  <1>1. Absent \in Wrapped /\ [enc |-> TRUE, fp |-> 0, wrap |-> Founding] \in Wrapped
    BY <1>0, KeyAssumption DEF Wrapped
  <1>2. rows \in [Row -> {Absent, [enc |-> TRUE, fp |-> 0, wrap |-> Founding]}]
    BY DEF Init
  <1>3. posture \in Posture
    <2>1. \/ posture = [on |-> FALSE, current |-> 0, rotating |-> 0]
          \/ posture = [on |-> TRUE, current |-> 0, rotating |-> 0]
      BY DEF Init
    <2>2. /\ [on |-> FALSE, current |-> 0, rotating |-> 0] \in Posture
          /\ [on |-> TRUE, current |-> 0, rotating |-> 0] \in Posture
      BY <1>0 DEF Posture
    <2>. QED
      BY <2>1, <2>2, Zenon
  <1>4. sweep \in Sweep
    BY <1>0 DEF Init, Idle, Sweep
  <1>5. TypeOK
    <2>1. rows \in [Row -> Wrapped]
      BY <1>1, <1>2, Zenon
    <2>2. put \in [Row -> Wrapped]
      BY <1>1 DEF Init
    <2>3. view \in [Node -> Posture]
      BY <1>3 DEF Init
    <2>4. master \in [Node -> KEK] /\ next \in [Node -> Fingerprint]
      BY <1>0, KeyAssumption DEF Init
    <2>5. used \subseteq Row /\ lost \in 0..MaxLost
      BY KeyAssumption DEF Init
    <2>. QED
      BY <1>3, <1>4, <2>1, <2>2, <2>3, <2>4, <2>5 DEF TypeOK
  <1>6. FingerprintIsTrue
    BY <1>2 DEF FingerprintIsTrue, Absent
  <1>7. PutsAreStamped
    BY DEF Init, PutsAreStamped, Absent
  <1>8. SweepHasKey
    BY DEF Init, SweepHasKey, Idle
  <1>. QED
    BY <1>5, <1>6, <1>7, <1>8 DEF KeyInv

\* Steps that only the posture, the replicas or the key files see.
LEMMA NodeKeeps ==
    ASSUME KeyInv, NEW n \in Node,
           \/ proposeEnableEncryption(n)
           \/ runRotateKey(n)
           \/ catchUp(n)
           \/ \E k \in Fingerprint : restart(n, k)
    PROVE  KeyInv'
  <1>0. TypeOK
    BY DEF KeyInv
  <1>1. UNCHANGED <<rows, put, used, sweep, lost>>
    BY DEF proposeEnableEncryption, runRotateKey, catchUp, restart
  <1>2. posture' \in Posture
    <2>1. CASE proposeEnableEncryption(n)
      <3>1. master[n] \in Fingerprint
        BY <1>0 DEF TypeOK, Fingerprint
      <3>2. posture' = [posture EXCEPT !.on = TRUE, !.current = master[n]]
        BY <2>1 DEF proposeEnableEncryption, ApplySetEncryptionPosture
      <3>. QED
        BY <1>0, <3>1, <3>2, Zenon DEF TypeOK, Posture
    <2>2. CASE runRotateKey(n)
      <3>1. posture' = [posture EXCEPT !.rotating = next[n]]
        BY <2>2 DEF runRotateKey, ApplyBeginKEKRotation
      <3>. QED
        BY <1>0, <3>1 DEF TypeOK, Posture
    <2>3. CASE catchUp(n)
      BY <1>0, <2>3 DEF TypeOK, catchUp
    <2>4. CASE \E k \in Fingerprint : restart(n, k)
      BY <1>0, <2>4 DEF TypeOK, restart
    <2>. QED
      BY <2>1, <2>2, <2>3, <2>4
  <1>3. view' \in [Node -> Posture]
    BY <1>0 DEF TypeOK, proposeEnableEncryption, runRotateKey, catchUp, restart
  <1>4. master' \in [Node -> KEK] /\ next' \in [Node -> Fingerprint]
    <2>1. CASE \E k \in Fingerprint : restart(n, k)
      <3>1. PICK k \in Fingerprint : restart(n, k)
        BY <2>1
      <3>2. MasterFor(n) \in KEK
        <4>1. posture.current \in Fingerprint /\ master[n] \in KEK
          BY <1>0 DEF TypeOK, Posture
        <4>. QED
          BY <4>1 DEF MasterFor, Fingerprint
      <3>. QED
        BY <1>0, <3>1, <3>2 DEF TypeOK, restart
    <2>2. CASE ~\E k \in Fingerprint : restart(n, k)
      BY <1>0, <2>2 DEF TypeOK, proposeEnableEncryption, runRotateKey, catchUp
    <2>. QED
      BY <2>1, <2>2
  <1>5. TypeOK'
    BY <1>0, <1>1, <1>2, <1>3, <1>4 DEF TypeOK
  <1>. QED
    BY <1>1, <1>5 DEF KeyInv, FingerprintIsTrue, PutsAreStamped, SweepHasKey

\* Steps of the PUTs: what they commit was wrapped by beginPut.
LEMMA PutKeeps ==
    ASSUME KeyInv, NEW r \in Row,
           \/ \E n \in Node : beginPut(n, r)
           \/ commitPut(r)
           \/ deleteVersion(r)
    PROVE  KeyInv'
  <1>0. TypeOK
    BY DEF KeyInv
  <1>1. CASE \E n \in Node : beginPut(n, r)
    <2>1. PICK n \in Node : beginPut(n, r)
      BY <1>1
    <2>2. Encryption(n) \in KEK
      BY <1>0, WriteKeyLoaded
    <2>3. put' = [put EXCEPT ![r] = WrappedUnder(Encryption(n))]
      BY <2>1 DEF beginPut
    <2>4. /\ UNCHANGED <<posture, rows, view, master, next, sweep, lost>>
          /\ used' \subseteq Row
      BY <1>0, <2>1 DEF beginPut, TypeOK
    <2>5. put' \in [Row -> Wrapped]
      BY <1>0, <2>2, <2>3, WrappedIsTrue DEF TypeOK
    <2>6. TypeOK'
      BY <1>0, <2>4, <2>5 DEF TypeOK
    <2>7. PutsAreStamped'
      <3>1. put \in [Row -> Wrapped]
        BY <1>0 DEF TypeOK
      <3>. QED
        BY <2>2, <2>3, <3>1, WrappedIsTrue DEF KeyInv, PutsAreStamped
    <2>. QED
      BY <2>4, <2>6, <2>7 DEF KeyInv, FingerprintIsTrue, SweepHasKey
  <1>2. CASE commitPut(r)
    <2>1. /\ rows' = [rows EXCEPT ![r] = put[r]]
          /\ put' = [put EXCEPT ![r] = Absent]
          /\ UNCHANGED <<posture, view, master, next, used, sweep, lost>>
      BY <1>2 DEF commitPut
    <2>2. rows \in [Row -> Wrapped] /\ put \in [Row -> Wrapped] /\ Absent \in Wrapped
      BY <1>0, Zenon DEF TypeOK, Wrapped
    <2>3. TypeOK'
      BY <1>0, <2>1, <2>2 DEF TypeOK
    <2>4. FingerprintIsTrue'
      BY <2>1, <2>2 DEF KeyInv, FingerprintIsTrue, PutsAreStamped
    <2>5. PutsAreStamped'
      BY <2>1, <2>2 DEF KeyInv, PutsAreStamped, Absent
    <2>. QED
      BY <2>1, <2>3, <2>4, <2>5 DEF KeyInv, SweepHasKey
  <1>3. CASE deleteVersion(r)
    <2>1. /\ rows' = [rows EXCEPT ![r] = Absent]
          /\ UNCHANGED <<posture, view, master, next, put, used, sweep, lost>>
      BY <1>3 DEF deleteVersion
    <2>2. rows \in [Row -> Wrapped] /\ Absent \in Wrapped
      BY <1>0, Zenon DEF TypeOK, Wrapped
    <2>3. TypeOK'
      BY <1>0, <2>1, <2>2 DEF TypeOK
    <2>4. FingerprintIsTrue'
      BY <2>1, <2>2 DEF KeyInv, FingerprintIsTrue, Absent
    <2>. QED
      BY <2>1, <2>3, <2>4 DEF KeyInv, PutsAreStamped, SweepHasKey
  <1>. QED
    BY <1>1, <1>2, <1>3

\* The work a sweep collects is well typed.
LEMMA CollectedIsWork ==
    ASSUME TypeOK
    PROVE  collectEncrypted \subseteq Work
  <1>1. ASSUME NEW r \in Row \ Part, rows[r].enc
        PROVE  [row |-> r, fp |-> rows[r].fp, wrap |-> rows[r].wrap] \in Work
    <2>1. rows[r] \in Wrapped /\ rows[r] # Absent
      BY <1>1 DEF TypeOK, Absent
    <2>2. rows[r].fp \in Fingerprint /\ rows[r].wrap \in KEK
      BY <2>1, Zenon DEF Wrapped
    <2>. QED
      BY <1>1, <2>2 DEF Work
  <1>. QED
    BY <1>1 DEF collectEncrypted

\* Steps of the sweep that change no row: starting, skipping, scanning again,
\* and losing the leader.
LEMMA SweepMoves ==
    ASSUME KeyInv, UNCHANGED <<posture, rows, view, master, next, put, used>>,
           lost' \in 0..MaxLost, sweep' \in Sweep,
           sweep'.phase # "idle" => sweep'.new # 0
    PROVE  KeyInv'
  <1>1. TypeOK'
    BY DEF KeyInv, TypeOK
  <1>. QED
    BY <1>1 DEF KeyInv, FingerprintIsTrue, PutsAreStamped, SweepHasKey

\* The sweep keeps the fingerprints true: it writes a row only under the key
\* it stamps it with.
LEMMA SweepKeeps ==
    ASSUME KeyInv, (\E n \in Node : RewrapSweep(n)) \/ SweepStep \/ sweepLost
    PROVE  KeyInv'
  <1>0. TypeOK /\ SweepHasKey /\ sweep \in Sweep /\ posture \in Posture
    BY DEF KeyInv, TypeOK
  <1>1. Idle \in Sweep /\ Idle.phase = "idle"
    BY DEF Idle, Sweep, Fingerprint
  <1>2. ASSUME NEW n \in Node, RewrapSweep(n) PROVE KeyInv'
    <2>1. sweep' = [phase |-> "next", old |-> posture.current, new |-> posture.rotating,
                    work |-> collectEncrypted, item |-> {}] /\ posture.rotating # 0
      BY <1>2 DEF RewrapSweep
    <2>2. sweep' \in Sweep
      BY <1>0, <2>1, CollectedIsWork DEF Sweep, Posture
    <2>3. UNCHANGED <<posture, rows, view, master, next, put, used>> /\ lost' \in 0..MaxLost
      BY <1>0, <1>2 DEF RewrapSweep, TypeOK
    <2>. QED
      BY <2>1, <2>2, <2>3, SweepMoves
  <1>3. ASSUME NEW w \in sweep.work, rewrapNext(w) PROVE KeyInv'
    <2>1. PICK ph \in {"rewrap", "next"}, it \in SUBSET Work :
              sweep' = [sweep EXCEPT !.work = @ \ {w}, !.phase = ph, !.item = it]
      <3>1. w \in Work
        BY <1>0 DEF Sweep
      <3>. QED
        BY <1>3, <3>1, Zenon DEF rewrapNext
    <2>2. sweep' \in Sweep /\ sweep'.new = sweep.new
      BY <1>0, <2>1, Zenon DEF Sweep
    <2>3. sweep.new # 0
      BY <1>0, <1>3 DEF rewrapNext, SweepHasKey
    <2>4. UNCHANGED <<posture, rows, view, master, next, put, used>> /\ lost' \in 0..MaxLost
      BY <1>0, <1>3 DEF rewrapNext, TypeOK
    <2>. QED
      BY <2>2, <2>3, <2>4, SweepMoves
  <1>4. CASE rewrapCommit
    <2>1. PICK w \in sweep.item : ApplyRewrapDEK(w)
      BY <1>4 DEF rewrapCommit
    <2>2. sweep.new \in KEK /\ w.row \in Row
      BY <1>0, <1>4, <2>1 DEF rewrapCommit, SweepHasKey, Sweep, Work, Fingerprint
    <2>3. rows' = rows \/ rows' = [rows EXCEPT ![w.row] = WrappedUnder(sweep.new)]
      BY <2>1 DEF ApplyRewrapDEK
    <2>4. rows \in [Row -> Wrapped]
      BY <1>0 DEF TypeOK
    <2>5. rows' \in [Row -> Wrapped]
      BY <2>2, <2>3, <2>4, WrappedIsTrue
    <2>6. FingerprintIsTrue'
      <3>1. CASE rows' = rows
        BY <3>1 DEF KeyInv, FingerprintIsTrue
      <3>2. CASE rows' = [rows EXCEPT ![w.row] = WrappedUnder(sweep.new)]
        BY <2>2, <2>4, <3>2, WrappedIsTrue DEF KeyInv, FingerprintIsTrue
      <3>. QED
        BY <2>3, <3>1, <3>2
    <2>7. sweep' \in Sweep /\ sweep'.new = sweep.new
      BY <1>0, <1>4, Zenon DEF rewrapCommit, Sweep
    <2>8. UNCHANGED <<posture, view, master, next, put, used, lost>>
      BY <1>4 DEF rewrapCommit
    <2>9. 0 \notin KEK
      BY KeyAssumption
    <2>10. TypeOK'
      BY <1>0, <2>5, <2>7, <2>8 DEF TypeOK
    <2>. QED
      BY <2>2, <2>6, <2>7, <2>8, <2>9, <2>10 DEF KeyInv, PutsAreStamped, SweepHasKey
  <1>5. CASE finish
    <2>1. sweep' = Idle \/ sweep' = [sweep EXCEPT !.phase = "complete"]
      BY <1>5 DEF finish
    <2>2. sweep' \in Sweep
      BY <1>0, <1>1, <2>1 DEF Sweep
    <2>3. sweep'.phase # "idle" => sweep'.new # 0
      BY <1>0, <1>1, <1>5, <2>1 DEF finish, SweepHasKey, Sweep
    <2>4. UNCHANGED <<posture, rows, view, master, next, put, used>> /\ lost' \in 0..MaxLost
      BY <1>0, <1>5 DEF finish, TypeOK
    <2>. QED
      BY <2>2, <2>3, <2>4, SweepMoves
  <1>6. CASE finishCommit
    <2>1. posture' \in Posture
      <3>1. sweep.new \in Fingerprint /\ 0 \in Fingerprint
        BY <1>0 DEF Sweep, Fingerprint
      <3>. QED
        BY <1>0, <1>6, <3>1, Zenon DEF finishCommit, ApplyCompleteKEKRotation, Posture
    <2>2. sweep' = Idle /\ UNCHANGED <<rows, view, master, next, put, used, lost>>
      BY <1>6 DEF finishCommit
    <2>3. TypeOK'
      BY <1>0, <1>1, <2>1, <2>2 DEF TypeOK
    <2>. QED
      BY <1>1, <2>2, <2>3 DEF KeyInv, FingerprintIsTrue, PutsAreStamped, SweepHasKey
  <1>7. CASE sweepLost
    <2>1. lost' \in 0..MaxLost
      BY <1>0, <1>7, KeyAssumption DEF sweepLost, TypeOK
    <2>. QED
      BY <1>1, <1>7, <2>1, SweepMoves DEF sweepLost
  <1>. QED
    BY <1>2, <1>3, <1>4, <1>5, <1>6, <1>7 DEF SweepStep

\* KeyInv is inductive.
LEMMA KeyStep == KeyInv /\ [Next]_vars => KeyInv'
  <1>. SUFFICES ASSUME KeyInv, [Next]_vars PROVE KeyInv'
    OBVIOUS
  <1>1. CASE UNCHANGED vars
    BY <1>1 DEF vars, KeyInv, TypeOK, FingerprintIsTrue, PutsAreStamped, SweepHasKey
  <1>2. ASSUME NEW n \in Node, NodeStep(n) PROVE KeyInv'
    BY <1>2, NodeKeeps, PutKeeps, SweepKeeps DEF NodeStep
  <1>3. ASSUME NEW r \in Row, commitPut(r) \/ deleteVersion(r) PROVE KeyInv'
    BY <1>3, PutKeeps
  <1>4. CASE SweepStep \/ sweepLost
    BY <1>4, SweepKeeps
  <1>. QED
    BY <1>1, <1>2, <1>3, <1>4 DEF Next

\* The posture, the rows, the replicas, the PUTs and the sweep keep their
\* types: in particular every row and every PUT is wrapped under a real key.
THEOREM KeyTypeCorrect == Spec => []TypeOK
  <1>1. KeyInv => TypeOK
    BY DEF KeyInv
  <1>. QED
    BY KeyInit, KeyStep, <1>1, PTL DEF Spec

\* Whatever PUTs, rotations, sweeps, lost leaders and key-file changes
\* happen, a row's fingerprint names the key its data key is wrapped under.
THEOREM FingerprintsAreTrue == Spec => []FingerprintIsTrue
  <1>1. KeyInv => FingerprintIsTrue
    BY DEF KeyInv
  <1>. QED
    BY KeyInit, KeyStep, <1>1, PTL DEF Spec

-----------------------------------------------------------------------------
(* Reading with a loaded key.                                              *)

\* In a cluster born with fingerprints every row carries one.
RowsAreStamped == \A r \in Row : rows[r].enc => rows[r].fp # 0

\* Every write of a row stamps it.
LEMMA StampStep ==
    ASSUME KeyInv, RowsAreStamped, [Next]_vars
    PROVE  RowsAreStamped'
  <1>0. rows \in [Row -> Wrapped] /\ sweep \in Sweep
    BY DEF KeyInv, TypeOK
  <1>1. ASSUME rows' = rows PROVE RowsAreStamped'
    BY <1>1 DEF RowsAreStamped
  <1>2. ASSUME NEW r \in Row, commitPut(r) PROVE RowsAreStamped'
    BY <1>0, <1>2 DEF commitPut, KeyInv, PutsAreStamped, RowsAreStamped
  <1>3. ASSUME NEW r \in Row, deleteVersion(r) PROVE RowsAreStamped'
    BY <1>0, <1>3 DEF deleteVersion, RowsAreStamped, Absent
  <1>4. CASE rewrapCommit
    <2>1. PICK w \in sweep.item : ApplyRewrapDEK(w)
      BY <1>4 DEF rewrapCommit
    <2>2. sweep.new \in KEK
      BY <1>0, <1>4 DEF rewrapCommit, KeyInv, SweepHasKey, Sweep, Fingerprint
    <2>3. rows' = rows \/ rows' = [rows EXCEPT ![w.row] = WrappedUnder(sweep.new)]
      BY <2>1 DEF ApplyRewrapDEK
    <2>. QED
      BY <1>0, <1>1, <2>2, <2>3, WrappedIsTrue DEF RowsAreStamped
  <1>5. CASE UNCHANGED vars
    BY <1>1, <1>5 DEF vars
  <1>6. ASSUME NEW n \in Node, NodeStep(n) PROVE RowsAreStamped'
    BY <1>1, <1>6, Zenon DEF NodeStep, beginPut, proposeEnableEncryption, runRotateKey,
       RewrapSweep, catchUp, restart
  <1>7. CASE SweepStep \/ sweepLost
    BY <1>1, <1>4, <1>7, Zenon DEF SweepStep, rewrapNext, finish, finishCommit, sweepLost
  <1>. QED
    BY <1>2, <1>3, <1>5, <1>6, <1>7 DEF Next

\* In a cluster born with fingerprints a node reads every row whose key it has
\* loaded, whichever of its two key files holds it and whatever it would
\* write with (unwrapKEK).
THEOREM LoadedKeyReads == ASSUME ~Legacy PROVE Spec => []ReadableWithKey
  <1>1. Init => RowsAreStamped
    BY DEF Init, RowsAreStamped, Absent
  <1>2. KeyInv /\ RowsAreStamped => ReadableWithKey
    BY DEF KeyInv, RowsAreStamped, FingerprintIsTrue, ReadableWithKey, unwrapKEK
  <1>. QED
    BY <1>1, <1>2, KeyInit, KeyStep, StampStep, PTL DEF Spec

-----------------------------------------------------------------------------
(* Retiring a key.                                                         *)

\* The keys data may be wrapped under: the founding key until one is
\* established, then the current one and the one being rotated to.
Allowed == IF posture.current = 0 THEN {Founding} ELSE {posture.current, posture.rotating}

\* A wrapped data key is wrapped under a real key.
LEMMA WrapIsKey ==
    ASSUME NEW w \in Wrapped, w.enc
    PROVE  w.wrap # 0
  <1>1. w # Absent
    BY DEF Absent
  <1>2. w \in [enc : {TRUE}, fp : Fingerprint, wrap : KEK]
    BY <1>1, Zenon DEF Wrapped
  <1>. QED
    BY <1>2, KeyAssumption

RotationInv ==
    /\ posture.current = 0 => posture.rotating = 0 /\ \A n \in Node : master[n] = Founding
    /\ \A r \in Row : rows[r].enc => rows[r].wrap \in Allowed
    /\ \A r \in Row : put[r].enc => put[r].wrap \in Allowed
    /\ sweep.phase # "idle" => sweep.new = posture.rotating
    /\ sweep.phase = "complete" => Quiet /\ \A r \in Row : rows[r].enc => rows[r].wrap = sweep.new

\* Steps of the PUTs: the guard in beginPut and the fallback of Encryption
\* leave only allowed keys.
LEMMA PutsStayAllowed ==
    ASSUME Prompt, KeyInv, RotationInv, NEW r \in Row,
           \/ \E n \in Node : beginPut(n, r)
           \/ commitPut(r)
           \/ deleteVersion(r)
    PROVE  RotationInv'
  <1>0. rows \in [Row -> Wrapped] /\ put \in [Row -> Wrapped] /\ 0 \notin KEK /\ TypeOK
    BY KeyAssumption DEF KeyInv, TypeOK
  <1>1. UNCHANGED <<posture, master, sweep>> /\ Allowed' = Allowed
    BY DEF beginPut, commitPut, deleteVersion, Allowed
  <1>2. CASE \E n \in Node : beginPut(n, r)
    <2>1. PICK n \in Node : beginPut(n, r)
      BY <1>2
    <2>2. Encryption(n) \in KEK
      BY <1>0, WriteKeyLoaded
    <2>3. view[n] = posture /\ sweep.phase # "complete" /\ IsClusterKey(n, Encryption(n))
      BY <2>1 DEF beginPut
    <2>4. Encryption(n) \in Allowed
      <3>1. CASE posture.current = 0
        <4>1. posture.rotating = 0 /\ master[n] = Founding
          BY <3>1 DEF RotationInv
        <4>2. Encryption(n) = Founding
          BY <2>3, <3>1, <4>1 DEF Encryption, ring
        <4>. QED
          BY <3>1, <4>2 DEF Allowed
      <3>2. CASE posture.current # 0
        BY <2>3, <3>2 DEF IsClusterKey, Allowed
      <3>. QED
        BY <3>1, <3>2
    <2>5. put' = [put EXCEPT ![r] = WrappedUnder(Encryption(n))] /\ rows' = rows
      BY <2>1 DEF beginPut
    <2>6. \A s \in Row : put'[s].enc => put'[s].wrap \in Allowed
      BY <1>0, <2>2, <2>4, <2>5, WrappedIsTrue DEF RotationInv
    <2>. QED
      BY <1>1, <2>3, <2>5, <2>6 DEF RotationInv
  <1>3. CASE commitPut(r)
    <2>1. /\ rows' = [rows EXCEPT ![r] = put[r]]
          /\ put' = [put EXCEPT ![r] = Absent] /\ put[r] # Absent
      BY <1>3 DEF commitPut
    <2>2. sweep.phase # "complete"
      BY <2>1 DEF RotationInv, Quiet
    <2>. QED
      BY <1>0, <1>1, <2>1, <2>2 DEF RotationInv, Absent
  <1>4. CASE deleteVersion(r)
    <2>1. rows' = [rows EXCEPT ![r] = Absent] /\ put' = put
      BY <1>4 DEF deleteVersion
    <2>. QED
      BY <1>0, <1>1, <2>1 DEF RotationInv, Absent, Quiet
  <1>. QED
    BY <1>2, <1>3, <1>4

\* Steps of the posture, the replicas and the key files.
LEMMA PostureStaysAllowed ==
    ASSUME KeyInv, RotationInv, NEW n \in Node,
           \/ proposeEnableEncryption(n)
           \/ runRotateKey(n)
           \/ catchUp(n)
           \/ \E k \in Fingerprint : restart(n, k)
    PROVE  RotationInv'
  <1>0. 0 \notin KEK /\ TypeOK /\ posture \in Posture /\ master \in [Node -> KEK]
    BY KeyAssumption DEF KeyInv, TypeOK
  <1>1. UNCHANGED <<rows, put, sweep>>
    BY DEF proposeEnableEncryption, runRotateKey, catchUp, restart
  <1>2. CASE proposeEnableEncryption(n)
    <2>1. /\ posture.current \in {0, master[n]}
          /\ posture' = [posture EXCEPT !.on = TRUE, !.current = master[n]] /\ master' = master
      BY <1>2 DEF proposeEnableEncryption, ApplySetEncryptionPosture
    <2>2. posture'.current = master[n] /\ posture'.rotating = posture.rotating /\ master[n] # 0
      BY <1>0, <2>1 DEF Posture
    <2>3. \A k \in Allowed : k \in Allowed'
      BY <2>1, <2>2 DEF Allowed, RotationInv
    <2>. QED
      BY <1>1, <2>1, <2>2, <2>3 DEF RotationInv, Quiet
  <1>3. CASE runRotateKey(n)
    <2>1. /\ posture.current # 0 /\ posture.rotating \in {0, next[n]} /\ master' = master
          /\ posture' = [posture EXCEPT !.rotating = next[n]]
      BY <1>3 DEF runRotateKey, ApplyBeginKEKRotation, BeginAccepted
    <2>2. posture'.current = posture.current /\ posture'.rotating = next[n]
      BY <1>0, <2>1 DEF Posture
    <2>3. rows \in [Row -> Wrapped] /\ put \in [Row -> Wrapped]
      BY <1>0 DEF TypeOK
    <2>4. \A w \in Wrapped : w.enc => w.wrap # 0
      BY WrapIsKey
    <2>5. \A k \in Allowed : k # 0 => k \in Allowed'
      BY <2>1, <2>2 DEF Allowed
    <2>6. sweep.phase # "idle" => sweep.new = posture'.rotating
      BY <2>1, <2>2 DEF RotationInv, KeyInv, SweepHasKey
    <2>. QED
      BY <1>1, <2>1, <2>2, <2>3, <2>4, <2>5, <2>6 DEF RotationInv, Quiet
  <1>4. CASE catchUp(n)
    BY <1>1, <1>4 DEF catchUp, RotationInv, Allowed, Quiet
  <1>5. ASSUME NEW k \in Fingerprint, restart(n, k) PROVE RotationInv'
    <2>1. posture' = posture /\ master' = [master EXCEPT ![n] = MasterFor(n)]
      BY <1>5 DEF restart
    <2>2. posture.current = 0 => \A m \in Node : master'[m] = master[m]
      BY <1>0, <2>1 DEF MasterFor
    <2>. QED
      BY <1>1, <2>1, <2>2 DEF RotationInv, Allowed, Quiet
  <1>. QED
    BY <1>2, <1>3, <1>4, <1>5

\* Steps of the sweep: it closes a rotation only after a scan that found every
\* row on the new key.
LEMMA SweepStaysAllowed ==
    ASSUME Prompt, Part = {}, KeyInv, RotationInv,
           (\E n \in Node : RewrapSweep(n)) \/ SweepStep \/ sweepLost
    PROVE  RotationInv'
  <1>0. /\ 0 \notin KEK /\ TypeOK /\ posture \in Posture /\ sweep \in Sweep
        /\ rows \in [Row -> Wrapped]
    BY KeyAssumption DEF KeyInv, TypeOK
  <1>1. Idle.phase = "idle"
    BY DEF Idle
  <1>2. ASSUME UNCHANGED <<posture, master, rows, put>>,
               sweep'.phase # "idle" => sweep'.new = posture.rotating,
               sweep'.phase # "complete"
        PROVE  RotationInv'
    BY <1>2 DEF RotationInv, Allowed
  <1>3. ASSUME NEW n \in Node, RewrapSweep(n) PROVE RotationInv'
    BY <1>2, <1>3 DEF RewrapSweep
  <1>4. ASSUME NEW w \in sweep.work, rewrapNext(w) PROVE RotationInv'
    <2>1. /\ sweep'.phase \in {"rewrap", "next"} /\ sweep'.new = sweep.new
          /\ sweep.phase = "next" /\ UNCHANGED <<posture, master, rows, put>>
      BY <1>0, <1>4 DEF rewrapNext, Sweep
    <2>. QED
      BY <1>2, <2>1 DEF RotationInv
  <1>5. CASE rewrapCommit
    <2>1. PICK w \in sweep.item : ApplyRewrapDEK(w)
      BY <1>5 DEF rewrapCommit
    <2>2. /\ sweep.phase = "rewrap" /\ sweep'.phase = "next" /\ sweep'.new = sweep.new
          /\ UNCHANGED <<posture, master, put>>
      BY <1>0, <1>5 DEF rewrapCommit, Sweep
    <2>3. sweep.new \in KEK /\ sweep.new = posture.rotating
      BY <1>0, <2>2 DEF KeyInv, SweepHasKey, Sweep, Fingerprint, RotationInv
    <2>4. sweep.new \in Allowed
      BY <1>0, <2>3 DEF Allowed, RotationInv
    <2>5. rows' = rows \/ rows' = [rows EXCEPT ![w.row] = WrappedUnder(sweep.new)]
      BY <2>1 DEF ApplyRewrapDEK
    <2>6. \A r \in Row : rows'[r].enc => rows'[r].wrap \in Allowed
      BY <1>0, <2>3, <2>4, <2>5, WrappedIsTrue DEF RotationInv
    <2>. QED
      BY <2>2, <2>3, <2>6 DEF RotationInv, Allowed
  <1>6. CASE finish
    <2>1. UNCHANGED <<posture, master, rows, put>> /\ sweep.phase = "next" /\ Quiet
      BY <1>6 DEF finish
    <2>2. CASE \A w \in collectEncrypted : w.fp = sweep.new
      <3>1. sweep' = [sweep EXCEPT !.phase = "complete"]
        BY <1>6, <2>2 DEF finish
      <3>2. sweep'.phase = "complete" /\ sweep'.new = sweep.new /\ sweep.new # 0
        BY <1>0, <2>1, <3>1 DEF Sweep, KeyInv, SweepHasKey
      <3>3. \A r \in Row : rows[r].enc => rows[r].fp = sweep.new
        <4>. SUFFICES ASSUME NEW r \in Row, rows[r].enc PROVE rows[r].fp = sweep.new
          OBVIOUS
        <4>1. [row |-> r, fp |-> rows[r].fp, wrap |-> rows[r].wrap] \in collectEncrypted
          BY DEF collectEncrypted
        <4>. QED
          BY <2>2, <4>1
      <3>4. \A r \in Row : rows[r].enc => rows[r].wrap = sweep.new
        BY <3>2, <3>3 DEF KeyInv, FingerprintIsTrue
      <3>. QED
        BY <2>1, <3>2, <3>4 DEF RotationInv, Allowed, Quiet
    <2>3. CASE ~\A w \in collectEncrypted : w.fp = sweep.new
      BY <1>1, <1>2, <1>6, <2>1, <2>3 DEF finish
    <2>. QED
      BY <2>2, <2>3
  <1>7. CASE finishCommit
    <2>1. /\ sweep.phase = "complete" /\ sweep' = Idle /\ UNCHANGED <<rows, put, master>>
          /\ ApplyCompleteKEKRotation(sweep.new)
      BY <1>7 DEF finishCommit
    <2>2. /\ Quiet /\ sweep.new = posture.rotating /\ sweep.new # 0
          /\ \A r \in Row : rows[r].enc => rows[r].wrap = sweep.new
      BY <2>1 DEF RotationInv, KeyInv, SweepHasKey
    <2>3. posture' = [posture EXCEPT !.current = sweep.new, !.rotating = 0]
      BY <2>1, <2>2 DEF ApplyCompleteKEKRotation
    <2>4. posture'.current = sweep.new /\ posture'.rotating = 0
      BY <1>0, <2>3 DEF Posture
    <2>. QED
      BY <1>1, <2>1, <2>2, <2>4 DEF RotationInv, Allowed, Quiet, Absent
  <1>8. CASE sweepLost
    BY <1>1, <1>2, <1>8 DEF sweepLost
  <1>. QED
    BY <1>3, <1>4, <1>5, <1>6, <1>7, <1>8 DEF SweepStep

\* Where no PUT spans the end of a rotation and no row is a part, a key that
\* was rotated away wraps nothing any more, whatever leaders were lost on the
\* way and however often the sweep was started again.
THEOREM RetiredKeysUnused == ASSUME Prompt, Part = {} PROVE Spec => []RetiredKeyUnused
  <1>1. Init => RotationInv
    BY DEF Init, RotationInv, Allowed, Idle, Absent
  <1>2. KeyInv /\ RotationInv /\ [Next]_vars => RotationInv'
    <2>. SUFFICES ASSUME KeyInv, RotationInv, [Next]_vars PROVE RotationInv'
      OBVIOUS
    <2>1. CASE UNCHANGED vars
      BY <2>1 DEF vars, RotationInv, Allowed, Quiet
    <2>2. ASSUME NEW n \in Node, NodeStep(n) PROVE RotationInv'
      BY <2>2, PutsStayAllowed, PostureStaysAllowed, SweepStaysAllowed DEF NodeStep
    <2>3. ASSUME NEW r \in Row, commitPut(r) \/ deleteVersion(r) PROVE RotationInv'
      BY <2>3, PutsStayAllowed
    <2>4. CASE SweepStep \/ sweepLost
      BY <2>4, SweepStaysAllowed
    <2>. QED
      BY <2>1, <2>2, <2>3, <2>4 DEF Next
  <1>3. KeyInv /\ RotationInv => RetiredKeyUnused
    <2>. SUFFICES ASSUME KeyInv, RotationInv, posture.current # 0, posture.rotating = 0,
                         NEW r \in Row, rows[r].enc
                  PROVE  rows[r].wrap = posture.current
      BY DEF RetiredKeyUnused
    <2>1. rows[r] \in Wrapped /\ 0 \notin KEK
      BY KeyAssumption DEF KeyInv, TypeOK
    <2>2. rows[r].wrap # 0
      BY <2>1, WrapIsKey
    <2>. QED
      BY <2>2 DEF RotationInv, Allowed
  <1>. QED
    BY <1>1, <1>2, <1>3, KeyInit, KeyStep, PTL DEF Spec
==============================================================================
