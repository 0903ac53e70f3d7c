----------------------------- MODULE KeyRotation -----------------------------
(***************************************************************************)
(* Encryption at rest and master-key rotation (ADR-0021, ADR-0032): the    *)
(* replicated posture, the key a PUT wraps its data key under and stamps   *)
(* its row with, the rewrap sweep, and the key a GET unwraps with          *)
(* (internal/meta/apply.go, internal/coord/rewrap.go, coord.go, put.go,    *)
(* internal/cluster/control.go and node.go).                               *)
(*                                                                         *)
(* A row is a whole-object version or, for the rows of Part, a part that   *)
(* an upload or a completed multipart version names.  Of a row only what   *)
(* rotation can see is kept: the fingerprint it carries and the key its    *)
(* data key is really wrapped under; unwrapping with another key fails     *)
(* (AES-GCM authenticates).  A fingerprint names one key.                  *)
(*                                                                         *)
(* The sweep and the control commands run on the leader, whose replica is  *)
(* up to date; a PUT may run on a node whose replica lags, and commits any *)
(* time after it read the posture.                                         *)
(***************************************************************************)
EXTENDS Integers, FiniteSets

CONSTANTS
    Node,
    KEK,        \* master-key fingerprints
    Founding,   \* the key of a cluster older than fingerprints
    Row,        \* rows that can hold a wrapped data key
    Part,       \* the rows that are multipart parts
    Prompt,     \* TRUE: no PUT spans the completion of a rotation, or reads
                \* its posture from a replica that lags behind one
    Legacy,     \* TRUE: the cluster may have been founded before fingerprints
    MaxLost     \* bound on the sweeps that lose their leader

ASSUME KeyAssumption ==
    /\ KEK \subseteq Nat \ {0}
    /\ Founding \in KEK
    /\ Part \subseteq Row
    /\ Prompt \in BOOLEAN
    /\ Legacy \in BOOLEAN
    /\ MaxLost \in Nat

VARIABLES
    posture,    \* the replicated EncryptionPosture
    rows,       \* the wrapped data key of each row
    view,       \* the posture each node's replica has applied
    master,     \* -master-key-file of each node
    next,       \* -new-master-key-file of each node, 0 when absent
    put,        \* the wrapped data key of each PUT on its way to its commit
    used,       \* rows some PUT was given: version and data IDs are not reused
    sweep,      \* the rewrap sweep on the leader
    lost        \* sweeps that lost their leader so far

vars == <<posture, rows, view, master, next, put, used, sweep, lost>>

Fingerprint == KEK \cup {0}
Posture == [on : BOOLEAN, current : Fingerprint, rotating : Fingerprint]
Absent == [enc |-> FALSE, fp |-> 0, wrap |-> 0]
Wrapped == {Absent} \cup [enc : {TRUE}, fp : Fingerprint, wrap : KEK]
WrappedUnder(k) == [enc |-> TRUE, fp |-> k, wrap |-> k]

Work == [row : Row, fp : Fingerprint, wrap : KEK]
Sweep == [phase : {"idle", "next", "rewrap", "complete"}, old : Fingerprint,
          new : Fingerprint, work : SUBSET Work, item : SUBSET Work]
Idle == [phase |-> "idle", old |-> 0, new |-> 0, work |-> {}, item |-> {}]

-----------------------------------------------------------------------------
(* Key lookup on a node.                                                   *)

ring(n) == {master[n], next[n]} \ {0}

\* The key a new write uses: the one being rotated to, else the current one;
\* the master key when that one is not loaded or none is established.
Encryption(n) ==
    LET target == IF view[n].rotating # 0 THEN view[n].rotating ELSE view[n].current
    IN  IF target \in ring(n) THEN target ELSE master[n]

\* Mutant: reads use the write key.
unwrapKEK_WriteKey(n, fp) == Encryption(n)

\* The key a read unwraps with.
unwrapKEK(n, fp) == IF fp # 0 /\ fp \in ring(n) THEN fp ELSE Encryption(n)

\* The write-time guard of beginPut.
IsClusterKey(n, k) ==
    view[n].current # 0 => k \in {view[n].current, view[n].rotating}

-----------------------------------------------------------------------------
(* Writes.                                                                 *)

beginPut(n, r) ==
    /\ r \notin used
    /\ Prompt => view[n] = posture /\ sweep.phase # "complete"
    /\ view[n].on
    /\ IsClusterKey(n, Encryption(n))
    /\ put' = [put EXCEPT ![r] = WrappedUnder(Encryption(n))]
    /\ used' = used \cup {r}
    /\ UNCHANGED <<posture, rows, view, master, next, sweep, lost>>

commitPut(r) ==
    /\ put[r] # Absent
    /\ rows' = [rows EXCEPT ![r] = put[r]]
    /\ put' = [put EXCEPT ![r] = Absent]
    /\ UNCHANGED <<posture, view, master, next, used, sweep, lost>>

deleteVersion(r) ==
    /\ rows[r] # Absent
    /\ rows' = [rows EXCEPT ![r] = Absent]
    /\ UNCHANGED <<posture, view, master, next, put, used, sweep, lost>>

-----------------------------------------------------------------------------
(* The control commands, on a leader n.                                    *)

upToDate(n) == view[n] = posture

ApplySetEncryptionPosture(fp) ==
    /\ posture.current \in {0, fp}
    /\ posture' = [posture EXCEPT !.on = TRUE, !.current = fp]

proposeEnableEncryption(n) ==
    /\ upToDate(n)
    /\ ApplySetEncryptionPosture(master[n])
    /\ UNCHANGED <<rows, view, master, next, put, used, sweep, lost>>

BeginAccepted(from, to) ==
    /\ posture.on
    /\ to # posture.current
    /\ posture.current # 0 /\ from = posture.current
    /\ posture.rotating \in {0, to}

ApplyBeginKEKRotation(from, to) ==
    /\ BeginAccepted(from, to)
    /\ posture' = [posture EXCEPT !.rotating = to]

\* What runRotateKey checks on n before it proposes.
RotateFrom(n) == IF posture.current = 0 THEN master[n] ELSE posture.current
RotateChecks(n) ==
    /\ upToDate(n)
    /\ next[n] # 0
    /\ posture.on
    /\ master[n] = RotateFrom(n)
    /\ next[n] # RotateFrom(n)
    /\ posture.rotating \in {0, next[n]}

runRotateKey(n) ==
    /\ RotateChecks(n)
    /\ ApplyBeginKEKRotation(RotateFrom(n), next[n])
    /\ UNCHANGED <<rows, view, master, next, put, used, sweep, lost>>

-----------------------------------------------------------------------------
(* The rewrap sweep.                                                       *)

collectEncrypted ==
    {[row |-> r, fp |-> rows[r].fp, wrap |-> rows[r].wrap] :
        r \in {s \in Row \ Part : rows[s].enc}}

RewrapSweep(n) ==
    /\ upToDate(n)
    /\ sweep = Idle
    /\ posture.on /\ posture.rotating # 0
    /\ posture.current \in ring(n) /\ posture.rotating \in ring(n)
    /\ sweep' = [phase |-> "next", old |-> posture.current, new |-> posture.rotating,
                 work |-> collectEncrypted, item |-> {}]
    /\ UNCHANGED <<posture, rows, view, master, next, put, used, lost>>

\* A straggler that the old key opens; any other item is passed over.
\* (Mutant: only rows without a fingerprint are part of the rotation.)
NeedsRewrap_Unstamped(w) == w.fp = 0 /\ w.wrap = sweep.old

NeedsRewrap(w) == w.fp # sweep.new /\ w.fp \in {sweep.old, 0} /\ w.wrap = sweep.old

rewrapNext(w) ==
    /\ sweep.phase = "next"
    /\ w \in sweep.work
    /\ sweep' = [sweep EXCEPT !.work = @ \ {w},
                              !.phase = IF NeedsRewrap(w) THEN "rewrap" ELSE "next",
                              !.item = IF NeedsRewrap(w) THEN {w} ELSE {}]
    /\ UNCHANGED <<posture, rows, view, master, next, put, used, lost>>

\* Mutant: the fingerprint moves and the wrapped key does not.
ApplyRewrapDEK_FingerprintOnly(w) ==
    rows' = IF rows[w.row].enc /\ rows[w.row].fp # sweep.new
            THEN [rows EXCEPT ![w.row].fp = sweep.new] ELSE rows

\* The proposal carries the key unwrapped from the snapshot.
ApplyRewrapDEK(w) ==
    rows' = IF rows[w.row].enc /\ rows[w.row].fp # sweep.new
            THEN [rows EXCEPT ![w.row] = WrappedUnder(sweep.new)] ELSE rows

rewrapCommit ==
    /\ sweep.phase = "rewrap"
    /\ \E w \in sweep.item : ApplyRewrapDEK(w)
    /\ sweep' = [sweep EXCEPT !.phase = "next", !.item = {}]
    /\ UNCHANGED <<posture, view, master, next, put, used, lost>>

\* No PUT is under way.
Quiet == \A r \in Row : put[r] = Absent

\* Mutant: the sweep closes the rotation without scanning again.
finish_NoRescan ==
    /\ sweep.phase = "next" /\ sweep.work = {}
    /\ Prompt => Quiet
    /\ sweep' = [sweep EXCEPT !.phase = "complete"]
    /\ UNCHANGED <<posture, rows, view, master, next, put, used, lost>>

\* Scan again; close the rotation if no version is left on another key, else
\* end the pass, and runRotateKey starts the next one.
finish ==
    /\ sweep.phase = "next" /\ sweep.work = {}
    /\ Prompt => Quiet
    /\ sweep' = IF \A w \in collectEncrypted : w.fp = sweep.new
                THEN [sweep EXCEPT !.phase = "complete"] ELSE Idle
    /\ UNCHANGED <<posture, rows, view, master, next, put, used, lost>>

ApplyCompleteKEKRotation(to) ==
    posture' = IF posture.rotating = to
               THEN [posture EXCEPT !.current = to, !.rotating = 0] ELSE posture

finishCommit ==
    /\ sweep.phase = "complete"
    /\ ApplyCompleteKEKRotation(sweep.new)
    /\ sweep' = Idle
    /\ UNCHANGED <<rows, view, master, next, put, used, lost>>

\* The leader stops or loses its place: its sweep ends where it is.
sweepLost ==
    /\ sweep # Idle /\ lost < MaxLost
    /\ sweep' = Idle
    /\ lost' = lost + 1
    /\ UNCHANGED <<posture, rows, view, master, next, put, used>>

-----------------------------------------------------------------------------
(* Replicas and operators.                                                 *)

\* The replica of n catches up.
catchUp(n) ==
    /\ view[n] # posture
    /\ view' = [view EXCEPT ![n] = posture]
    /\ UNCHANGED <<posture, rows, master, next, put, used, sweep, lost>>

\* The key an operator gives n as its master key.
MasterFor(n) == IF posture.current = 0 THEN master[n] ELSE posture.current

\* n restarts with other key files: the current key as master, and a next
\* one, which during a rotation is the one being rotated to (the operator
\* follows the documented procedure).
restart(n, k) ==
    /\ upToDate(n)
    /\ k # MasterFor(n)
    /\ posture.rotating # 0 => k = posture.rotating
    /\ <<master[n], next[n]>> # <<MasterFor(n), k>>
    /\ master' = [master EXCEPT ![n] = MasterFor(n)]
    /\ next' = [next EXCEPT ![n] = k]
    /\ UNCHANGED <<posture, rows, view, put, used, sweep, lost>>

-----------------------------------------------------------------------------
\* A cluster that has not turned encryption on, or one that did before
\* fingerprints existed and holds rows without one.
Init ==
    /\ \/ /\ posture = [on |-> FALSE, current |-> 0, rotating |-> 0]
          /\ rows = [r \in Row |-> Absent]
       \/ /\ Legacy
          /\ posture = [on |-> TRUE, current |-> 0, rotating |-> 0]
          /\ rows \in [Row -> {Absent, [enc |-> TRUE, fp |-> 0, wrap |-> Founding]}]
    /\ view = [n \in Node |-> posture]
    /\ master = [n \in Node |-> Founding]
    /\ next = [n \in Node |-> 0]
    /\ put = [r \in Row |-> Absent]
    /\ used = {r \in Row : rows[r] # Absent}
    /\ sweep = Idle
    /\ lost = 0

NodeStep(n) ==
    \/ \E r \in Row : beginPut(n, r)
    \/ proposeEnableEncryption(n)
    \/ runRotateKey(n)
    \/ RewrapSweep(n)
    \/ catchUp(n)
    \/ \E k \in Fingerprint : restart(n, k)

SweepStep ==
    \/ \E w \in sweep.work : rewrapNext(w)
    \/ rewrapCommit
    \/ finish
    \/ finishCommit

Next ==
    \/ \E n \in Node : NodeStep(n)
    \/ \E r \in Row : commitPut(r) \/ deleteVersion(r)
    \/ SweepStep
    \/ sweepLost

Spec == Init /\ [][Next]_vars

\* PUTs end, replicas catch up, and the rotation command, or its re-run by
\* the operator, keeps sweeping on a leader that stays up in the end.
Fairness ==
    /\ \A r \in Row : WF_vars(commitPut(r))
    /\ \A n \in Node : WF_vars(catchUp(n))
    /\ WF_vars(\E n \in Node : RewrapSweep(n))
    /\ WF_vars(SweepStep)

FairSpec == Spec /\ Fairness

-----------------------------------------------------------------------------
(* Properties.                                                             *)

TypeOK ==
    /\ posture \in Posture
    /\ rows \in [Row -> Wrapped]
    /\ view \in [Node -> Posture]
    /\ master \in [Node -> KEK]
    /\ next \in [Node -> Fingerprint]
    /\ put \in [Row -> Wrapped]
    /\ used \subseteq Row
    /\ sweep \in Sweep
    /\ lost \in 0..MaxLost

\* A row's fingerprint tells the truth: its data key is wrapped under the key
\* the fingerprint names, and under the founding key when it names none
\* (ADR-0032: "given an object and a set of candidate keys, the right one is
\* known without trial").
FingerprintIsTrue ==
    \A r \in Row : rows[r].enc =>
        rows[r].wrap = IF rows[r].fp = 0 THEN Founding ELSE rows[r].fp

\* While no rotation is open, no row needs a key other than the current one,
\* so the retired key can go (ADR-0032: "Completion is provable: zero versions
\* remain on the old fingerprint").
RetiredKeyUnused ==
    posture.current # 0 /\ posture.rotating = 0 =>
        \A r \in Row : rows[r].enc => rows[r].wrap = posture.current

\* A node can read whatever is wrapped under a key it has loaded (ADR-0032:
\* "a node serves any version it has a matching KEK for").
ReadableWithKey ==
    \A n \in Node, r \in Row : rows[r].enc /\ rows[r].wrap \in ring(n) =>
        unwrapKEK(n, rows[r].fp) = rows[r].wrap

\* An open rotation is closed in the end (ADR-0032: "A rotation runs to
\* completion - zero stragglers on the old fingerprint").
RotationCompletes == posture.rotating # 0 ~> posture.rotating = 0
=============================================================================
