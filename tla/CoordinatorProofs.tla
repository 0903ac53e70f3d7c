------------------------- MODULE CoordinatorProofs -------------------------
(***************************************************************************)
(* Proofs about Coordinator, for every width, every number of data shards, *)
(* every body, window, credit and limit: what of a body is on a node, what *)
(* an acknowledged PUT and an answered GET mean, and that admission        *)
(* neither leaks nor double-frees a slot.  The pacing functions of put.go  *)
(* and the planning functions of get.go transform one record: what each of *)
(* them keeps is proved first, of any record (PutInv, GetInv), and applied *)
(* to the actions after that.                                              *)
(***************************************************************************)
EXTENDS Coordinator, TLAPS, FiniteSetTheorems, WellFoundedInduction

(***************************************************************************)
(* Least elements.                                                         *)
(***************************************************************************)
LEMMA LeastNatural ==
    ASSUME NEW S, S \subseteq Nat, S # {}
    PROVE  \E x \in S : \A y \in S : x <= y
<1>1. PICK x \in S : \A y \in S : ~(<< y, x >> \in OpToRel(<, Nat))
      BY Zenon, WFMin, NatLessThanWellFounded
<1>2. OpToRel(<, Nat) = {ss \in Nat \X Nat : ss[1] < ss[2]}
      BY Zenon DEF OpToRel
<1> DEFINE R == {ss \in Nat \X Nat : ss[1] < ss[2]}
<1>3. \A y \in S : << y, x >> \notin R
      BY <1>1, <1>2, Zenon
<1>4. \A y \in S : y < x => << y, x >> \in R
      OBVIOUS
<1>5. \A y \in S : x <= y
      <2>1. \A y \in S : ~(y < x)
            BY <1>3, <1>4, Zenon
      <2>2. \A y \in S : x \in Nat /\ y \in Nat
            OBVIOUS
      <2> QED BY <2>1, <2>2
<1> QED BY <1>5

LEMMA MinOfNaturals ==
    ASSUME NEW S, S \subseteq Nat, S # {}
    PROVE  Min(S) \in S /\ \A y \in S : Min(S) <= y
BY Zenon, LeastNatural DEF Min

LEMMA MinOfTwo ==
    ASSUME NEW a \in Nat, NEW b \in Nat
    PROVE  Min({a, b}) = IF a <= b THEN a ELSE b
<1>1. Min({a, b}) \in {a, b} /\ \A y \in {a, b} : Min({a, b}) <= y
      BY MinOfNaturals
<1> QED BY <1>1

LEMMA MaxOfTwo ==
    ASSUME NEW a \in Nat, NEW b \in Nat
    PROVE  Max({a, b}) = IF a >= b THEN a ELSE b
<1>1. \E x \in {a, b} : \A y \in {a, b} : x >= y
      OBVIOUS
<1>2. Max({a, b}) \in {a, b} /\ \A y \in {a, b} : Max({a, b}) >= y
      BY <1>1 DEF Max
<1> QED BY <1>2

(***************************************************************************)
(* The least n with at least k members of a set among 1..n has exactly k:  *)
(* a set of k or more shards has a first k.                                *)
(***************************************************************************)
LEMMA FirstOnes ==
    ASSUME NEW S \in SUBSET Index, NEW k \in Nat \ {0}, Cardinality(S) >= k
    PROVE  \E c \in SUBSET S : Cardinality(c) = k /\ \A i \in c, j \in S \ c : i < j
<1>0. Width \in Nat /\ S \in SUBSET (1..Width)
      BY CoordinatorAssumption DEF Index
<1> DEFINE Upto(n) == S \cap (1..n)
           T == {n \in Nat : Cardinality(Upto(n)) >= k}
<1>1. IsFiniteSet(S)
      <2>1. IsFiniteSet(1..Width)
            BY <1>0, FS_Interval
      <2> QED BY Zenon, <1>0, <2>1, FS_Subset
<1>2. \A n \in Nat : IsFiniteSet(Upto(n)) /\ Cardinality(Upto(n)) \in Nat
      BY <1>1, FS_Intersection, FS_CardinalityType
<1>3. Width \in T
      <2>1. Upto(Width) = S
            BY Zenon, <1>0
      <2> QED BY <1>0, <2>1
<1>4. PICK n \in T : \A m \in T : n <= m
      <2> HIDE DEF T
      <2>1. T \subseteq Nat
            BY DEF T
      <2> QED BY Zenon, <1>3, <2>1, LeastNatural
<1>5. n \in Nat \ {0}
      <2>1. Upto(0) = {}
            OBVIOUS
      <2>2. 0 \notin T
            BY <2>1, FS_EmptySet
      <2> QED BY <1>4, <2>2
<1>6. Cardinality(Upto(n - 1)) < k
      <2>1. n - 1 \in Nat /\ n - 1 \notin T
            BY <1>4, <1>5
      <2> QED BY <2>1, <1>2
<1>7. Cardinality(Upto(n)) <= Cardinality(Upto(n - 1)) + 1
      <2>1. CASE n \in S
        <3>1. Upto(n) = Upto(n - 1) \cup {n}
              BY <1>5, <2>1
        <3>2. n \notin Upto(n - 1) /\ IsFiniteSet(Upto(n - 1)) /\ Cardinality(Upto(n - 1)) \in Nat
              BY <1>2, <1>5
        <3>3. Cardinality(Upto(n - 1) \cup {n}) = Cardinality(Upto(n - 1)) + 1
              <4> HIDE DEF Upto
              <4> QED BY <3>2, FS_AddElement
        <3> HIDE DEF Upto
        <3> QED BY <3>1, <3>2, <3>3
      <2>2. CASE n \notin S
        <3>1. Upto(n) = Upto(n - 1)
              BY <1>5, <2>2
        <3> QED BY <3>1, <1>2, <1>5
      <2> QED BY <2>1, <2>2
<1>8. Cardinality(Upto(n)) = k
      <2>1. Cardinality(Upto(n)) \in Nat /\ Cardinality(Upto(n - 1)) \in Nat
            <3>1. n \in Nat /\ n - 1 \in Nat
                  BY <1>5
            <3> HIDE DEF Upto
            <3> QED BY <1>2, <3>1
      <2> QED BY <1>4, <1>6, <1>7, <2>1
<1>9. \A i \in Upto(n), j \in S \ Upto(n) : i < j
      BY <1>0, <1>5
<1> QED BY <1>8, <1>9

LEMMA CountUpto ==
    ASSUME NEW n \in Nat
    PROVE  IsFiniteSet(1..n) /\ Cardinality(1..n) = n
<1>1. Cardinality(1..n) = IF 1 > n THEN 0 ELSE n - 1 + 1
      BY FS_Interval
<1> QED BY <1>1, FS_Interval

LEMMA IndexFinite ==
    ASSUME NEW S \in SUBSET Index
    PROVE  IsFiniteSet(S) /\ Cardinality(S) \in Nat /\ Cardinality(S) <= Width
<1>1. Width \in Nat
      BY CoordinatorAssumption
<1>2. IsFiniteSet(Index) /\ Cardinality(Index) = Width
      BY <1>1, FS_Interval DEF Index
<1> QED BY <1>2, FS_Subset, FS_CardinalityType

(***************************************************************************)
(* What the feeder posts: chunks, and nothing after an end or an error.    *)
(***************************************************************************)
Messages == {"chunk", "eof", "abort"}

Orderly(p) == p \in Seq(Messages) /\ \A j \in 1..(Len(p) - 1) : p[j] = "chunk"

AllChunks(p) == p \in Seq(Messages) /\ \A j \in 1..Len(p) : p[j] = "chunk"

LEMMA PostedIs ==
    ASSUME NEW p, Orderly(p)
    PROVE  /\ AllChunks(p) => Posted(p) = Len(p)
           /\ ~AllChunks(p) => Len(p) > 0 /\ Posted(p) = Len(p) - 1
<1> USE DEF Orderly, AllChunks
<1>1. p \in Seq(Messages) /\ Len(p) \in Nat /\ DOMAIN p = 1..Len(p)
      OBVIOUS
<1>2. ASSUME AllChunks(p)
      PROVE  Posted(p) = Len(p)
      <2>1. {j \in DOMAIN p : p[j] = "chunk"} = 1..Len(p)
            BY <1>1, <1>2
      <2>2. Cardinality(1..Len(p)) = Len(p)
            BY <1>1, CountUpto
      <2> QED BY Zenon, <2>1, <2>2 DEF Posted
<1>3. ASSUME ~AllChunks(p)
      PROVE  Len(p) > 0 /\ Posted(p) = Len(p) - 1
      <2>1. Len(p) > 0 /\ p[Len(p)] # "chunk"
            BY <1>1, <1>3
      <2>2. {j \in DOMAIN p : p[j] = "chunk"} = 1..(Len(p) - 1)
            BY <1>1, <2>1
      <2>3. Cardinality(1..(Len(p) - 1)) = Len(p) - 1
            BY <1>1, <2>1, FS_Interval
      <2> QED BY Zenon, <2>1, <2>2, <2>3 DEF Posted
<1> QED BY <1>2, <1>3

LEMMA PostedTail ==
    ASSUME NEW p, Orderly(p), p # << >>
    PROVE  /\ Orderly(Tail(p)) /\ Posted(p) \in Nat /\ Posted(Tail(p)) \in Nat
           /\ Posted(p) = Posted(Tail(p)) + (IF Head(p) = "chunk" THEN 1 ELSE 0)
           /\ AllChunks(p) => AllChunks(Tail(p))
           /\ \A j \in 1..Len(Tail(p)) : Tail(p)[j] = p[j + 1]
           /\ Head(p) = p[1] /\ Head(p) \in Messages
           /\ Head(p) # "chunk" => Tail(p) = << >>
<1>1. /\ Len(p) \in Nat \ {0} /\ Len(Tail(p)) = Len(p) - 1 /\ Tail(p) \in Seq(Messages)
      /\ \A j \in 1..Len(Tail(p)) : Tail(p)[j] = p[j + 1]
      /\ Head(p) = p[1] /\ Head(p) \in Messages
      BY DEF Orderly
<1>2. Orderly(Tail(p)) /\ (AllChunks(p) => AllChunks(Tail(p)))
      BY <1>1 DEF Orderly, AllChunks
<1>3. Head(p) # "chunk" => Len(p) = 1
      BY <1>1 DEF Orderly
<1>4. ~AllChunks(p) /\ Head(p) = "chunk" => ~AllChunks(Tail(p))
      <2>1. ASSUME AllChunks(Tail(p)), Head(p) = "chunk"
            PROVE  AllChunks(p)
            <3>1. \A j \in 1..Len(p) : j = 1 \/ (j - 1 \in 1..Len(Tail(p)) /\ p[j] = Tail(p)[j - 1])
                  BY <1>1
            <3> QED BY Zenon, <3>1, <2>1, <1>1 DEF AllChunks, Orderly
      <2> QED BY <2>1
<1>5. AllChunks(p) => Head(p) = "chunk"
      BY <1>1 DEF AllChunks
<1>6. Head(p) # "chunk" => Tail(p) = << >> /\ AllChunks(Tail(p))
      BY <1>1, <1>3 DEF AllChunks
<1>7. Posted(p) = IF AllChunks(p) THEN Len(p) ELSE Len(p) - 1
      BY PostedIs
<1>8. Posted(Tail(p)) = IF AllChunks(Tail(p)) THEN Len(Tail(p)) ELSE Len(Tail(p)) - 1
      BY Zenon, <1>2, PostedIs
<1>9. ~AllChunks(Tail(p)) => Len(Tail(p)) > 0
      BY Zenon, <1>2, PostedIs
<1> QED BY <1>1, <1>2, <1>3, <1>4, <1>5, <1>6, <1>7, <1>8, <1>9

(***************************************************************************)
(* What holds of the PUT's record after any step.  Posted chunks and       *)
(* credits are covered by "outstanding" while the PUT is open, and by the  *)
(* window ever after; what was encoded, is buffered or is posted was read; *)
(* an end of the body is posted by a feeder that asks no more; a stream    *)
(* answered ok is durable; and only a failed PUT deletes.                  *)
(***************************************************************************)
PutRec ==
    [pc : {"idle", "open", "commit", "done"},
     result : {"none", "ok", "shed", "refused", "error"},
     pending : Nat, encoded : Nat, outstanding : Nat, eof : BOOLEAN, closed : BOOLEAN,
     stream : [Index -> {"none", "live", "skipped", "failed", "ok"}],
     buf : [Index -> 0..Window], held : [Index -> {"none", "sent", "durable"}],
     deleting : SUBSET Index, feeder : {"idle", "want", "wait", "done"},
     wants : Nat, read : 0..Chunks, posts : Seq(Messages), feedErr : BOOLEAN]

CreditInv(r) ==
    /\ r.outstanding + r.pending <= MaxOut
    /\ r.wants + Posted(r.posts) <= MaxOut
    /\ r.pc = "open" => r.wants + Posted(r.posts) <= r.outstanding
    /\ r.encoded + r.pending + Posted(r.posts) <= r.read

EndInv(r) ==
    /\ Orderly(r.posts)
    /\ r.feeder = "want" => AllChunks(r.posts) /\ ~r.eof /\ ~r.feedErr
    /\ r.feedErr => ~r.eof /\ \A j \in 1..Len(r.posts) : r.posts[j] # "eof"
    /\ r.closed => r.eof /\ r.encoded = Chunks

ShardInv(r) ==
    /\ \A i \in Index : r.stream[i] = "ok" => r.held[i] = "durable"
    /\ r.pc = "commit" \/ r.result = "ok" => r.closed /\ Count(r, {"ok"}) >= Floor
    /\ r.result = "none" <=> r.pc # "done"
    /\ r.pc # "done" \/ r.result = "ok" => r.deleting = {}
    /\ r.feeder = "done" => r.result # "none"

PutInv(r) == r \in PutRec /\ CreditInv(r) /\ EndInv(r) /\ ShardInv(r)

Constants ==
    /\ Width \in Nat /\ Chunks \in Nat /\ MaxOut \in Nat \ {0} /\ Window \in Nat
    /\ CloseNeed \in 1..Window

LEMMA ConstantTypes == Constants
BY CoordinatorAssumption DEF Constants

LEMMA PostedType ==
    ASSUME NEW p, Orderly(p)
    PROVE  Posted(p) \in Nat /\ Len(p) \in Nat /\ Len(p) <= Posted(p) + 1
<1>1. Len(p) \in Nat
      BY DEF Orderly
<1> QED BY <1>1, PostedIs

\* An end of the PUT that deletes: its record is well formed whatever it was.
LEMMA FailKeeps ==
    ASSUME NEW r, PutInv(r), NEW why \in {"refused", "error"}
    PROVE  /\ PutInv(fail(r, why)) /\ fail(r, why).pc = "done"
           /\ PutInv(abort(r, why)) /\ abort(r, why).pc = "done"
<1> DEFINE f == fail(r, why)
           a == abort(r, why)
<1>1. /\ f \in PutRec /\ f.pc = "done" /\ f.result = why
      /\ f.pending = r.pending /\ f.encoded = r.encoded /\ f.outstanding = r.outstanding
      /\ f.eof = r.eof /\ f.closed = r.closed /\ f.stream = r.stream /\ f.held = r.held
      /\ f.feeder = r.feeder /\ f.wants = r.wants /\ f.read = r.read /\ f.posts = r.posts
      /\ f.feedErr = r.feedErr
      BY Zenon DEF fail, cleanup, PutInv, PutRec
<1>2. /\ a \in PutRec /\ a.pc = "done" /\ a.result = why
      /\ a.pending = r.pending /\ a.encoded = r.encoded /\ a.outstanding = r.outstanding
      /\ a.eof = r.eof /\ a.closed = r.closed /\ a.held = r.held
      /\ a.stream = [i \in Index |-> IF i \in Live(r) THEN "failed" ELSE r.stream[i]]
      /\ a.feeder = r.feeder /\ a.wants = r.wants /\ a.read = r.read /\ a.posts = r.posts
      /\ a.feedErr = r.feedErr
      <2>1. [i \in Index |-> IF i \in Live(r) THEN "failed" ELSE r.stream[i]]
              \in [Index -> {"none", "live", "skipped", "failed", "ok"}]
            BY DEF PutInv, PutRec
      <2>2. a = [f EXCEPT !.stream = [i \in Index |-> IF i \in Live(r) THEN "failed" ELSE r.stream[i]]]
            BY Zenon, <1>1 DEF abort, PutRec
      <2> HIDE DEF f, a
      <2> QED BY Zenon, <1>1, <2>1, <2>2 DEF PutRec
<1> HIDE DEF f, a
<1>3. PutInv(f)
      BY <1>1 DEF PutInv, CreditInv, EndInv, ShardInv
<1>4. PutInv(a)
      BY <1>2 DEF PutInv, CreditInv, EndInv, ShardInv
<1> QED BY <1>1, <1>2, <1>3, <1>4 DEF f, a

\* The arithmetic of a post that is taken.
LEMMA TakenPost ==
    /\ \A a, u, v, m \in Nat : v <= u /\ a + u <= m => a + v <= m
    /\ \A a, b, u, v, m \in Nat : v <= u /\ a + b + u <= m => a + b + v <= m
    /\ \A a, b, v, m \in Nat : a + b + (v + 1) <= m => a + (b + 1) + v <= m
OBVIOUS

LEMMA PutNumbers ==
    ASSUME NEW r, PutInv(r)
    PROVE  /\ r \in PutRec
           /\ r.pending \in Nat /\ r.encoded \in Nat /\ r.outstanding \in Nat /\ r.wants \in Nat
           /\ r.read \in Nat /\ r.read <= Chunks /\ Posted(r.posts) \in Nat
           /\ MaxOut \in Nat /\ Chunks \in Nat /\ CreditInv(r)
<1>1. Posted(r.posts) \in Nat
      BY PostedType DEF PutInv, EndInv
<1>2. r \in PutRec /\ CreditInv(r)
      BY DEF PutInv
<1>3. Chunks \in Nat /\ MaxOut \in Nat
      BY ConstantTypes DEF Constants
<1>4. r.read \in 0..Chunks
      BY <1>2 DEF PutRec
<1> QED BY <1>1, <1>2, <1>3, <1>4 DEF PutRec

LEMMA ReplenishKeeps ==
    ASSUME NEW r, PutInv(r), r.pc = "open", r.pending = 0
    PROVE  PutInv(replenish(r)) /\ replenish(r).pc = "open"
<1> DEFINE w == r.wants + (MaxOut - r.outstanding)
           e == replenish(r)
<1>1. w \in Nat
      BY PutNumbers DEF CreditInv
<1>2. e = [r EXCEPT !.outstanding = MaxOut, !.wants = w]
      BY PutNumbers DEF replenish, PutRec
<1>3. w + Posted(r.posts) <= MaxOut
      BY PutNumbers DEF CreditInv
<1> HIDE DEF w, e
<1>4. /\ e \in PutRec /\ e.outstanding = MaxOut /\ e.wants = w
      /\ e.pc = r.pc /\ e.result = r.result /\ e.pending = r.pending /\ e.encoded = r.encoded
      /\ e.eof = r.eof /\ e.closed = r.closed /\ e.stream = r.stream /\ e.held = r.held
      /\ e.feeder = r.feeder /\ e.read = r.read /\ e.posts = r.posts
      /\ e.feedErr = r.feedErr /\ e.deleting = r.deleting
      <2>1. r \in PutRec /\ MaxOut \in Nat
            BY PutNumbers
      <2> QED BY Zenon, <1>1, <1>2, <2>1 DEF PutRec
<1>5. EndInv(e) /\ ShardInv(e)
      BY <1>4 DEF PutInv, EndInv, ShardInv, Count
<1>6. CreditInv(e)
      BY <1>3, <1>4, PutNumbers DEF CreditInv
<1> QED BY <1>4, <1>5, <1>6 DEF PutInv, e

LEMMA EncodeKeeps ==
    ASSUME NEW r, PutInv(r), ~r.closed
    PROVE  PutInv(Encode(r)) /\ Encode(r).pc = r.pc /\ Encode(r).closed = r.closed
<1> DEFINE S == {r.pending} \cup {Window - r.buf[i] : i \in Live(r)}
           n == Min(S)
           e == Encode(r)
<1>1. r \in PutRec /\ r.pending \in Nat /\ r.encoded \in Nat /\ r.buf \in [Index -> 0..Window]
      BY DEF PutInv, PutRec
<1>2. S \subseteq Nat /\ S # {}
      BY <1>1, ConstantTypes DEF Constants, Live
<1>3. n \in Nat /\ n <= r.pending /\ \A i \in Live(r) : n <= Window - r.buf[i]
      <2>1. n \in S /\ \A y \in S : n <= y
            <3> HIDE DEF S
            <3> QED BY Zenon, <1>2, MinOfNaturals
      <2> HIDE DEF n
      <2> QED BY <1>2, <2>1
<1>4. e = [r EXCEPT !.pending = @ - n, !.encoded = @ + n,
                    !.buf = [i \in Index |-> IF i \in Live(r) THEN @[i] + n ELSE @[i]]]
      BY DEF Encode
<1> HIDE DEF n, e
<1>5. [i \in Index |-> IF i \in Live(r) THEN r.buf[i] + n ELSE r.buf[i]] \in [Index -> 0..Window]
      BY <1>1, <1>3, ConstantTypes DEF Constants, Live
<1> DEFINE left == r.pending - n
           done == r.encoded + n
           full == [i \in Index |-> IF i \in Live(r) THEN r.buf[i] + n ELSE r.buf[i]]
<1>a. left \in Nat /\ done \in Nat /\ left + done = r.pending + r.encoded /\ left <= r.pending
      BY <1>1, <1>3
<1>b. e = [r EXCEPT !.pending = left, !.encoded = done, !.buf = full]
      BY <1>1, <1>4 DEF PutRec
<1> HIDE DEF left, done, full
<1>6. /\ e \in PutRec
      /\ e.pending = left /\ e.encoded = done
      /\ e.outstanding = r.outstanding /\ e.wants = r.wants
      /\ e.pc = r.pc /\ e.result = r.result
      /\ e.eof = r.eof /\ e.closed = r.closed /\ e.stream = r.stream /\ e.held = r.held
      /\ e.feeder = r.feeder /\ e.read = r.read /\ e.posts = r.posts
      /\ e.feedErr = r.feedErr /\ e.deleting = r.deleting
      BY Zenon, <1>1, <1>a, <1>b, <1>5 DEF PutRec, full
<1>7. EndInv(e) /\ ShardInv(e)
      BY <1>6 DEF PutInv, EndInv, ShardInv, Count
<1>8. CreditInv(e)
      BY <1>6, <1>a, PutNumbers DEF CreditInv
<1> QED BY <1>6, <1>7, <1>8 DEF PutInv, e

LEMMA CloseKeeps ==
    ASSUME NEW r, PutInv(r), r.pc = "open", r.eof
    PROVE  PutInv(Close(r)) /\ Close(r).pc \in {"open", "done"}
<1>1. CASE r.encoded # Chunks
      BY <1>1, FailKeeps DEF Close
<1>2. CASE r.encoded = Chunks
  <2> DEFINE e == Close(r)
  <2>1. r \in PutRec
        BY DEF PutInv
  <2>2. /\ e \in PutRec /\ e.closed = TRUE
        /\ e.held = [i \in Index |-> IF i \in Live(r) THEN "sent" ELSE r.held[i]]
        /\ e.pending = r.pending /\ e.encoded = r.encoded
        /\ e.outstanding = r.outstanding /\ e.wants = r.wants
        /\ e.pc = r.pc /\ e.result = r.result /\ e.eof = r.eof /\ e.stream = r.stream
        /\ e.feeder = r.feeder /\ e.read = r.read /\ e.posts = r.posts
        /\ e.feedErr = r.feedErr /\ e.deleting = r.deleting
        BY Zenon, <1>2, <2>1 DEF Close, PutRec
  <2> HIDE DEF e
  <2>3. EndInv(e) /\ CreditInv(e)
        BY <1>2, <2>2 DEF PutInv, EndInv, CreditInv
  <2>4. ShardInv(e)
        BY <2>1, <2>2 DEF PutInv, ShardInv, Live
  <2> QED BY <2>2, <2>3, <2>4 DEF PutInv, e
<1> QED BY <1>1, <1>2

LEMMA StepKeeps ==
    ASSUME NEW r, PutInv(r)
    PROVE  PutInv(step(r)) /\ step(r).pc \in {r.pc, "done"}
<1>1. CASE ~(r.pc = "open" /\ ~r.closed)
      BY <1>1 DEF step
<1>2. CASE r.pc = "open" /\ ~r.closed
  <2> DEFINE e == Encode(r)
  <2>1. PutInv(e) /\ e.pc = "open" /\ e.pending \in Nat
        BY <1>2, EncodeKeeps DEF PutInv, PutRec
  <2> HIDE DEF e
  <2>2. PutInv(Paced(e)) /\ Paced(e).pc \in {"open", "done"}
        BY <2>1, ReplenishKeeps, CloseKeeps DEF Paced
  <2> QED BY <1>2, <2>2 DEF step, e
<1> QED BY <1>1, <1>2

LEMMA FeedKeeps ==
    ASSUME NEW r, PutInv(r), r.posts # << >>
    PROVE  LET s == [r EXCEPT !.posts = Tail(@)]
           IN  /\ PutInv(s) /\ s.pc = r.pc
               /\ r.pc = "open" /\ Head(r.posts) = "chunk" =>
                    PutInv(Feed(s)) /\ Feed(s).pc \in {"open", "done"}
               /\ r.pc = "open" /\ Head(r.posts) = "eof" =>
                    PutInv(FeedEOF(s)) /\ FeedEOF(s).pc \in {"open", "done"}
               /\ PutInv(abort(s, "error")) /\ abort(s, "error").pc = "done"
               /\ Head(r.posts) \in Messages
<1> DEFINE s == [r EXCEPT !.posts = Tail(@)]
<1>0. r \in PutRec /\ Orderly(r.posts)
      BY DEF PutInv, EndInv
<1>1. /\ s \in PutRec /\ s.posts = Tail(r.posts)
      /\ s.outstanding = r.outstanding /\ s.wants = r.wants
      /\ s.pc = r.pc /\ s.result = r.result /\ s.pending = r.pending /\ s.encoded = r.encoded
      /\ s.eof = r.eof /\ s.closed = r.closed /\ s.stream = r.stream /\ s.held = r.held
      /\ s.feeder = r.feeder /\ s.read = r.read
      /\ s.feedErr = r.feedErr /\ s.deleting = r.deleting
      <2>1. Tail(r.posts) \in Seq(Messages)
            BY <1>0, PostedTail DEF Orderly
      <2> QED BY Zenon, <1>0, <2>1 DEF PutRec
<1> HIDE DEF s
<1>2. ShardInv(s)
      BY <1>1 DEF PutInv, ShardInv, Count
<1>3. EndInv(s)
      <2>1. Orderly(s.posts) /\ (AllChunks(r.posts) => AllChunks(s.posts))
            BY <1>0, <1>1, PostedTail
      <2>2. \A j \in 1..Len(s.posts) : s.posts[j] = r.posts[j + 1] /\ j + 1 \in 1..Len(r.posts)
            BY <1>0, <1>1, PostedTail DEF Orderly
      <2> QED BY <1>1, <2>1, <2>2 DEF PutInv, EndInv
<1>a. /\ Posted(r.posts) \in Nat /\ Posted(s.posts) \in Nat
      /\ Posted(r.posts) = Posted(s.posts) + (IF Head(r.posts) = "chunk" THEN 1 ELSE 0)
      BY <1>0, <1>1, PostedTail
<1>b. /\ r.pending \in Nat /\ r.encoded \in Nat /\ r.outstanding \in Nat /\ r.wants \in Nat
      /\ r.read \in Nat /\ MaxOut \in Nat /\ CreditInv(r)
      BY PutNumbers
<1>4. CreditInv(s)
      <2> DEFINE u == Posted(r.posts)
                 v == Posted(s.posts)
      <2>1. u \in Nat /\ v \in Nat /\ v <= u
            BY <1>a
      <2>a. r.wants + u <= MaxOut /\ r.encoded + r.pending + u <= r.read
            BY Zenon, <1>b DEF CreditInv
      <2> HIDE DEF u, v
      <2>b. r.wants + v <= MaxOut /\ r.encoded + r.pending + v <= r.read
            BY Zenon, <1>b, <2>1, <2>a, TakenPost
      <2>2. /\ r.outstanding + r.pending <= MaxOut
            /\ r.wants + Posted(s.posts) <= MaxOut
            /\ r.encoded + r.pending + Posted(s.posts) <= r.read
            BY Zenon, <1>b, <2>b DEF CreditInv, v
      <2> USE DEF u, v
      <2>3. r.pc = "open" => r.wants + Posted(s.posts) <= r.outstanding
            BY Zenon, <1>b, <2>1, TakenPost DEF CreditInv
      <2> QED BY <1>1, <2>2, <2>3 DEF CreditInv
<1>5. PutInv(s)
      BY <1>1, <1>2, <1>3, <1>4 DEF PutInv
<1>6. ASSUME r.pc = "open", Head(r.posts) = "chunk"
      PROVE  PutInv(Feed(s)) /\ Feed(s).pc \in {"open", "done"}
  <2> DEFINE more == s.pending + 1
             left == IF s.outstanding > 0 THEN s.outstanding - 1 ELSE 0
             g == [s EXCEPT !.pending = more, !.outstanding = left]
  <2>1. /\ more \in Nat /\ left \in Nat /\ more + left <= MaxOut
        /\ s.wants + Posted(s.posts) <= left
        /\ s.encoded + more + Posted(s.posts) <= s.read
        <3>1. Posted(r.posts) = Posted(s.posts) + 1
              BY <1>6, <1>a
        <3>2. /\ r.wants + Posted(r.posts) <= r.outstanding
              /\ r.outstanding + r.pending <= MaxOut
              /\ r.encoded + r.pending + Posted(r.posts) <= r.read
              BY <1>6, <1>b DEF CreditInv
        <3>3. r.outstanding > 0 /\ left = r.outstanding - 1 /\ more = r.pending + 1
              BY <1>1, <1>a, <1>b, <3>1, <3>2
        <3> HIDE DEF left, more
        <3>a. PICK p, o, w, q, c \in Nat :
                 /\ p = r.pending /\ o = r.outstanding /\ w = r.wants /\ q = Posted(s.posts)
                 /\ c = MaxOut
              BY <1>a, <1>b
        <3>b. o > 0 /\ left = o - 1 /\ more = p + 1 /\ o + p <= c /\ w + (q + 1) <= o
              BY <3>1, <3>2, <3>3, <3>a
        <3>c. p + 1 \in Nat /\ o - 1 \in Nat /\ (p + 1) + (o - 1) <= c /\ w + q <= o - 1
              BY <3>b
        <3>4. more \in Nat /\ left \in Nat /\ more + left <= MaxOut
              BY <3>a, <3>b, <3>c, Zenon
        <3>5. r.wants + Posted(s.posts) <= left
              BY <3>a, <3>b, <3>c, Zenon
        <3>6. r.encoded + more + Posted(s.posts) <= r.read
          <4>1. r.encoded + r.pending + (Posted(s.posts) + 1) <= r.read
                BY Zenon, <3>1, <3>2
          <4>2. r.encoded + (r.pending + 1) + Posted(s.posts) <= r.read
                BY Zenon, <4>1, <1>a, <1>b, TakenPost
          <4> QED BY Zenon, <4>2, <3>3
        <3> QED BY <1>1, <3>4, <3>5, <3>6
  <2>2. Feed(s) = step(g)
        BY <1>1 DEF Feed, PutRec
  <2> HIDE DEF more, left
  <2>3. /\ g \in PutRec /\ g.posts = s.posts /\ g.outstanding = left /\ g.wants = s.wants
        /\ g.pc = s.pc /\ g.result = s.result /\ g.pending = more /\ g.encoded = s.encoded
        /\ g.eof = s.eof /\ g.closed = s.closed /\ g.stream = s.stream /\ g.held = s.held
        /\ g.feeder = s.feeder /\ g.read = s.read
        /\ g.feedErr = s.feedErr /\ g.deleting = s.deleting
        BY Zenon, <1>1, <2>1 DEF PutRec
  <2> HIDE DEF g
  <2>4. EndInv(g) /\ ShardInv(g)
        BY <1>2, <1>3, <2>3 DEF EndInv, ShardInv, Count
  <2>5. CreditInv(g)
        BY <1>4, <2>1, <2>3 DEF CreditInv
  <2>6. PutInv(g)
        BY <2>3, <2>4, <2>5 DEF PutInv
  <2> QED BY <1>1, <1>6, <2>2, <2>3, <2>6, StepKeeps
<1>7. ASSUME r.pc = "open", Head(r.posts) = "eof"
      PROVE  PutInv(FeedEOF(s)) /\ FeedEOF(s).pc \in {"open", "done"}
  <2> DEFINE g == [s EXCEPT !.eof = TRUE]
  <2>1. /\ g \in PutRec /\ g.posts = s.posts /\ g.outstanding = s.outstanding /\ g.wants = s.wants
        /\ g.pc = s.pc /\ g.result = s.result /\ g.pending = s.pending /\ g.encoded = s.encoded
        /\ g.eof = TRUE /\ g.closed = s.closed /\ g.stream = s.stream /\ g.held = s.held
        /\ g.feeder = s.feeder /\ g.read = s.read
        /\ g.feedErr = s.feedErr /\ g.deleting = s.deleting
        BY Zenon, <1>1 DEF PutRec
  <2> HIDE DEF g
  <2>2. CreditInv(g) /\ ShardInv(g)
        BY <1>2, <1>4, <2>1 DEF CreditInv, ShardInv, Count
  <2>3. ~r.feedErr /\ r.feeder # "want"
        <3>1. r.posts[1] = "eof" /\ 1 \in 1..Len(r.posts)
              BY <1>0, <1>7, PostedTail DEF Orderly
        <3> QED BY <3>1 DEF PutInv, EndInv, AllChunks
  <2>4. EndInv(g)
        BY <1>1, <1>3, <2>1, <2>3 DEF EndInv
  <2>5. PutInv(g)
        BY <2>1, <2>2, <2>4 DEF PutInv
  <2> QED BY ZenonT(40), <1>1, <1>7, <2>1, <2>5, StepKeeps DEF FeedEOF, g
<1>8. Head(r.posts) \in Messages
      BY <1>0, PostedTail
<1>9. PutInv(abort(s, "error")) /\ abort(s, "error").pc = "done"
      BY <1>5, FailKeeps
<1> QED BY <1>1, <1>5, <1>6, <1>7, <1>8, <1>9 DEF s

LEMMA FloorType ==
    ASSUME op \in Ops
    PROVE  K \in Nat /\ K \in 1..Width /\ Floor \in Nat /\ \A r, S : Count(r, S) \in Nat
<1>1. K \in 1..Width /\ Width \in Nat
      BY CoordinatorAssumption DEF K, Ops
<1>2. \A r, S : Count(r, S) \in Nat
      BY IndexFinite DEF Count
<1> QED BY <1>1, <1>2 DEF Floor

LEMMA EvaluateKeeps ==
    ASSUME op \in Ops, NEW r, PutInv(r), r.pc = "open"
    PROVE  PutInv(evaluate(r)) /\ evaluate(r).pc \in {"commit", "done"}
<1>1. CASE Count(r, {"ok"}) < Floor \/ ~r.closed
      BY <1>1, FailKeeps DEF evaluate
<1>2. CASE ~(Count(r, {"ok"}) < Floor \/ ~r.closed)
  <2> DEFINE e == [r EXCEPT !.pc = "commit"]
  <2>1. e = evaluate(r)
        BY <1>2 DEF evaluate
  <2>2. r \in PutRec
        BY DEF PutInv
  <2>3. /\ e \in PutRec /\ e.posts = r.posts /\ e.outstanding = r.outstanding /\ e.wants = r.wants
        /\ e.pc = "commit" /\ e.result = r.result /\ e.pending = r.pending /\ e.encoded = r.encoded
        /\ e.eof = r.eof /\ e.closed = r.closed /\ e.stream = r.stream /\ e.held = r.held
        /\ e.feeder = r.feeder /\ e.read = r.read
        /\ e.feedErr = r.feedErr /\ e.deleting = r.deleting
        BY Zenon, <2>2 DEF PutRec
  <2> HIDE DEF e
  <2>4. Count(e, {"ok"}) = Count(r, {"ok"}) /\ Count(r, {"ok"}) >= Floor /\ r.closed
        <3>1. Count(e, {"ok"}) = Count(r, {"ok"})
              BY <2>3 DEF Count
        <3>2. Count(r, {"ok"}) \in Nat /\ Floor \in Nat
              BY FloorType
        <3> QED BY <1>2, <3>1, <3>2
  <2>5. CreditInv(e) /\ EndInv(e)
        BY <2>3 DEF PutInv, CreditInv, EndInv
  <2>6. ShardInv(e)
        BY <2>3, <2>4 DEF PutInv, ShardInv
  <2> QED BY <2>1, <2>3, <2>5, <2>6 DEF PutInv
<1> QED BY <1>1, <1>2

LEMMA StreamDoneKeeps ==
    ASSUME op \in Ops, NEW r, PutInv(r), r.pc = "open", NEW i \in Index,
           NEW outcome \in {"ok", "unreachable", "error"},
           outcome = "ok" => r.held[i] = "durable"
    PROVE  /\ PutInv(streamDone(r, i, outcome))
           /\ streamDone(r, i, outcome).pc \in {"open", "commit", "done"}
<1> DEFINE to == IF outcome = "ok" THEN "ok" ELSE "failed"
           s == [r EXCEPT !.stream[i] = to]
<1>1. r \in PutRec /\ to \in {"ok", "failed"} /\ (to = "ok" => outcome = "ok")
      BY DEF PutInv
<1> HIDE DEF to
<1>2. /\ s \in PutRec /\ s.posts = r.posts /\ s.outstanding = r.outstanding /\ s.wants = r.wants
      /\ s.pc = r.pc /\ s.result = r.result /\ s.pending = r.pending /\ s.encoded = r.encoded
      /\ s.eof = r.eof /\ s.closed = r.closed /\ s.stream = [r.stream EXCEPT ![i] = to]
      /\ s.held = r.held /\ s.feeder = r.feeder /\ s.read = r.read
      /\ s.feedErr = r.feedErr /\ s.deleting = r.deleting
      BY Zenon, <1>1 DEF PutRec
<1> HIDE DEF s
<1>3. CreditInv(s) /\ EndInv(s)
      BY <1>2 DEF PutInv, CreditInv, EndInv
<1>4. \A j \in Index : s.stream[j] = "ok" => s.held[j] = "durable"
      BY <1>1, <1>2 DEF PutInv, ShardInv, PutRec
<1>5. ShardInv(s)
      BY <1>2, <1>4 DEF PutInv, ShardInv
<1>6. PutInv(s) /\ s.pc = "open"
      BY <1>2, <1>3, <1>5 DEF PutInv
<1>7. /\ PutInv(evaluate(s)) /\ PutInv(abort(s, "refused")) /\ PutInv(step(s))
      /\ evaluate(s).pc \in {"commit", "done"} /\ abort(s, "refused").pc = "done"
      /\ step(s).pc \in {"open", "done"}
      BY <1>6, EvaluateKeeps, FailKeeps, StepKeeps
<1> QED BY <1>7 DEF streamDone, s, to

(***************************************************************************)
(* The steps that touch the PUT outside the pacing.                        *)
(***************************************************************************)
LEMMA AckKeeps ==
    ASSUME NEW r, PutInv(r), NEW i \in Index, NEW left \in 0..(r.buf[i] - 1)
    PROVE  PutInv([r EXCEPT !.buf[i] = left])
<1> DEFINE e == [r EXCEPT !.buf[i] = left]
<1>1. r \in PutRec
      BY DEF PutInv
<1>2. r.buf \in [Index -> 0..Window] /\ Window \in Nat
      BY <1>1, ConstantTypes DEF PutRec, Constants
<1>3. [r.buf EXCEPT ![i] = left] \in [Index -> 0..Window]
      BY <1>2
<1>4. /\ e \in PutRec /\ e.posts = r.posts /\ e.outstanding = r.outstanding /\ e.wants = r.wants
      /\ e.pc = r.pc /\ e.result = r.result /\ e.pending = r.pending /\ e.encoded = r.encoded
      /\ e.eof = r.eof /\ e.closed = r.closed /\ e.stream = r.stream /\ e.held = r.held
      /\ e.feeder = r.feeder /\ e.read = r.read
      /\ e.feedErr = r.feedErr /\ e.deleting = r.deleting
      BY Zenon, <1>1, <1>3 DEF PutRec
<1> HIDE DEF e
<1>5. PutInv(e)
      BY SMTT(30), <1>4 DEF PutInv, CreditInv, EndInv, ShardInv, Count
<1> QED BY <1>5 DEF e

LEMMA HolderKeeps ==
    ASSUME NEW r, PutInv(r), NEW i \in Index
    PROVE  PutInv([r EXCEPT !.held[i] = "durable"])
<1> DEFINE e == [r EXCEPT !.held[i] = "durable"]
<1>1. r \in PutRec
      BY DEF PutInv
<1>2. /\ e \in PutRec /\ e.posts = r.posts /\ e.outstanding = r.outstanding /\ e.wants = r.wants
      /\ e.pc = r.pc /\ e.result = r.result /\ e.pending = r.pending /\ e.encoded = r.encoded
      /\ e.eof = r.eof /\ e.closed = r.closed /\ e.stream = r.stream
      /\ e.held = [r.held EXCEPT ![i] = "durable"]
      /\ e.feeder = r.feeder /\ e.read = r.read
      /\ e.feedErr = r.feedErr /\ e.deleting = r.deleting
      BY Zenon, <1>1 DEF PutRec
<1> HIDE DEF e
<1>3. \A j \in Index : e.stream[j] = "ok" => e.held[j] = "durable"
      BY <1>1, <1>2 DEF PutInv, ShardInv, PutRec
<1>4. PutInv(e)
      BY SMTT(30), <1>2, <1>3 DEF PutInv, CreditInv, EndInv, ShardInv, Count
<1> QED BY <1>4 DEF e

\* What the feeder posts after a read keeps the posts in order.
LEMMA PostingKeeps ==
    ASSUME NEW p, AllChunks(p)
    PROVE  /\ AllChunks(p \o << "chunk" >>) /\ Posted(p \o << "chunk" >>) = Posted(p) + 1
           /\ Orderly(p \o << "chunk", "eof" >>)
           /\ Posted(p \o << "chunk", "eof" >>) = Posted(p) + 1
           /\ Orderly(p \o << "eof" >>) /\ Posted(p \o << "eof" >>) = Posted(p)
           /\ Orderly(p \o << "abort" >>) /\ Posted(p \o << "abort" >>) = Posted(p)
           /\ \A j \in 1..Len(p \o << "abort" >>) : (p \o << "abort" >>)[j] # "eof"
           /\ \A q : AllChunks(q) => Orderly(q)
<1>1. \A q : AllChunks(q) => Orderly(q)
      BY DEF AllChunks, Orderly
<1>2. /\ p \in Seq(Messages) /\ Len(p) \in Nat /\ Posted(p) = Len(p)
      /\ \A j \in 1..Len(p) : p[j] = "chunk"
      BY <1>1, PostedIs DEF AllChunks
<1>3. ASSUME NEW m \in Messages
      PROVE  /\ p \o << m >> \in Seq(Messages) /\ Len(p \o << m >>) = Len(p) + 1
             /\ \A j \in 1..(Len(p) + 1) : (p \o << m >>)[j] = IF j <= Len(p) THEN "chunk" ELSE m
      BY <1>2
<1>4. AllChunks(p \o << "chunk" >>)
      BY <1>2, <1>3 DEF AllChunks, Messages
<1>5. \A m \in {"eof", "abort"} : Orderly(p \o << m >>) /\ ~AllChunks(p \o << m >>)
      BY <1>2, <1>3 DEF Orderly, AllChunks, Messages
<1>6. /\ Orderly(p \o << "chunk", "eof" >>) /\ ~AllChunks(p \o << "chunk", "eof" >>)
      /\ Len(p \o << "chunk", "eof" >>) = Len(p) + 2
  <2> DEFINE q == p \o << "chunk", "eof" >>
  <2>1. << "chunk", "eof" >> \in Seq(Messages)
        BY DEF Messages
  <2>2. q \in Seq(Messages) /\ Len(q) = Len(p) + 2
        BY <1>2, <2>1
  <2>3. \A j \in 1..Len(q) : q[j] = IF j <= Len(p) THEN p[j] ELSE << "chunk", "eof" >>[j - Len(p)]
        BY <1>2, <2>1
  <2>4. q[Len(p) + 2] = "eof" /\ q[Len(p) + 1] = "chunk"
        BY <1>2, <2>2, <2>3
  <2> HIDE DEF q
  <2>5. \A j \in 1..(Len(p) + 1) : q[j] = "chunk"
        BY <1>2, <2>2, <2>3, <2>4
  <2>6. Orderly(q) /\ ~AllChunks(q)
        BY <1>2, <2>2, <2>4, <2>5 DEF Orderly, AllChunks
  <2> QED BY <2>2, <2>6 DEF q
<1>7. Posted(p \o << "chunk" >>) = Posted(p) + 1
      <2>1. Posted(p \o << "chunk" >>) = Len(p \o << "chunk" >>)
            BY Zenon, <1>1, <1>4, PostedIs
      <2> QED BY <1>2, <1>3, <2>1 DEF Messages
<1>8. \A m \in {"eof", "abort"} : Posted(p \o << m >>) = Posted(p)
      <2> TAKE m \in {"eof", "abort"}
      <2>1. Posted(p \o << m >>) = Len(p \o << m >>) - 1
            BY Zenon, <1>5, PostedIs
      <2> QED BY <1>2, <1>3, <2>1 DEF Messages
<1>9. Posted(p \o << "chunk", "eof" >>) = Posted(p) + 1
      <2>1. Posted(p \o << "chunk", "eof" >>) = Len(p \o << "chunk", "eof" >>) - 1
            BY Zenon, <1>6, PostedIs
      <2> QED BY <1>2, <1>6, <2>1
<1>10. \A j \in 1..Len(p \o << "abort" >>) : (p \o << "abort" >>)[j] # "eof"
      BY <1>2, <1>3 DEF Messages
<1> QED BY <1>1, <1>4, <1>5, <1>6, <1>7, <1>8, <1>9, <1>10

\* The record after a read: the posts q, what was read, the feeder's place.
Fed(r, q, rd, fd, err) ==
    [r EXCEPT !.wants = @ - 1, !.posts = q, !.read = rd, !.feeder = fd, !.feedErr = err]

LEMMA FeederKeeps ==
    ASSUME NEW r, PutInv(r), r.feeder = "want", r.wants > 0,
           NEW q \in Seq(Messages), NEW rd \in 0..Chunks,
           NEW fd \in {"want", "wait"}, NEW err \in BOOLEAN,
           Orderly(q), fd = "want" => AllChunks(q) /\ ~err,
           err => \A j \in 1..Len(q) : q[j] # "eof",
           \/ Posted(q) = Posted(r.posts) + 1 /\ rd = r.read + 1
           \/ Posted(q) = Posted(r.posts) /\ rd = r.read
    PROVE  /\ PutInv(Fed(r, q, rd, fd, err))
           /\ Fed(r, q, rd, fd, err).pc = r.pc /\ Fed(r, q, rd, fd, err).result = r.result
<1> DEFINE w == r.wants - 1
           e == Fed(r, q, rd, fd, err)
<1>1. w \in Nat /\ w + 1 = r.wants
      BY PutNumbers
<1>2. r \in PutRec
      BY DEF PutInv
<1>3. e = [r EXCEPT !.wants = w, !.posts = q, !.read = rd, !.feeder = fd, !.feedErr = err]
      BY <1>2 DEF PutRec, Fed
<1> HIDE DEF w, e
<1>4. /\ e \in PutRec /\ e.posts = q /\ e.outstanding = r.outstanding /\ e.wants = w
      /\ e.pc = r.pc /\ e.result = r.result /\ e.pending = r.pending /\ e.encoded = r.encoded
      /\ e.eof = r.eof /\ e.closed = r.closed /\ e.stream = r.stream /\ e.held = r.held
      /\ e.feeder = fd /\ e.read = rd
      /\ e.feedErr = err /\ e.deleting = r.deleting
      BY Zenon, <1>1, <1>2, <1>3 DEF PutRec
<1>5. ShardInv(e)
      BY <1>4 DEF PutInv, ShardInv, Count
<1>6. EndInv(e)
      BY <1>4 DEF PutInv, EndInv
<1>7. CreditInv(e)
  <2>1. /\ r.pending \in Nat /\ r.encoded \in Nat /\ r.outstanding \in Nat /\ r.wants \in Nat
        /\ r.read \in Nat /\ Posted(r.posts) \in Nat /\ MaxOut \in Nat /\ CreditInv(r)
        BY PutNumbers
  <2>2. w + Posted(q) <= r.wants + Posted(r.posts) /\ Posted(q) \in Nat
        BY <1>1, <2>1
  <2>3. r.encoded + r.pending + Posted(q) <= rd
    <3>1. \A a, b, c, d \in Nat : a + b + c <= d => a + b + (c + 1) <= d + 1
          OBVIOUS
    <3>2. r.encoded + r.pending + Posted(r.posts) <= r.read
          BY <2>1 DEF CreditInv
    <3> QED BY <2>1, <3>1, <3>2
  <2> QED BY <1>1, <1>4, <2>1, <2>2, <2>3 DEF CreditInv
<1> QED BY <1>4, <1>5, <1>6, <1>7 DEF PutInv, e

(***************************************************************************)
(* The GET's record.  Its type is the one the type invariant states.       *)
(***************************************************************************)
Honest(r) ==
    /\ r.result = "ok" =>
         /\ r.part = Parts /\ Cardinality(r.used) >= K
         /\ r.used \cap r.rotten = {} /\ r.used \cap r.failed = {}
    /\ r.result = "unreadable" => r.probes = {} \/ Answered(r) \cap r.failed # {}

GetInv(r) ==
    /\ r \in GetRecord
    /\ r.result = "none" <=> r.pc # "done"
    /\ r.pc = "slices" =>
         /\ r.fetching \subseteq Answered(r)
         /\ Cardinality(Index \ r.failed) >= K \/ Answered(r) \cap r.failed # {}
    /\ Honest(r)

LEMMA FetchHeadersKeeps ==
    ASSUME NEW r \in GetRecord, r.result = "none", r.part < Parts, NEW s \in fetchHeaders(r)
    PROVE  GetInv(s) /\ s.pc = "headers"
<1>1. PICK l \in Sightings :
        s = [r EXCEPT !.pc = "headers", !.part = @ + 1, !.rotten = l.rotten,
                      !.held = Index \X {l.home}, !.probes = Index \X l.asked,
                      !.source = NoGet.source, !.failed = {}, !.used = {}]
      BY Zenon DEF fetchHeaders
<1> DEFINE next == r.part + 1
           rot == l.rotten
           held == Index \X {l.home}
           probes == Index \X l.asked
           source == NoGet.source
<1>2. /\ rot \in SUBSET Index /\ held \in SUBSET (Index \X Homes)
      /\ probes \in SUBSET (Index \X Homes) /\ source \in [Index -> Homes \cup {"none"}]
      BY DEF Sightings, Homes, Rots, NoGet
<1>3. next \in 0..Parts
      BY CoordinatorAssumption DEF GetRecord
<1>4. s = [r EXCEPT !.pc = "headers", !.part = next, !.rotten = rot, !.held = held,
                    !.probes = probes, !.source = source, !.failed = {}, !.used = {}]
      BY <1>1 DEF GetRecord
<1> HIDE DEF next, rot, held, probes, source
<1>5. s \in GetRecord /\ s.pc = "headers" /\ s.result = "none"
      BY Zenon, <1>2, <1>3, <1>4 DEF GetRecord
<1> QED BY <1>5 DEF GetInv, Honest

LEMMA PlanKeeps ==
    ASSUME op \in Ops, NEW r \in GetRecord, r.pc = "headers", r.result = "none",
           r.probes = {} \/ Cardinality(Answered(r)) >= K,
           NEW bad \in SUBSET (r.rotten \cap Answered(r))
    PROVE  GetInv(planSlices(r, bad))
<1> DEFINE fronts == Answered(r) \ bad
           out == Index \ fronts
           e == planSlices(r, bad)
<1>1. fronts \in SUBSET Index /\ out \in SUBSET Index /\ Answered(r) \in SUBSET Index
      BY DEF Answered
<1>2. Cardinality(fronts) \in Nat /\ K \in Nat
      BY <1>1, IndexFinite, FloorType
<1>3. CASE Cardinality(fronts) < K
  <2>1. e = [r EXCEPT !.failed = out, !.held = {}, !.pc = "done", !.result = "unreadable"]
        BY <1>3 DEF planSlices, GetRecord
  <2>2. r.probes = {} \/ Answered(r) \cap out # {}
        <3>1. CASE Cardinality(Answered(r)) >= K
              BY <1>1, <1>2, <1>3, <3>1
        <3> QED BY <3>1
  <2> HIDE DEF out, e
  <2>3. /\ e \in GetRecord /\ e.pc = "done" /\ e.result = "unreadable" /\ e.failed = out
        /\ e.probes = r.probes /\ e.source = r.source
        BY Zenon, <1>1, <2>1 DEF GetRecord
  <2>4. GetInv(e)
        BY <2>2, <2>3 DEF GetInv, Honest, Answered
  <2> QED BY <2>4 DEF e
<1>4. CASE ~(Cardinality(fronts) < K)
  <2>1. e = [r EXCEPT !.failed = out, !.held = {}, !.pc = "slices", !.fetching = fronts]
        BY <1>4 DEF planSlices, GetRecord
  <2>2. Index \ out = fronts /\ fronts \subseteq Answered(r)
        BY <1>1
  <2> HIDE DEF out, e, fronts
  <2>3. /\ e \in GetRecord /\ e.pc = "slices" /\ e.result = "none" /\ e.failed = out
        /\ e.fetching = fronts /\ e.source = r.source
        BY Zenon, <1>1, <2>1 DEF GetRecord
  <2>4. Answered(e) = Answered(r)
        BY Zenon, <2>3 DEF Answered
  <2>5. e.fetching \subseteq Answered(e) /\ Cardinality(Index \ e.failed) >= K
        BY <1>2, <1>4, <2>2, <2>3, <2>4
  <2>6. GetInv(e)
        BY Zenon, <2>3, <2>5 DEF GetInv, Honest
  <2> QED BY <2>6 DEF e
<1> QED BY <1>3, <1>4

LEMMA ChosenIsFirst ==
    ASSUME op \in Ops, NEW present \in SUBSET Index, Cardinality(present) >= K
    PROVE  Chosen(present) \subseteq present /\ Cardinality(Chosen(present)) = K
<1>1. K \in Nat \ {0} /\ Width \in Nat
      BY FloorType, ConstantTypes DEF Constants
<1>2. CASE 1..K \subseteq present
      BY <1>1, <1>2, CountUpto DEF Chosen
<1>3. CASE ~(1..K \subseteq present)
  <2>1. \E c \in SUBSET present :
          Cardinality(c) = K /\ \A i \in c, j \in present \ c : i < j
        BY <1>1, FirstOnes, Zenon
  <2> QED BY <1>3, <2>1 DEF Chosen
<1> QED BY <1>2, <1>3

LEMMA AssembleKeeps ==
    ASSUME op \in Ops, NEW r, GetInv(r), r.pc = "slices", NEW s \in assemble(r)
    PROVE  GetInv(s) /\ s.pc \in {"headers", "done"}
<1> DEFINE present == Index \ r.failed
           c == Chosen(present)
<1>1. /\ r \in GetRecord /\ r.result = "none" /\ present \in SUBSET Index
      /\ Cardinality(present) \in Nat /\ K \in Nat
      BY IndexFinite, FloorType DEF GetInv
<1>2. CASE Cardinality(present) < K
  <2>1. s = [r EXCEPT !.pc = "done", !.result = "unreadable"]
        BY <1>2 DEF assemble
  <2>2. Answered(r) \cap r.failed # {}
        BY <1>1, <1>2 DEF GetInv
  <2>3. /\ s \in GetRecord /\ s.pc = "done" /\ s.result = "unreadable" /\ s.failed = r.failed
        /\ s.source = r.source
        BY Zenon, <1>1, <2>1 DEF GetRecord
  <2> QED BY <2>2, <2>3 DEF GetInv, Honest, Answered
<1>3. CASE ~(Cardinality(present) < K)
  <2>1. c \subseteq present /\ Cardinality(c) = K /\ c \in SUBSET Index
        <3>1. Cardinality(present) >= K
              BY <1>1, <1>3
        <3> QED BY Zenon, <1>1, <3>1, ChosenIsFirst
  <2> HIDE DEF c
  <2>2. CASE c \cap r.rotten # {}
    <3>1. s = [r EXCEPT !.pc = "done", !.result = "error", !.used = c]
          BY <1>3, <2>2 DEF assemble, c
    <3>2. s \in GetRecord /\ s.pc = "done" /\ s.result = "error"
          BY Zenon, <1>1, <2>1, <3>1 DEF GetRecord
    <3> QED BY <3>2 DEF GetInv, Honest
  <2>3. CASE c \cap r.rotten = {} /\ r.part < Parts
    <3>1. s \in fetchHeaders(r)
          BY <1>3, <2>3 DEF assemble, c
    <3> QED BY <1>1, <2>3, <3>1, FetchHeadersKeeps
  <2>4. CASE c \cap r.rotten = {} /\ ~(r.part < Parts)
    <3>1. s = [r EXCEPT !.pc = "done", !.result = "ok", !.used = c]
          BY <1>3, <2>4 DEF assemble, c
    <3>2. r.part = Parts
          BY <1>1, <2>4, CoordinatorAssumption DEF GetRecord
    <3>3. /\ s \in GetRecord /\ s.pc = "done" /\ s.result = "ok" /\ s.failed = r.failed
          /\ s.rotten = r.rotten /\ s.part = r.part /\ s.used = c
          BY Zenon, <1>1, <2>1, <3>1 DEF GetRecord
    <3> QED BY <1>1, <2>1, <2>4, <3>2, <3>3 DEF GetInv, Honest
  <2> QED BY <2>2, <2>3, <2>4
<1> QED BY <1>2, <1>3
-----------------------------------------------------------------------------

(***************************************************************************)
(* The inductive invariant.                                                *)
(***************************************************************************)
LimiterType == [limit : LimiterFloor..LimiterCeiling, inflight : 0..LimiterCeiling]

Admitted == IF Busy THEN 1 ELSE 0

Inv ==
    /\ op \in Ops /\ PutInv(put) /\ GetInv(get)
    /\ limiter \in LimiterType /\ limiter.inflight = others + Admitted
    /\ others \in 0..MaxOthers /\ down \subseteq Index
    /\ op = "put" => get.pc = "idle"
    /\ op = "get" => put.pc = "idle"

LEMMA LimiterConstants ==
    /\ LimiterFloor \in Nat \ {0} /\ LimiterCeiling \in Nat \ {0} /\ LimiterStart \in Nat
    /\ LimiterFloor <= LimiterStart /\ LimiterStart <= LimiterCeiling /\ MaxOthers \in Nat
BY CoordinatorAssumption

LEMMA ReleasedType ==
    ASSUME NEW l, l.limit \in LimiterFloor..LimiterCeiling, l.inflight \in Nat,
           l.inflight - 1 <= LimiterCeiling, l.inflight > 0, NEW headroom \in BOOLEAN
    PROVE  /\ Released(l, headroom) \in LimiterType
           /\ Released(l, headroom).inflight = l.inflight - 1
<1> DEFINE up == Min({l.limit + 1, LimiterCeiling})
           less == (l.limit * 9) \div 10
           dn == Max({LimiterFloor, less})
<1>1. less \in Nat /\ less <= l.limit
      BY LimiterConstants
<1>2. up \in LimiterFloor..LimiterCeiling
      BY LimiterConstants, MinOfTwo
<1>3. dn \in LimiterFloor..LimiterCeiling
      <2> HIDE DEF less
      <2> QED BY <1>1, LimiterConstants, MaxOfTwo
<1> HIDE DEF up, dn
<1>4. Released(l, headroom) = [inflight |-> l.inflight - 1, limit |-> IF headroom THEN up ELSE dn]
      BY DEF Released, up, dn
<1> QED BY <1>2, <1>3, <1>4, LimiterConstants DEF LimiterType

LEMMA LimiterSteps ==
    ASSUME Inv
    PROVE  /\ tryAcquire => limiter' \in LimiterType /\ limiter'.inflight = limiter.inflight + 1
           /\ AcquiredAndReleased =>
                limiter' \in LimiterType /\ limiter'.inflight = limiter.inflight
           /\ release /\ limiter.inflight > 0 =>
                limiter' \in LimiterType /\ limiter'.inflight = limiter.inflight - 1
<1> DEFINE a == [limiter EXCEPT !.inflight = @ + 1]
<1>1. /\ limiter \in LimiterType /\ limiter.limit \in LimiterFloor..LimiterCeiling
      /\ limiter.inflight \in 0..LimiterCeiling
      BY DEF Inv, LimiterType
<1>2. ~Sheds => a \in LimiterType
      BY <1>1, LimiterConstants DEF Sheds, LimiterType
<1>3. a.inflight = limiter.inflight + 1 /\ a.limit = limiter.limit
      BY <1>1 DEF LimiterType
<1>4. ASSUME AcquiredAndReleased
      PROVE  limiter' \in LimiterType /\ limiter'.inflight = limiter.inflight
  <2>1. PICK headroom \in BOOLEAN : limiter' = Released(a, headroom)
        BY <1>4 DEF AcquiredAndReleased
  <2> HIDE DEF a
  <2>2. a.inflight \in Nat /\ a.inflight > 0 /\ a.inflight - 1 = limiter.inflight
        /\ a.inflight - 1 <= LimiterCeiling
        BY <1>1, <1>3, LimiterConstants
  <2> QED BY <1>1, <1>3, <2>1, <2>2, ReleasedType
<1>5. ASSUME release, limiter.inflight > 0
      PROVE  limiter' \in LimiterType /\ limiter'.inflight = limiter.inflight - 1
  <2>1. PICK headroom \in BOOLEAN : limiter' = Released(limiter, headroom)
        BY <1>5 DEF release
  <2>2. limiter.inflight \in Nat /\ limiter.inflight - 1 <= LimiterCeiling
        BY <1>1, LimiterConstants
  <2> QED BY <1>1, <1>5, <2>1, <2>2, ReleasedType
<1> QED BY Zenon, <1>2, <1>3, <1>4, <1>5 DEF tryAcquire

\* Any move of the PUT that keeps its record's invariant keeps the whole.
LEMMA PutMoves ==
    ASSUME Inv, NEW r, PutInv(r), PutBecomes(r), UNCHANGED << op, get, others >>,
           down' \subseteq Index,
           \/ put.pc \in {"open", "commit"} /\ r.pc \in {"open", "commit", "done"}
           \/ r.pc = put.pc
    PROVE  Inv'
<1>1. put' = r /\ op' = op /\ get' = get /\ others' = others
      BY DEF PutBecomes
<1>2. PutInv(put)'
      BY <1>1 DEF PutInv, ShardInv, Floor, K
<1>3. GetInv(get)'
      BY <1>1 DEF Inv, GetInv, Honest, K
<1>4. /\ put.result = "none" <=> put.pc # "done"
      /\ r.result = "none" <=> r.pc # "done"
      BY DEF Inv, PutInv, ShardInv
<1>5. (op' = "put" => get'.pc = "idle") /\ (op' = "get" => put'.pc = "idle")
      BY <1>1 DEF Inv
<1>6. CASE put.pc \in {"open", "commit"} /\ r.pc = "done"
  <2>1. Admitted = 1 /\ Admitted' = 0 /\ release
        BY <1>1, <1>4, <1>5, <1>6 DEF Admitted, Busy, PutBecomes, Inv, Ops
  <2>2. limiter.inflight > 0 /\ limiter.inflight - 1 = others
        BY <2>1, LimiterConstants DEF Inv
  <2>3. limiter' \in LimiterType /\ limiter'.inflight = limiter.inflight - 1
        BY <2>1, <2>2, LimiterSteps
  <2>4. limiter'.inflight = others' + Admitted'
        BY <1>1, <2>1, <2>2, <2>3, LimiterConstants DEF Inv
  <2> QED BY <1>1, <1>2, <1>3, <1>5, <2>3, <2>4 DEF Inv
<1>7. CASE ~(put.pc \in {"open", "commit"} /\ r.pc = "done")
  <2>1. Admitted' = Admitted /\ UNCHANGED limiter
        BY <1>1, <1>4, <1>7 DEF Admitted, Busy, PutBecomes
  <2> QED BY <1>1, <1>2, <1>3, <1>5, <2>1 DEF Inv
<1> QED BY <1>6, <1>7

\* The same for the GET.
LEMMA GetMoves ==
    ASSUME Inv, NEW r, GetInv(r), GetBecomes(r), UNCHANGED << op, put, others, down >>,
           get.pc \in {"headers", "slices"}, r.pc \in {"headers", "slices", "done"}
    PROVE  Inv'
<1>1. get' = r /\ op' = op /\ put' = put /\ others' = others /\ down' = down
      BY DEF GetBecomes
<1>2. PutInv(put)'
      BY <1>1 DEF Inv, PutInv, ShardInv, Floor, K
<1>3. GetInv(get)'
      BY <1>1 DEF GetInv, Honest, K
<1>4. op = "get" /\ put.pc = "idle"
      BY DEF Inv, Ops
<1>5. r.result = "none" <=> r.pc # "done"
      BY DEF GetInv
<1>6. CASE r.pc = "done"
  <2>1. Admitted = 1 /\ Admitted' = 0 /\ release
        BY <1>1, <1>4, <1>5, <1>6 DEF Admitted, Busy, GetBecomes
  <2>2. limiter.inflight > 0 /\ limiter.inflight - 1 = others
        BY <2>1, LimiterConstants DEF Inv
  <2>3. limiter' \in LimiterType /\ limiter'.inflight = limiter.inflight - 1
        BY <2>1, <2>2, LimiterSteps
  <2>4. limiter'.inflight = others' + Admitted'
        BY <1>1, <2>1, <2>2, <2>3, LimiterConstants DEF Inv
  <2> QED BY <1>1, <1>2, <1>3, <1>4, <2>3, <2>4 DEF Inv
<1>7. CASE r.pc # "done"
  <2>1. Admitted' = Admitted /\ UNCHANGED limiter
        BY <1>1, <1>4, <1>5, <1>7 DEF Admitted, Busy, GetBecomes
  <2> QED BY <1>1, <1>2, <1>3, <1>4, <2>1 DEF Inv
<1> QED BY <1>6, <1>7

LEMMA FreshRecords ==
    ASSUME op \in Ops
    PROVE  /\ PutInv(NoPut) /\ GetInv(NoGet)
           /\ \A why \in {"shed", "refused"} :
                PutInv([NoPut EXCEPT !.pc = "done", !.result = why, !.feeder = "done"])
           /\ \A why \in {"shed", "error"} : GetInv([NoGet EXCEPT !.pc = "done", !.result = why])
<1>1. Posted(<< >>) = 0 /\ AllChunks(<< >>) /\ Orderly(<< >>) /\ Len(<< >>) = 0
      <2>1. AllChunks(<< >>) /\ Orderly(<< >>) /\ Len(<< >>) = 0
            BY DEF AllChunks, Orderly
      <2> QED BY <2>1, PostedIs
<1>2. /\ NoPut \in PutRec /\ NoPut.pc = "idle" /\ NoPut.feeder = "idle"
      /\ NoPut.stream = [i \in Index |-> "none"]
      /\ NoPut.result = "none" /\ NoPut.deleting = {} /\ NoPut.pending = 0 /\ NoPut.encoded = 0
      /\ NoPut.outstanding = 0 /\ NoPut.wants = 0 /\ NoPut.posts = << >> /\ NoPut.read = 0
      /\ NoPut.eof = FALSE /\ NoPut.closed = FALSE /\ NoPut.feedErr = FALSE
      <2>1. 0 \in Nat /\ 0 \in 0..Chunks /\ 0 \in 0..Window /\ << >> \in Seq(Messages)
            BY ConstantTypes DEF Constants
      <2>2. NoPut \in PutRec
            BY <2>1 DEF NoPut, PutRec
      <2> QED BY Zenon, <2>2 DEF NoPut
<1>3. PutInv(NoPut)
      <2>1. CreditInv(NoPut)
            BY <1>1, <1>2, ConstantTypes DEF CreditInv, Constants
      <2>2. EndInv(NoPut)
            BY Zenon, <1>1, <1>2 DEF EndInv
      <2>3. ShardInv(NoPut)
            BY Zenon, <1>2 DEF ShardInv
      <2> QED BY Zenon, <1>2, <2>1, <2>2, <2>3 DEF PutInv
<1>4. ASSUME NEW why \in {"shed", "refused"}
      PROVE  PutInv([NoPut EXCEPT !.pc = "done", !.result = why, !.feeder = "done"])
  <2> DEFINE e == [NoPut EXCEPT !.pc = "done", !.result = why, !.feeder = "done"]
  <2>1. /\ e \in PutRec /\ e.pc = "done" /\ e.feeder = "done" /\ e.result = why
        /\ e.stream = NoPut.stream /\ e.pending = 0 /\ e.encoded = 0
        /\ e.outstanding = 0 /\ e.wants = 0 /\ e.posts = << >> /\ e.read = 0
        /\ e.eof = FALSE /\ e.closed = FALSE /\ e.feedErr = FALSE
        BY Zenon, <1>2 DEF PutRec
  <2> HIDE DEF e
  <2>2. PutInv(e)
        BY <1>1, <1>2, <2>1, ConstantTypes DEF PutInv, CreditInv, EndInv, ShardInv, Constants
  <2> QED BY <2>2 DEF e
<1>5. NoGet \in GetRecord
      BY CoordinatorAssumption DEF NoGet, GetRecord
<1>6. GetInv(NoGet)
      BY Zenon, <1>5 DEF GetInv, Honest, NoGet
<1>7. ASSUME NEW why \in {"shed", "error"}
      PROVE  GetInv([NoGet EXCEPT !.pc = "done", !.result = why])
  <2> DEFINE e == [NoGet EXCEPT !.pc = "done", !.result = why]
  <2>1. e \in GetRecord /\ e.pc = "done" /\ e.result = why
        BY Zenon, <1>5 DEF GetRecord
  <2> QED BY <2>1 DEF GetInv, Honest
<1> QED BY <1>3, <1>4, <1>6, <1>7

LEMMA OpenedKeeps ==
    ASSUME op \in Ops, NEW skipped
    PROVE  LET r == replenish([NoPut EXCEPT !.pc = "open", !.feeder = "want",
                        !.stream = [i \in Index |-> IF i \in skipped THEN "skipped" ELSE "live"]])
           IN  PutInv(r) /\ r.pc = "open"
<1> DEFINE st == [i \in Index |-> IF i \in skipped THEN "skipped" ELSE "live"]
           e == [NoPut EXCEPT !.pc = "open", !.feeder = "want", !.stream = st]
<1>1. PutInv(NoPut) /\ NoPut \in PutRec
      BY FreshRecords DEF PutInv
<1>2. st \in [Index -> {"none", "live", "skipped", "failed", "ok"}]
      /\ \A i \in Index : st[i] # "ok"
      OBVIOUS
<1> HIDE DEF st
<1>3. /\ e \in PutRec /\ e.pc = "open" /\ e.feeder = "want" /\ e.stream = st
      /\ e.result = "none" /\ e.deleting = {} /\ e.pending = 0 /\ e.encoded = 0
      /\ e.outstanding = 0 /\ e.wants = 0 /\ e.posts = << >> /\ e.read = 0
      /\ e.eof = FALSE /\ e.closed = FALSE /\ e.feedErr = FALSE
      BY Zenon, <1>1, <1>2 DEF PutRec, NoPut
<1> HIDE DEF e
<1>4. AllChunks(<< >>) /\ Orderly(<< >>) /\ Posted(<< >>) = 0 /\ Len(<< >>) = 0
      <2>1. AllChunks(<< >>) /\ Orderly(<< >>) /\ Len(<< >>) = 0
            BY DEF AllChunks, Orderly
      <2> QED BY <2>1, PostedIs
<1>5. PutInv(e)
      BY SMTT(30), <1>2, <1>3, <1>4, ConstantTypes DEF PutInv, CreditInv, EndInv, ShardInv, Constants
<1>6. PutInv(replenish(e)) /\ replenish(e).pc = "open"
      BY <1>3, <1>5, ReplenishKeeps
<1> QED BY <1>6 DEF e, st

(***************************************************************************)
(* Every action keeps the invariant.                                       *)
(***************************************************************************)
LEMMA OtherSteps ==
    ASSUME Inv, OtherBegins \/ OtherEnds \/ \E i \in Index : Remark(i)
    PROVE  Inv'
<1>1. op' = op /\ put' = put /\ get' = get
      BY DEF OtherBegins, OtherEnds, Remark
<1>2. PutInv(put)' /\ GetInv(get)'
      BY <1>1 DEF Inv, PutInv, ShardInv, Floor, K, GetInv, Honest
<1>3. Admitted' = Admitted /\ Admitted \in {0, 1}
      BY <1>1 DEF Admitted, Busy
<1>4. others \in 0..MaxOthers /\ limiter.inflight = others + Admitted
      BY DEF Inv
<1>5. CASE OtherBegins
  <2>1. limiter' \in LimiterType /\ limiter'.inflight = limiter.inflight + 1
        BY <1>5, LimiterSteps DEF OtherBegins
  <2>2. others' \in 0..MaxOthers /\ others' = others + 1 /\ down' = down
        BY <1>4, <1>5, LimiterConstants DEF OtherBegins
  <2>3. limiter'.inflight = others' + Admitted'
        BY <1>3, <1>4, <2>1, <2>2, LimiterConstants
  <2> QED BY <1>1, <1>2, <2>1, <2>2, <2>3 DEF Inv
<1>6. CASE OtherEnds
  <2>1. limiter.inflight > 0
        BY <1>3, <1>4, <1>6, LimiterConstants DEF OtherEnds
  <2>2. limiter' \in LimiterType /\ limiter'.inflight = limiter.inflight - 1
        BY <1>6, <2>1, LimiterSteps DEF OtherEnds
  <2>3. others' \in 0..MaxOthers /\ others' = others - 1 /\ down' = down
        BY <1>4, <1>6, LimiterConstants DEF OtherEnds
  <2>4. limiter'.inflight = others' + Admitted'
        BY <1>3, <1>4, <2>2, <2>3, LimiterConstants
  <2> QED BY <1>1, <1>2, <2>2, <2>3, <2>4 DEF Inv
<1>7. CASE \E i \in Index : Remark(i)
  <2>1. limiter' = limiter /\ others' = others /\ down' \subseteq Index
        BY <1>7 DEF Remark, Inv
  <2> QED BY <1>1, <1>2, <1>3, <2>1 DEF Inv
<1> QED BY <1>5, <1>6, <1>7

LEMMA PutBegins ==
    ASSUME Inv, PutShed \/ beginPut \/ PutSetupFails \/ PutReturns
    PROVE  Inv'
<1>1. /\ op' = op /\ get' = get /\ others' = others /\ down' = down
      /\ op \in Ops /\ limiter.inflight = others + Admitted /\ others \in Nat
      BY LimiterConstants DEF PutShed, beginPut, PutSetupFails, PutReturns, Inv
<1>2. GetInv(get)'
      BY <1>1 DEF Inv, GetInv, Honest, K
<1>3. ASSUME NEW r, PutInv(r), put' = r
      PROVE  PutInv(put)'
      BY <1>1, <1>3 DEF PutInv, ShardInv, Floor, K
<1>4. CASE PutShed \/ PutSetupFails
  <2> DEFINE ended(why) == [NoPut EXCEPT !.pc = "done", !.result = why, !.feeder = "done"]
  <2>1. PICK why \in {"shed", "refused"} : put' = ended(why)
        BY <1>4 DEF PutShed, PutSetupFails
  <2>2. ended(why).pc = "done" /\ PutInv(ended(why))
        BY Zenon, <1>1, FreshRecords DEF NoPut
  <2>3. PutInv(put)' /\ put'.pc = "done"
        BY <1>3, <2>1, <2>2
  <2>4. Admitted' = Admitted /\ op = "put"
        BY <1>1, <1>4, <2>3 DEF Admitted, Busy, PutShed, PutSetupFails
  <2>5. limiter' \in LimiterType /\ limiter'.inflight = limiter.inflight
        BY <1>4, LimiterSteps DEF PutShed, PutSetupFails, Inv
  <2> QED BY <1>1, <1>2, <2>3, <2>4, <2>5 DEF Inv
<1>5. CASE beginPut
  <2>1. PutInv(put)' /\ put'.pc = "open"
        BY Zenon, <1>1, <1>3, <1>5, OpenedKeeps DEF beginPut
  <2>2. op = "put" /\ Admitted = 0 /\ Admitted' = 1
        BY <1>1, <1>5, <2>1 DEF beginPut, Admitted, Busy, Inv
  <2>3. limiter' \in LimiterType /\ limiter'.inflight = limiter.inflight + 1
        BY <1>5, LimiterSteps DEF beginPut
  <2>4. limiter'.inflight = others' + Admitted'
        BY <1>1, <2>2, <2>3
  <2> QED BY <1>1, <1>2, <2>1, <2>2, <2>3, <2>4 DEF Inv
<1>6. CASE PutReturns
  <2>1. put' = NoPut /\ limiter' = limiter
        BY <1>6 DEF PutReturns
  <2>2. PutInv(put)' /\ put'.pc = "idle"
        BY Zenon, <1>1, <1>3, <2>1, FreshRecords DEF NoPut
  <2>3. put.pc = "done"
        BY <1>6 DEF PutReturns, Inv, PutInv, ShardInv
  <2>4. Admitted' = Admitted
        BY <1>1, <2>2, <2>3 DEF Admitted, Busy
  <2> QED BY <1>1, <1>2, <2>1, <2>2, <2>4 DEF Inv
<1> QED BY <1>4, <1>5, <1>6

LEMMA FeederStays ==
    ASSUME Inv, FeederMoves
    PROVE  PutInv(put') /\ put'.pc = put.pc /\ put'.result = put.result
<1>1. PutInv(put) /\ put \in PutRec
      BY DEF Inv, PutInv
<1>2. CASE FeederFinishes
  <2> DEFINE e == [put EXCEPT !.feeder = "done"]
  <2>1. /\ e \in PutRec /\ e.posts = put.posts /\ e.outstanding = put.outstanding
        /\ e.wants = put.wants /\ e.pc = put.pc /\ e.result = put.result
        /\ e.pending = put.pending /\ e.encoded = put.encoded /\ e.eof = put.eof
        /\ e.closed = put.closed /\ e.stream = put.stream /\ e.held = put.held
        /\ e.feeder = "done" /\ e.read = put.read
        /\ e.feedErr = put.feedErr /\ e.deleting = put.deleting
        BY Zenon, <1>1 DEF PutRec
  <2>2. put.result # "none" /\ put' = e
        BY <1>2 DEF FeederFinishes
  <2> HIDE DEF e
  <2>3. PutInv(e)
        BY <1>1, <2>1, <2>2 DEF PutInv, CreditInv, EndInv, ShardInv, Count
  <2> QED BY <2>1, <2>2, <2>3
<1>3. CASE FeederReads
  <2>1. /\ put.feeder = "want" /\ put.wants > 0 /\ AllChunks(put.posts)
        /\ put.read \in Nat /\ put.read <= Chunks /\ Chunks \in Nat
        BY <1>1, <1>3, PutNumbers DEF FeederReads, PutInv, EndInv
  <2>2. CASE put.read < Chunks /\ FeederPosts(<< "chunk" >>, put.read + 1, "want", FALSE)
    <3> DEFINE q == put.posts \o << "chunk" >>
    <3>1. AllChunks(q) /\ Orderly(q) /\ q \in Seq(Messages) /\ Posted(q) = Posted(put.posts) + 1
          BY <2>1, PostingKeeps DEF Orderly
    <3>2. put' = Fed(put, q, put.read + 1, "want", FALSE)
          BY <2>2 DEF FeederPosts, Fed
    <3> HIDE DEF q
    <3>3. put.read + 1 \in 0..Chunks
          BY <2>1, <2>2
    <3> QED BY Zenon, <1>1, <2>1, <3>1, <3>2, <3>3, FeederKeeps
  <2>3. CASE put.read = Chunks - 1 /\ FeederPosts(<< "chunk", "eof" >>, put.read + 1, "wait", FALSE)
    <3> DEFINE q == put.posts \o << "chunk", "eof" >>
    <3>1. Orderly(q) /\ q \in Seq(Messages) /\ Posted(q) = Posted(put.posts) + 1
          BY Zenon, <2>1, PostingKeeps DEF Orderly
    <3>2. put' = Fed(put, q, put.read + 1, "wait", FALSE)
          BY <2>3 DEF FeederPosts, Fed
    <3> HIDE DEF q
    <3>3. put.read + 1 \in 0..Chunks
          BY <2>1, <2>3
    <3> QED BY Zenon, <1>1, <2>1, <3>1, <3>2, <3>3, FeederKeeps
  <2>4. CASE FeederPosts(<< "eof" >>, put.read, "wait", FALSE)
    <3> DEFINE q == put.posts \o << "eof" >>
    <3>1. Orderly(q) /\ q \in Seq(Messages) /\ Posted(q) = Posted(put.posts)
          BY <2>1, PostingKeeps DEF Orderly
    <3>2. put' = Fed(put, q, put.read, "wait", FALSE)
          BY <2>4 DEF FeederPosts, Fed
    <3> HIDE DEF q
    <3>3. put.read \in 0..Chunks
          BY <2>1
    <3> QED BY Zenon, <1>1, <2>1, <3>1, <3>2, <3>3, FeederKeeps
  <2>5. CASE FeederPosts(<< "abort" >>, put.read, "wait", TRUE)
    <3> DEFINE q == put.posts \o << "abort" >>
    <3>1. /\ Orderly(q) /\ q \in Seq(Messages) /\ Posted(q) = Posted(put.posts)
          /\ \A j \in 1..Len(q) : q[j] # "eof"
          BY Zenon, <2>1, PostingKeeps DEF Orderly
    <3>2. put' = Fed(put, q, put.read, "wait", TRUE)
          BY <2>5 DEF FeederPosts, Fed
    <3> HIDE DEF q
    <3>3. put.read \in 0..Chunks
          BY <2>1
    <3> QED BY Zenon, <1>1, <2>1, <3>1, <3>2, <3>3, FeederKeeps
  <2> QED BY Zenon, <1>3, <2>2, <2>3, <2>4, <2>5 DEF FeederReads
<1> QED BY <1>2, <1>3 DEF FeederMoves

LEMMA PutSteps ==
    ASSUME Inv,
           \/ FeederMoves \/ RunPost \/ commitPutObject
           \/ \E i \in Index : HolderCommits(i) \/ StreamMoves(i)
    PROVE  Inv'
<1>1. op \in Ops /\ PutInv(put) /\ put \in PutRec /\ down \subseteq Index
      BY DEF Inv, PutInv
<1>2. \A r : put' = r /\ r.result = put.result /\ UNCHANGED limiter => PutBecomes(r)
      BY DEF PutBecomes
<1>3. CASE FeederMoves
  <2>1. PutInv(put') /\ put'.pc = put.pc /\ PutBecomes(put')
        BY Zenon, <1>2, <1>3, FeederStays DEF FeederMoves, FeederReads, FeederFinishes
  <2>2. UNCHANGED << op, get, others >> /\ down' \subseteq Index
        BY Zenon, <1>1, <1>3 DEF FeederMoves, FeederReads, FeederFinishes
  <2> QED BY <2>1, <2>2, PutMoves
<1>4. CASE RunPost
  <2> DEFINE s == [put EXCEPT !.posts = Tail(@)]
             r == IF s.pc # "open" THEN s
                  ELSE CASE Head(put.posts) = "chunk" -> Feed(s)
                         [] Head(put.posts) = "eof"   -> FeedEOF(s)
                         [] Head(put.posts) = "abort" -> abort(s, "error")
  <2>1. /\ PutInv(s) /\ s.pc = put.pc
        /\ put.pc = "open" /\ Head(put.posts) = "chunk" =>
             PutInv(Feed(s)) /\ Feed(s).pc \in {"open", "done"}
        /\ put.pc = "open" /\ Head(put.posts) = "eof" =>
             PutInv(FeedEOF(s)) /\ FeedEOF(s).pc \in {"open", "done"}
        /\ PutInv(abort(s, "error")) /\ abort(s, "error").pc = "done"
        /\ Head(put.posts) \in Messages
        BY <1>1, <1>4, FeedKeeps DEF RunPost
  <2>2. PutBecomes(r) /\ UNCHANGED << op, get, others, down >>
        BY Zenon, <1>4 DEF RunPost
  <2> HIDE DEF s
  <2>3. PutInv(r) /\ (r.pc = put.pc \/ (put.pc = "open" /\ r.pc \in {"open", "done"}))
        BY <2>1 DEF Messages
  <2> HIDE DEF r
  <2> QED BY <1>1, <2>2, <2>3, PutMoves
<1>5. CASE commitPutObject
  <2> DEFINE ok == [put EXCEPT !.pc = "done", !.result = "ok"]
  <2>1. put.pc = "commit" /\ UNCHANGED << op, get, others, down >>
        /\ (PutBecomes(ok) \/ PutBecomes(fail(put, "error")))
        BY <1>5 DEF commitPutObject
  <2>2. /\ ok \in PutRec /\ ok.posts = put.posts /\ ok.outstanding = put.outstanding
        /\ ok.wants = put.wants /\ ok.pc = "done" /\ ok.result = "ok"
        /\ ok.pending = put.pending /\ ok.encoded = put.encoded /\ ok.eof = put.eof
        /\ ok.closed = put.closed /\ ok.stream = put.stream /\ ok.held = put.held
        /\ ok.feeder = put.feeder /\ ok.read = put.read
        /\ ok.feedErr = put.feedErr /\ ok.deleting = put.deleting
        BY Zenon, <1>1 DEF PutRec
  <2> HIDE DEF ok
  <2>3. PutInv(ok)
        BY <1>1, <2>1, <2>2 DEF PutInv, CreditInv, EndInv, ShardInv, Count
  <2>4. PutInv(fail(put, "error")) /\ fail(put, "error").pc = "done"
        BY <1>1, FailKeeps
  <2> QED BY <1>1, <2>1, <2>2, <2>3, <2>4, PutMoves
<1>6. ASSUME NEW i \in Index, HolderCommits(i)
      PROVE  Inv'
  <2> DEFINE r == [put EXCEPT !.held[i] = "durable"]
  <2>1. PutInv(r) /\ r.pc = put.pc /\ r.result = put.result
        BY <1>1, HolderKeeps DEF PutRec
  <2>2. put' = r /\ UNCHANGED << op, get, limiter, others, down >>
        BY <1>6 DEF HolderCommits
  <2> HIDE DEF r
  <2> QED BY <1>1, <1>2, <2>1, <2>2, PutMoves
<1>7. ASSUME NEW i \in Index, StreamMoves(i)
      PROVE  Inv'
  <2>1. CASE StreamAck(i)
    <3>1. PICK left \in 0..(put.buf[i] - 1) : PutBecomes(step([put EXCEPT !.buf[i] = left]))
          BY <2>1 DEF StreamAck
    <3> DEFINE r == [put EXCEPT !.buf[i] = left]
    <3>2. PutInv(r) /\ r.pc = put.pc
          BY <1>1, AckKeeps DEF PutRec
    <3> HIDE DEF r
    <3>3. PutInv(step(r)) /\ step(r).pc \in {put.pc, "done"}
          BY <3>2, StepKeeps
    <3>4. PutBecomes(step(r)) /\ put.pc = "open" /\ UNCHANGED << op, get, others, down >>
          BY <2>1, <3>1 DEF StreamAck, r
    <3> QED BY <1>1, <3>3, <3>4, PutMoves
  <2>2. CASE StreamCommitted(i) \/ StreamFails(i)
    <3>1. PICK outcome \in {"ok", "unreachable", "error"} :
            /\ PutBecomes(streamDone(put, i, outcome)) /\ observe(i, outcome)
            /\ outcome = "ok" => put.held[i] = "durable"
          BY <2>2 DEF StreamCommitted, StreamFails
    <3>2. put.pc = "open" /\ UNCHANGED << op, get, others >>
          BY <2>2 DEF StreamCommitted, StreamFails
    <3>3. down' \subseteq Index
          BY <1>1, <3>1 DEF observe
    <3>4. /\ PutInv(streamDone(put, i, outcome))
          /\ streamDone(put, i, outcome).pc \in {"open", "commit", "done"}
          BY <1>1, <3>1, <3>2, StreamDoneKeeps
    <3> QED BY <3>1, <3>2, <3>3, <3>4, PutMoves
  <2> QED BY <1>7, <2>1, <2>2 DEF StreamMoves
<1> QED BY <1>3, <1>4, <1>5, <1>6, <1>7

LEMMA GetBegins ==
    ASSUME Inv, GetShed \/ GetEntry \/ GetSetupFails \/ GetReturns
    PROVE  Inv'
<1>1. /\ op' = op /\ put' = put /\ others' = others /\ down' = down
      /\ op \in Ops /\ limiter.inflight = others + Admitted /\ others \in Nat
      BY LimiterConstants DEF GetShed, GetEntry, GetSetupFails, GetReturns, Inv
<1>2. PutInv(put)'
      BY <1>1 DEF Inv, PutInv, ShardInv, Floor, K
<1>3. ASSUME NEW r, GetInv(r), get' = r
      PROVE  GetInv(get)'
      BY <1>1, <1>3 DEF GetInv, Honest, K
<1>4. CASE GetShed \/ GetSetupFails
  <2> DEFINE ended(why) == [NoGet EXCEPT !.pc = "done", !.result = why]
  <2>1. PICK why \in {"shed", "error"} : get' = ended(why)
        BY <1>4 DEF GetShed, GetSetupFails
  <2>2. ended(why).pc = "done" /\ GetInv(ended(why))
        BY Zenon, <1>1, FreshRecords DEF NoGet
  <2>3. GetInv(get)' /\ get'.pc = "done"
        BY <1>3, <2>1, <2>2
  <2>4. Admitted' = Admitted /\ op = "get"
        BY <1>1, <1>4, <2>3 DEF Admitted, Busy, GetShed, GetSetupFails
  <2>5. limiter' \in LimiterType /\ limiter'.inflight = limiter.inflight
        BY <1>4, LimiterSteps DEF GetShed, GetSetupFails, Inv
  <2> QED BY <1>1, <1>2, <2>3, <2>4, <2>5 DEF Inv
<1>5. CASE GetEntry
  <2>1. NoGet \in GetRecord /\ NoGet.result = "none" /\ NoGet.part < Parts
        BY <1>1, FreshRecords, CoordinatorAssumption DEF GetInv, NoGet
  <2>2. GetInv(get') /\ get'.pc = "headers"
        BY <1>5, <2>1, FetchHeadersKeeps DEF GetEntry
  <2>3. GetInv(get)'
        BY <1>3, <2>2
  <2>4. op = "get" /\ Admitted = 0 /\ Admitted' = 1
        BY <1>1, <1>5, <2>2 DEF GetEntry, Admitted, Busy, Inv
  <2>5. limiter' \in LimiterType /\ limiter'.inflight = limiter.inflight + 1
        BY <1>5, LimiterSteps DEF GetEntry
  <2>6. limiter'.inflight = others' + Admitted'
        BY <1>1, <2>4, <2>5
  <2> QED BY <1>1, <1>2, <2>3, <2>4, <2>5, <2>6 DEF Inv
<1>6. CASE GetReturns
  <2>1. get' = NoGet /\ limiter' = limiter /\ get.pc = "done"
        BY <1>6 DEF GetReturns
  <2>2. GetInv(get)' /\ get'.pc = "idle"
        BY <1>1, <1>3, <2>1, FreshRecords DEF NoGet
  <2>3. Admitted' = Admitted
        BY <1>1, <2>1, <2>2 DEF Admitted, Busy
  <2> QED BY <1>1, <1>2, <2>1, <2>2, <2>3 DEF Inv
<1> QED BY <1>4, <1>5, <1>6

LEMMA GetSteps ==
    ASSUME Inv, \E i \in Index : SweepCopies(i) \/ FetchMoves(i)
    PROVE  Inv'
<1>1. op \in Ops /\ GetInv(get) /\ get \in GetRecord
      BY DEF Inv, GetInv
<1>2. PICK i \in Index : SweepCopies(i) \/ FetchMoves(i)
      OBVIOUS
<1>3. CASE SweepCopies(i)
  <2> DEFINE r == [get EXCEPT !.held = @ \cup {<< i, "new" >>}]
  <2>1. get' = r /\ get.pc = "headers" /\ UNCHANGED << op, put, limiter, others, down >>
        BY <1>3 DEF SweepCopies
  <2>2. get.held \cup {<< i, "new" >>} \in SUBSET (Index \X Homes)
        BY <1>1 DEF GetRecord, Homes
  <2>3. /\ r \in GetRecord /\ r.pc = "headers" /\ r.result = get.result
        BY <1>1, <2>1, <2>2 DEF GetRecord
  <2> HIDE DEF r
  <2>4. get.result = "none"
        BY <1>1, <2>1 DEF GetInv
  <2>5. GetInv(r) /\ GetBecomes(r)
        BY <2>1, <2>3, <2>4 DEF GetInv, Honest, GetBecomes
  <2> QED BY <2>1, <2>3, <2>5, GetMoves
<1>4. CASE SlicesFetched(i)
  <2>1. PICK ok \in BOOLEAN :
          LET r == [get EXCEPT !.fetching = @ \ {i}, !.failed = IF ok THEN @ ELSE @ \cup {i}]
          IN  \E next \in (IF r.fetching = {} THEN assemble(r) ELSE {r}) : GetBecomes(next)
        BY Zenon, <1>4 DEF SlicesFetched
  <2> DEFINE left == get.fetching \ {i}
             lost == IF ok THEN get.failed ELSE get.failed \cup {i}
             r == [get EXCEPT !.fetching = left, !.failed = lost]
  <2>2. get.pc = "slices" /\ i \in get.fetching /\ UNCHANGED << op, put, others, down >>
        BY <1>4 DEF SlicesFetched
  <2>3. /\ get.fetching \in SUBSET Index /\ left \in SUBSET Index /\ lost \in SUBSET Index
        /\ left \subseteq get.fetching
        BY <1>1 DEF GetRecord
  <2>4. PICK next \in (IF r.fetching = {} THEN assemble(r) ELSE {r}) : GetBecomes(next)
        BY <1>1, <2>1 DEF GetRecord
  <2>5. \/ lost = get.failed
        \/ i \in lost /\ i \in Answered(get)
        BY <1>1, <2>2 DEF GetInv
  <2> HIDE DEF left, lost
  <2>6. /\ r \in GetRecord /\ r.pc = "slices" /\ r.result = get.result /\ r.fetching = left
        /\ r.failed = lost /\ r.source = get.source
        BY Zenon, <1>1, <2>2, <2>3 DEF GetRecord
  <2> HIDE DEF r
  <2>7. Answered(r) = Answered(get) /\ get.result = "none"
        BY <1>1, <2>2, <2>6 DEF Answered, GetInv
  <2>8. GetInv(r)
        BY <1>1, <2>2, <2>3, <2>5, <2>6, <2>7 DEF GetInv, Honest
  <2>9. GetInv(next) /\ next.pc \in {"headers", "slices", "done"}
        BY <1>1, <2>4, <2>6, <2>8, AssembleKeeps
  <2> QED BY <2>2, <2>4, <2>9, GetMoves
<1>5. ASSUME NEW h \in Homes, HeaderFetched(i, h)
      PROVE  Inv'
  <2>1. PICK ok \in BOOLEAN :
          LET r == [get EXCEPT !.probes = @ \ {<< i, h >>},
                               !.source[i] = IF ok /\ @ = "none" THEN h ELSE @]
          IN  IF r.probes = {} \/ Cardinality(Answered(r)) >= K
              THEN \E bad \in SUBSET (r.rotten \cap Answered(r)) : GetBecomes(planSlices(r, bad))
              ELSE GetBecomes(r)
        BY Zenon, <1>5 DEF HeaderFetched
  <2> DEFINE pin == IF ok /\ get.source[i] = "none" THEN h ELSE get.source[i]
             left == get.probes \ {<< i, h >>}
             r == [get EXCEPT !.probes = left, !.source[i] = pin]
  <2>2. /\ get.pc = "headers" /\ get.result = "none"
        /\ UNCHANGED << op, put, others, down >>
        BY <1>1, <1>5 DEF HeaderFetched, GetInv
  <2>3. pin \in Homes \cup {"none"} /\ left \in SUBSET (Index \X Homes)
        BY <1>1 DEF GetRecord
  <2>4. IF r.probes = {} \/ Cardinality(Answered(r)) >= K
        THEN \E bad \in SUBSET (r.rotten \cap Answered(r)) : GetBecomes(planSlices(r, bad))
        ELSE GetBecomes(r)
        BY <1>1, <2>1 DEF GetRecord
  <2> HIDE DEF pin, left
  <2>5. r \in GetRecord /\ r.pc = "headers" /\ r.result = "none"
        BY Zenon, <1>1, <2>2, <2>3 DEF GetRecord
  <2> HIDE DEF r
  <2>6. GetInv(r)
        BY <2>5 DEF GetInv, Honest
  <2>7. CASE r.probes = {} \/ Cardinality(Answered(r)) >= K
    <3>1. PICK bad \in SUBSET (r.rotten \cap Answered(r)) : GetBecomes(planSlices(r, bad))
          BY <2>4, <2>7
    <3>2. GetInv(planSlices(r, bad))
          BY <1>1, <2>5, <2>7, PlanKeeps
    <3>3. planSlices(r, bad).pc \in {"slices", "done"}
          BY <2>5 DEF planSlices, GetRecord
    <3> QED BY <2>2, <3>1, <3>2, <3>3, GetMoves
  <2>8. CASE ~(r.probes = {} \/ Cardinality(Answered(r)) >= K)
        BY <2>2, <2>4, <2>5, <2>6, <2>8, GetMoves
  <2> QED BY <2>7, <2>8
<1> QED BY <1>2, <1>3, <1>4, <1>5 DEF FetchMoves

LEMMA CoordinatorInvariant == Spec => []Inv
<1>1. Init => Inv
  <2> SUFFICES ASSUME Init PROVE Inv
      OBVIOUS
  <2>1. op \in Ops /\ put = NoPut /\ get = NoGet /\ others = 0 /\ down = {}
        BY DEF Init
  <2>2. put.pc = "idle" /\ get.pc = "idle" /\ Admitted = 0
        BY <2>1 DEF NoPut, NoGet, Admitted, Busy
  <2>3. limiter \in LimiterType /\ limiter.inflight = 0
        BY LimiterConstants DEF Init, LimiterType
  <2> QED BY <2>1, <2>2, <2>3, FreshRecords, LimiterConstants DEF Inv
<1>2. Inv /\ [Next]_vars => Inv'
  <2> SUFFICES ASSUME Inv, [Next]_vars PROVE Inv'
      OBVIOUS
  <2>1. CASE UNCHANGED vars \/ OtherShed
    <3>1. /\ op' = op /\ put' = put /\ get' = get /\ limiter' = limiter /\ others' = others
          /\ down' = down
          BY <2>1 DEF vars, OtherShed
    <3>2. PutInv(put)' /\ GetInv(get)'
          BY <3>1 DEF Inv, PutInv, ShardInv, Floor, K, GetInv, Honest
    <3> QED BY <3>1, <3>2 DEF Inv, Admitted, Busy
  <2>2. CASE Next /\ ~OtherShed
        BY <2>2, OtherSteps, PutBegins, PutSteps, GetBegins, GetSteps DEF Next, Progress
  <2> QED BY <2>1, <2>2
<1> QED BY <1>1, <1>2, PTL DEF Spec

(***************************************************************************)
(* The theorems.                                                           *)
(***************************************************************************)
\* Type correctness: a shard stream never buffers more than its window, the want
\* credits and the posts never exceed what their channels hold, and limiter.go's
\* limit stays between its floor and its ceiling.
THEOREM CoordinatorTypes == Spec => []TypeOK
<1>1. Inv => TypeOK
  <2> SUFFICES ASSUME Inv PROVE TypeOK
      OBVIOUS
  <2>1. PutInv(put) /\ put \in PutRec /\ Orderly(put.posts)
        BY DEF Inv, PutInv, EndInv
  <2>2. /\ put.pending \in 0..MaxOut /\ put.outstanding \in 0..MaxOut /\ put.wants \in 0..MaxOut
        /\ Posted(put.posts) \in 0..MaxOut
        BY <2>1, PutNumbers DEF CreditInv
  <2>3. put.encoded \in 0..Chunks
        BY <2>1, PutNumbers DEF CreditInv
  <2>4. Len(put.posts) \in 0..(MaxOut + 1)
        BY <2>1, <2>2, PostedType, ConstantTypes DEF Constants
  <2>5. put.posts \in {<< >>} \cup UNION {[1..n -> {"chunk", "eof", "abort"}] : n \in 1..(MaxOut + 1)}
        <3>1. put.posts \in Seq(Messages)
              BY <2>1 DEF Orderly
        <3>2. put.posts \in [1..Len(put.posts) -> Messages]
              BY <3>1
        <3>3. Len(put.posts) = 0 => put.posts = << >>
              BY <3>1
        <3>4. Len(put.posts) # 0 => Len(put.posts) \in 1..(MaxOut + 1)
              BY <2>4, ConstantTypes DEF Constants
        <3> QED BY <3>2, <3>3, <3>4 DEF Messages
  <2>6. put \in PutRecord
        BY <2>1, <2>2, <2>3, <2>5 DEF PutRec, PutRecord
  <2> QED BY <2>6 DEF Inv, TypeOK, GetInv, LimiterType
<1> QED BY <1>1, CoordinatorInvariant, PTL

\* put.go: what of a body a node holds, has on the way or has asked for stays
\* within the window, and a credit always has room in the want channel.
THEOREM CoordinatorHoldsWindow == Spec => []BodyWithinWindow
<1>1. Inv => BodyWithinWindow
      BY DEF Inv, PutInv, CreditInv, BodyWithinWindow
<1> QED BY <1>1, CoordinatorInvariant, PTL

\* put.go and serve.go: a PUT is acknowledged only with its whole body encoded and
\* the floor's worth of shards durable, none of them about to be deleted.
THEOREM CoordinatorAcksWhole == Spec => []AckedIsWhole
<1>1. Inv => AckedIsWhole
  <2> SUFFICES ASSUME Inv, put.result = "ok" PROVE
          /\ put.encoded = Chunks /\ put.read = Chunks /\ ~put.feedErr
          /\ Cardinality({i \in Index : put.held[i] = "durable"}) >= Floor
          /\ put.deleting = {}
      BY DEF AckedIsWhole
  <2>1. PutInv(put) /\ put.closed /\ put.eof /\ put.encoded = Chunks /\ ~put.feedErr
        /\ put.deleting = {} /\ Count(put, {"ok"}) >= Floor /\ op \in Ops
        BY DEF Inv, PutInv, EndInv, ShardInv
  <2>2. put.read = Chunks
        BY SMTT(30), <2>1, PutNumbers DEF CreditInv
  <2> DEFINE durable == {i \in Index : put.held[i] = "durable"}
             oks == {i \in Index : put.stream[i] \in {"ok"}}
  <2>3. oks \in SUBSET durable /\ durable \in SUBSET Index
        BY <2>1 DEF PutInv, ShardInv
  <2>4. Cardinality(oks) <= Cardinality(durable) /\ Cardinality(durable) \in Nat
        <3> HIDE DEF oks, durable
        <3> QED BY <2>3, IndexFinite, FS_Subset
  <2>5. Cardinality(oks) >= Floor /\ Cardinality(oks) \in Nat /\ Floor \in Nat
        BY Zenon, <2>1, FloorType DEF Count
  <2>6. Cardinality(durable) >= Floor
        <3> HIDE DEF oks, durable
        <3> QED BY <2>4, <2>5
  <2> QED BY <2>1, <2>2, <2>6
<1> QED BY <1>1, CoordinatorInvariant, PTL

\* limiter.go: whatever way each operation ends, the count in flight is exact, so
\* an idle node admits.
THEOREM CoordinatorCountsInflight == Spec => []InflightIsExact
<1>1. Inv => InflightIsExact
      BY LimiterConstants DEF Inv, LimiterType, InflightIsExact, Admitted, Sheds
<1> QED BY <1>1, CoordinatorInvariant, PTL

\* get.go: bytes are answered only from k sound shards of every part, and an object
\* is called unreadable only with reason.
THEOREM CoordinatorReadsHonestly == Spec => []GetIsHonest
<1>1. Inv => GetIsHonest
      BY DEF Inv, GetInv, Honest, GetIsHonest
<1> QED BY <1>1, CoordinatorInvariant, PTL
=============================================================================
