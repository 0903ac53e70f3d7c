--------------------------- MODULE RotationProofs ---------------------------
EXTENDS TrustProofs

(***************************************************************************)
(* Rotations.  A driver's CA is out of use until its first bundle commits. *)
(* As long as no later bundle has, whoever holds a certificate of it has   *)
(* applied that bundle, and so keeps that certificate; and nobody signs    *)
(* with it.  The compare-and-set on the version is what makes "as long as" *)
(* good enough: a narrowing that commits was never overtaken.              *)
(***************************************************************************)
Marks == {"ver", "cas", "issuer", "rows"}

\* The CA that comes first in a file or a bundle: the one a process signs with.
Lead(s) == IF s = << >> THEN {} ELSE {Head(s)}
Signs(x) == Lead(node[x].caPem) \cup {node[x].ca.cert}

EntryShape(s) ==
    /\ Marks \subseteq DOMAIN s /\ s.ver \in Nat /\ s.cas \in Seq(Nat)
    /\ s.ver # 0 => s.cas # << >>
    /\ DOMAIN s.rows \subseteq Node

HistShape ==
    /\ \E S : hist \in Seq(S)
    /\ hist # << >> /\ \A k \in DOMAIN hist : EntryShape(hist[k])
    /\ \A k, l \in DOMAIN hist : k <= l => hist[k].ver <= hist[l].ver
    /\ applied \in [Node -> DOMAIN hist]

FilesShape ==
    \A x \in Node :
        /\ node[x].caPem \in Seq(Nat) /\ node[x].ca.cert \in Nat
        /\ IF node[x].life = "none" THEN node[x].pem = 0 ELSE node[x].caPem # << >>

DriverFields == {"pc", "ca", "ver", "cas", "wait", "todo", "seen"}
DriverShape ==
    /\ DOMAIN driver = Node /\ minted \in Nat
    /\ \A n \in Node :
         /\ DriverFields \subseteq DOMAIN driver[n]
         /\ driver[n].pc # "idle" =>
              driver[n].ca \in 1..minted /\ driver[n].ver \in Nat /\ driver[n].cas \in Seq(Nat)

\* No two rotations, under way or abandoned with a proposal out, share a CA.
Apart ==
    /\ \A n, m \in Node : n # m /\ driver[n].pc # "idle" /\ driver[m].pc # "idle" =>
                            driver[n].ca # driver[m].ca
    /\ \A b \in loose :
         /\ b.issuer \in 1..minted
         /\ \A n \in Node : driver[n].pc # "idle" => driver[n].ca # b.issuer

Rooted(s) == \E k \in DOMAIN hist : Lead(s) = Lead(hist[k].cas)
LooseShape ==
    \A b \in loose : /\ b.ver \in Nat /\ b.cas \in Seq(Nat) /\ b.cas # << >>
                     /\ Rooted(b.cas) \/ Lead(b.cas) = {b.issuer}

\* A CA nobody has met.
Clear(c) ==
    /\ \A k \in DOMAIN hist :
         /\ hist[k].issuer # c /\ c \notin Lead(hist[k].cas)
         /\ \A m \in DOMAIN hist[k].rows : hist[k].rows[m] # c
    /\ \A x \in Node : node[x].pem # c /\ c \notin Signs(x)

Unused == \A c \in Nat : c > minted => Clear(c)

\* A CA installed with version v, the latest.
Holding(c, v) ==
    /\ \A k \in DOMAIN hist :
         /\ (hist[k].ver = v) <=> (hist[k].issuer = c)
         /\ c \notin Lead(hist[k].cas)
         /\ \A m \in DOMAIN hist[k].rows \ unheard : hist[k].rows[m] = c => node[m].pem = c
    /\ \A x \in Node : c \notin Signs(x) /\ (node[x].pem = c => Store(x).ver = v)

Reached(S, c) == \A m \in S \ unheard : m \in Node /\ node[m].pem = c

Mid == {"members", "trust", "reissue", "answer", "converge"}
Plan(d) ==
    /\ d.pc = "widen" => Clear(d.ca) /\ Rooted(d.cas) /\ d.cas # << >>
    /\ d.pc \in Mid \cup {"narrow"} =>
         /\ d.ver <= Tip.ver
         /\ d.ver = Tip.ver =>
              Holding(d.ca, d.ver) /\ (d.pc = "narrow" => Reached(d.seen, d.ca))

RotationInv ==
    /\ HistShape /\ FilesShape /\ DriverShape /\ LooseShape /\ Apart /\ Unused
    /\ \A n \in Node : Plan(driver[n])

LEMMA HistFacts ==
    ASSUME HistShape
    PROVE  /\ Len(hist) \in Nat \ {0} /\ DOMAIN hist = 1..Len(hist) /\ Len(hist) \in DOMAIN hist
           /\ EntryShape(Tip) /\ \A k \in DOMAIN hist : hist[k].ver \in Nat /\ hist[k].ver <= Tip.ver
           /\ \A x \in Node : applied[x] \in DOMAIN hist /\ Store(x) = hist[applied[x]]
  <1>1. PICK S : hist \in Seq(S)
    BY DEF HistShape
  <1>2. Len(hist) \in Nat \ {0} /\ DOMAIN hist = 1..Len(hist) /\ Len(hist) \in DOMAIN hist
    BY <1>1 DEF HistShape
  <1>3. \A k \in DOMAIN hist : k <= Len(hist)
    BY <1>2
  <1>. QED
    BY <1>2, <1>3 DEF HistShape, Tip, Store, EntryShape

(***************************************************************************)
(* Steps that leave the history alone.                                     *)
(***************************************************************************)
\* What becomes of the files: a node takes up the CA of its store's issuer or bundle, or,
\* joining, one that its issuer signs with.  T is what rotations that ended sign with.
FilesMove(T) ==
    \A x \in Node :
        /\ \A c \in Signs(x)' : \/ c = 0 \/ c \in T
                                \/ \E y \in Node : c \in Signs(y)
                                \/ c \in Lead(Store(x).cas)
        /\ \/ node'[x].pem = node[x].pem
           \/ (node'[x].pem = Store(x).issuer /\ applied'[x] = applied[x])
           \/ (node[x].life = "none" /\ \E y \in Node : node'[x].pem \in Signs(y))

AppliedGrows ==
    applied' \in [Node -> DOMAIN hist] /\ \A x \in Node : applied[x] <= applied'[x]

LEMMA StillGrows ==
    ASSUME HistShape, applied' = applied
    PROVE  AppliedGrows
  <1>1. applied \in [Node -> DOMAIN hist] /\ \A x \in Node : applied[x] \in Nat
    BY HistFacts DEF HistShape
  <1>. QED
    BY <1>1 DEF AppliedGrows

LEMMA FilesKeepClear ==
    ASSUME HistShape, hist' = hist, NEW T, FilesMove(T), NEW c, c \notin T, c # 0, Clear(c)
    PROVE  Clear(c)'
  <1>1. \A x \in Node : Store(x).issuer # c /\ c \notin Lead(Store(x).cas)
    BY HistFacts DEF Clear
  <1>2. \A x \in Node : node'[x].pem # c /\ c \notin Signs(x)'
    BY <1>1 DEF FilesMove, Clear
  <1>. QED
    BY <1>2 DEF Clear

LEMMA FilesKeepHolding ==
    ASSUME HistShape, FilesShape, hist' = hist, AppliedGrows, unheard' = unheard, NEW T,
           FilesMove(T), NEW c, c \notin T, c # 0, Holding(c, Tip.ver)
    PROVE  /\ Holding(c, Tip.ver)'
           /\ \A m \in Node : node[m].pem = c => node'[m].pem = c
  <1>. DEFINE v == Tip.ver
  <1>1. ASSUME NEW x \in Node, node[x].pem = c PROVE node'[x].pem = c
    <2>1. Store(x).issuer = c /\ node[x].life # "none"
      BY <1>1, HistFacts DEF Holding, FilesShape
    <2>. QED
      BY <1>1, <2>1 DEF FilesMove
  <1>2. ASSUME NEW x \in Node PROVE c \notin Signs(x)'
    BY HistFacts DEF FilesMove, Holding
  <1>3. ASSUME NEW x \in Node, node'[x].pem = c PROVE hist[applied'[x]].ver = v
    <2>1. Store(x).ver = v
      <3>1. CASE node'[x].pem = node[x].pem
        BY <1>3, <3>1 DEF Holding
      <3>2. CASE node'[x].pem = Store(x).issuer
        BY <1>3, <3>2, HistFacts DEF Holding
      <3>. QED
        BY <1>3, <3>1, <3>2 DEF FilesMove, Holding
    <2>2. applied[x] \in DOMAIN hist /\ applied'[x] \in DOMAIN hist /\ applied[x] <= applied'[x]
      BY HistFacts DEF AppliedGrows
    <2>3. hist[applied[x]].ver <= hist[applied'[x]].ver /\ hist[applied'[x]].ver <= v
          /\ hist[applied'[x]].ver \in Nat /\ v \in Nat
      BY <2>2, HistFacts DEF HistShape, EntryShape
    <2>. QED
      BY <2>1, <2>3 DEF Store
  <1>4. Tip' = Tip /\ \A x \in Node : Store(x)' = hist[applied'[x]]
    BY DEF Tip, Store
  <1>5. \A k \in DOMAIN hist : \A m \in DOMAIN hist[k].rows : m \in Node
    BY DEF HistShape, EntryShape
  <1>. QED
    BY <1>1, <1>2, <1>3, <1>4, <1>5 DEF Holding

(***************************************************************************)
(* Steps that extend the history.                                          *)
(***************************************************************************)
\* A command is accepted, and the leader has applied it.
Extends(s) ==
    /\ hist' = Append(hist, s) /\ EntryShape(s) /\ Tip.ver <= s.ver
    /\ \E n : applied' = [applied EXCEPT ![n] = Len(hist')]

LEMMA ExtendFacts ==
    ASSUME HistShape, NEW s, Extends(s)
    PROVE  /\ HistShape' /\ Tip' = s
           /\ \A k \in (DOMAIN hist)' : (k \in DOMAIN hist /\ hist'[k] = hist[k]) \/ hist'[k] = s
           /\ \A k \in DOMAIN hist : k \in (DOMAIN hist)' /\ hist'[k] = hist[k]
           /\ \A x \in Node : Store(x)' = Store(x) \/ Store(x)' = s
  <1>. DEFINE l == Len(hist)
  <1>1. PICK S : hist \in Seq(S)
    BY DEF HistShape
  <1>2. l \in Nat /\ DOMAIN hist = 1..l
    BY HistFacts
  <1>3. hist \in Seq(S \cup {s})
    BY <1>1, <1>2
  <1>4. hist' \in Seq(S \cup {s}) /\ hist' = Append(hist, s)
    BY <1>3 DEF Extends
  <1>5. /\ Len(hist') = l + 1 /\ (DOMAIN hist)' = 1..(l + 1) /\ hist'[l + 1] = s
        /\ \A k \in 1..l : hist'[k] = hist[k]
    BY <1>3, <1>4, <1>2
  <1>. HIDE DEF l
  <1>6. PICK n : applied' = [applied EXCEPT ![n] = l + 1]
    BY Zenon, <1>5 DEF Extends
  <1>7. applied \in [Node -> 1..l] /\ \A j, k \in 1..l : j <= k => hist[j].ver <= hist[k].ver
    BY <1>2 DEF HistShape
  <1>10. applied' \in [Node -> 1..(l + 1)]
    <2>1. \A x \in Node : applied[x] \in 1..(l + 1) /\ l + 1 \in 1..(l + 1)
      BY <1>2, <1>7
    <2>2. \A x \in Node : applied'[x] \in 1..(l + 1)
      BY <1>6, <1>7, <2>1
    <2>. QED
      BY Zenon, <1>6, <1>7, <2>2
  <1>8. \A k \in (DOMAIN hist)' : EntryShape(hist'[k])
    BY <1>2, <1>5 DEF Extends, HistShape
  <1>9. ASSUME NEW j \in 1..(l + 1), NEW k \in 1..(l + 1), j <= k
        PROVE  hist'[j].ver <= hist'[k].ver
    <2>1. CASE k <= l
      <3>1. j \in 1..l /\ k \in 1..l
        BY <1>2, <1>9, <2>1
      <3>. QED
        BY <1>5, <1>7, <1>9, <3>1
    <2>2. CASE k = l + 1 /\ j <= l
      <3>1. j \in 1..l /\ hist'[j] = hist[j] /\ hist'[k] = s
        BY <1>2, <1>5, <1>9, <2>2
      <3>2. hist[j].ver \in Nat /\ hist[j].ver <= Tip.ver /\ Tip.ver \in Nat
        BY <1>2, <3>1, HistFacts DEF EntryShape
      <3>3. s.ver \in Nat /\ Tip.ver <= s.ver
        BY DEF Extends, EntryShape
      <3>. QED
        BY <3>1, <3>2, <3>3
    <2>3. CASE k = l + 1 /\ j = l + 1
      BY <1>5, <2>3 DEF Extends, EntryShape
    <2>. QED
      BY <1>2, <1>9, <2>1, <2>2, <2>3
  <1>11. HistShape'
    BY <1>2, <1>4, <1>5, <1>8, <1>9, <1>10 DEF HistShape, EntryShape
  <1>12. Tip' = s
    BY <1>5 DEF Tip
  <1>13. ASSUME NEW x \in Node PROVE Store(x)' = Store(x) \/ Store(x)' = s
    <2>1. applied[x] \in 1..l /\ applied'[x] = IF x = n THEN l + 1 ELSE applied[x]
      BY <1>6, <1>7
    <2>. QED
      BY <1>5, <2>1 DEF Store
  <1>. QED
    BY <1>2, <1>5, <1>11, <1>12, <1>13

LEMMA ExtendKeepsClear ==
    ASSUME HistShape, NEW s, Extends(s), node' = node, NEW c, Clear(c),
           s.issuer # c, c \notin Lead(s.cas), \A m \in DOMAIN s.rows : s.rows[m] # c
    PROVE  Clear(c)'
  <1>1. \A x \in Node : Signs(x)' = Signs(x)
    BY DEF Signs
  <1>2. \A k \in (DOMAIN hist)' : (k \in DOMAIN hist /\ hist'[k] = hist[k]) \/ hist'[k] = s
    BY ExtendFacts
  <1>. QED
    BY <1>1, <1>2 DEF Clear

\* What the registry is told of the certificates: what it knew, nothing, or the truth about
\* every member that was heard.
RowsKnown(s, e) ==
    \A m \in DOMAIN s.rows :
        \/ m \in DOMAIN Tip.rows /\ s.rows[m] = Tip.rows[m]
        \/ s.rows[m] = 0
        \/ (s.rows[m] = e /\ (m \in unheard' \/ node[m].pem = e))

\* A command that is not about the bundle.
Notes(s, e) ==
    /\ Extends(s) /\ s.ver = Tip.ver /\ s.issuer = Tip.issuer /\ s.cas = Tip.cas
    /\ node' = node /\ unheard \subseteq unheard' /\ RowsKnown(s, e)

LEMMA NotesKeepHolding ==
    ASSUME HistShape, NEW s, NEW e, Notes(s, e), NEW c, c # 0, Holding(c, Tip.ver)
    PROVE  Holding(c, Tip.ver)'
  <1>1. \A x \in Node : Signs(x)' = Signs(x)
    BY DEF Signs, Notes
  <1>2. /\ Tip' = s
        /\ \A k \in (DOMAIN hist)' : (k \in DOMAIN hist /\ hist'[k] = hist[k]) \/ hist'[k] = s
        /\ \A x \in Node : Store(x)' = Store(x) \/ Store(x)' = s
    BY ExtendFacts DEF Notes
  <1>3. Len(hist) \in DOMAIN hist /\ Tip = hist[Len(hist)]
    BY HistFacts DEF Tip
  <1>4. s.issuer = c /\ c \notin Lead(s.cas) /\ s.ver = Tip.ver
    BY <1>3 DEF Notes, Holding
  <1>5. \A m \in DOMAIN s.rows \ unheard' : s.rows[m] = c => node'[m].pem = c
    BY <1>3 DEF Notes, RowsKnown, Holding
  <1>6. \A k \in DOMAIN hist : \A m \in DOMAIN hist[k].rows \ unheard' :
          hist[k].rows[m] = c => node'[m].pem = c
    BY DEF Notes, Holding
  <1>7. \A x \in Node : node'[x].pem = c => (Store(x)').ver = Tip.ver
    BY <1>2, <1>4 DEF Notes, Holding
  <1>8. \A k \in DOMAIN hist : /\ (hist[k].ver = Tip.ver) <=> (hist[k].issuer = c)
                               /\ c \notin Lead(hist[k].cas)
    BY DEF Holding
  <1>9. \A x \in Node : c \notin Signs(x)'
    BY <1>1 DEF Holding
  <1>. QED
    BY <1>2, <1>4, <1>5, <1>6, <1>7, <1>8, <1>9 DEF Holding

(***************************************************************************)
(* The rotations.                                                          *)
(***************************************************************************)
Onward(d, e) ==
    /\ DriverFields \subseteq DOMAIN e
    /\ \/ e.pc = "idle"
       \/ (d.pc # "idle" /\ e.ca = d.ca /\ e.ver = d.ver /\ e.cas = d.cas)

\* What becomes a proposal nobody waits for is a bundle of a rotation that ends.
LooseMove ==
    \A b \in loose' \ loose :
        /\ \E n \in Node : driver[n].pc # "idle" /\ driver'[n].pc = "idle"
                           /\ b.issuer = driver[n].ca
        /\ b.ver \in Nat /\ b.cas \in Seq(Nat) /\ b.cas # << >>
        /\ Rooted(b.cas) \/ Lead(b.cas) = {b.issuer}

DriversMove ==
    /\ DOMAIN driver' = Node /\ \A n \in Node : Onward(driver[n], driver'[n])
    /\ LooseMove /\ minted' = minted

LEMMA DriversStayApart ==
    ASSUME DriverShape, LooseShape, Apart, DriversMove,
           \A k \in DOMAIN hist : k \in (DOMAIN hist)' /\ hist'[k] = hist[k]
    PROVE  DriverShape' /\ LooseShape' /\ Apart'
  <1>1. DriverShape'
    BY DEF DriverShape, DriversMove, Onward
  <1>2. \A t : Rooted(t) => Rooted(t)'
    BY DEF Rooted
  <1>3. LooseShape'
    BY Zenon, <1>2 DEF LooseShape, DriversMove, LooseMove
  <1>4. ASSUME NEW n \in Node, driver'[n].pc # "idle"
        PROVE  driver[n].pc # "idle" /\ driver'[n].ca = driver[n].ca
    BY <1>4 DEF DriversMove, Onward
  <1>5. ASSUME NEW b \in loose'
        PROVE  /\ b.issuer \in 1..minted
               /\ \A n \in Node : driver'[n].pc # "idle" => driver'[n].ca # b.issuer
    <2>1. CASE b \in loose
      BY <1>4, <2>1 DEF Apart
    <2>2. CASE b \notin loose
      BY <1>4, <2>2 DEF Apart, DriversMove, LooseMove, DriverShape
    <2>. QED
      BY <2>1, <2>2
  <1>6. Apart'
    BY <1>4, <1>5 DEF Apart, DriversMove
  <1>. QED
    BY <1>1, <1>3, <1>6

Advances(d, e) ==
    \/ e = d \/ e.pc = "idle"
    \/ (d.pc \in Mid /\ e.pc \in Mid)
    \/ (d.pc = "converge" /\ e.pc = "narrow" /\ (d.ver = Tip.ver => Reached(e.seen, d.ca)))

LEMMA PlansAdvance ==
    ASSUME NEW d, NEW e, Plan(d), Onward(d, e), Advances(d, e)
    PROVE  /\ e.pc = "widen" => e = d
           /\ e.pc \in Mid \cup {"narrow"} =>
                /\ d.pc \in Mid \cup {"narrow"} /\ e.ver = d.ver /\ e.ca = d.ca /\ e.ver <= Tip.ver
                /\ e.ver = Tip.ver => Holding(e.ca, Tip.ver)
                                      /\ (e.pc = "narrow" => Reached(e.seen, e.ca))
  <1>1. \A p \in Mid : p \notin {"idle", "widen", "narrow", "issuer"}
    BY DEF Mid
  <1>2. "converge" \in Mid
    BY DEF Mid
  <1>. QED
    BY <1>1, <1>2 DEF Plan, Onward, Advances

\* Nothing is committed.
QuietStep(T) ==
    /\ hist' = hist /\ unheard' = unheard /\ AppliedGrows /\ FilesShape' /\ FilesMove(T)
    /\ DriversMove /\ \A n \in Node : Advances(driver[n], driver'[n])
    /\ \A c \in T : \E n \in Node : /\ driver[n].pc # "idle" /\ driver'[n].pc = "idle"
                                    /\ c = driver[n].ca

LEMMA QuietKeeps ==
    ASSUME RotationInv, NEW T, QuietStep(T)
    PROVE  RotationInv'
  <1>1. HistShape /\ FilesShape /\ DriverShape /\ LooseShape /\ Apart /\ Unused
    BY DEF RotationInv
  <1>2. HistShape' /\ Tip' = Tip
    BY <1>1 DEF HistShape, EntryShape, QuietStep, AppliedGrows, Tip
  <1>3. DriverShape' /\ LooseShape' /\ Apart'
    BY <1>1, DriversStayApart DEF QuietStep
  <1>4. \A c \in T : c \in 1..minted
    BY <1>1 DEF QuietStep, DriverShape
  <1>5. ASSUME NEW n \in Node, driver'[n].pc # "idle"
        PROVE  driver'[n].ca \notin T /\ driver'[n].ca # 0
    <2>1. driver[n].pc # "idle" /\ driver'[n].ca = driver[n].ca
      BY <1>5 DEF QuietStep, DriversMove, Onward
    <2>2. driver[n].ca # 0
      BY <1>1, <2>1 DEF DriverShape
    <2>. QED
      BY <1>1, <1>5, <2>1, <2>2 DEF QuietStep, Apart
  <1>6. Unused'
    <2>1. ASSUME NEW c \in Nat, c > minted PROVE Clear(c)'
      <3>1. minted \in Nat /\ minted' = minted
        BY <1>1 DEF DriverShape, QuietStep, DriversMove
      <3>2. c # 0 /\ c \notin T /\ Clear(c)
        BY <1>1, <1>4, <2>1, <3>1 DEF Unused
      <3>. QED
        BY <1>1, <3>2, FilesKeepClear DEF QuietStep
    <2>. QED
      BY <2>1 DEF Unused, QuietStep, DriversMove
  <1>7. ASSUME NEW n \in Node PROVE Plan(driver[n])'
    <2>1. PICK d, e : d = driver[n] /\ e = driver'[n]
      OBVIOUS
    <2>2. /\ Plan(d) /\ Onward(d, e) /\ Advances(d, e)
          /\ e.pc # "idle" => e.ca \notin T /\ e.ca # 0
      BY <1>5, <2>1 DEF RotationInv, QuietStep, DriversMove
    <2>3. /\ e.pc = "widen" => e = d
          /\ e.pc \in Mid \cup {"narrow"} =>
               /\ d.pc \in Mid \cup {"narrow"} /\ e.ver = d.ver /\ e.ca = d.ca /\ e.ver <= Tip.ver
               /\ e.ver = Tip.ver => Holding(e.ca, Tip.ver)
                                      /\ (e.pc = "narrow" => Reached(e.seen, e.ca))
      BY <2>2, PlansAdvance
    <2>4. ASSUME e.pc = "widen" PROVE Clear(e.ca)' /\ Rooted(e.cas)' /\ e.cas # << >>
      <3>1. Clear(e.ca) /\ Rooted(e.cas) /\ e.cas # << >>
        BY <2>2, <2>3, <2>4 DEF Plan
      <3>. QED
        BY <1>1, <2>2, <2>4, <3>1, FilesKeepClear DEF QuietStep, Rooted
    <2>5. ASSUME e.pc \in Mid \cup {"narrow"}, e.ver = Tip.ver
          PROVE  Holding(e.ca, e.ver)' /\ (e.pc = "narrow" => Reached(e.seen, e.ca)')
      <3>1. e.pc # "idle"
        BY <2>5 DEF Mid
      <3>2. /\ Holding(e.ca, Tip.ver)'
            /\ \A m \in Node : node[m].pem = e.ca => node'[m].pem = e.ca
        BY <1>1, <2>2, <2>3, <2>5, <3>1, FilesKeepHolding DEF QuietStep
      <3>. QED
        BY <1>2, <2>3, <2>5, <3>2 DEF Reached, QuietStep
    <2>. QED
      BY <1>2, <2>1, <2>3, <2>4, <2>5 DEF Plan
  <1>. QED
    BY <1>2, <1>3, <1>6, <1>7 DEF RotationInv, QuietStep

\* A command that is not about the bundle is accepted.
NoteStep(s, e) ==
    /\ Notes(s, e) /\ DriversMove
    /\ \A n \in Node : \/ driver'[n] = driver[n]
                       \/ (driver[n].pc \in Mid /\ driver'[n].pc \in Mid)
    /\ e = 0 \/ \E n \in Node : driver[n].pc \in Mid /\ e = driver[n].ca

LEMMA NoteKeeps ==
    ASSUME RotationInv, NEW s, NEW e, NoteStep(s, e)
    PROVE  RotationInv'
  <1>1. HistShape /\ FilesShape /\ DriverShape /\ LooseShape /\ Apart /\ Unused
    BY DEF RotationInv
  <1>2. Notes(s, e) /\ Extends(s) /\ node' = node /\ DriversMove
    BY DEF NoteStep, Notes
  <1>3. /\ HistShape' /\ Tip' = s /\ s.ver = Tip.ver
        /\ \A k \in DOMAIN hist : k \in (DOMAIN hist)' /\ hist'[k] = hist[k]
    BY <1>1, <1>2, ExtendFacts DEF Notes
  <1>4. DriverShape' /\ LooseShape' /\ Apart'
    BY <1>1, <1>2, <1>3, DriversStayApart
  <1>5. FilesShape'
    BY <1>1, <1>2 DEF FilesShape
  <1>6. ASSUME NEW c, c # 0, c # e, Clear(c) PROVE Clear(c)'
    <2>1. Len(hist) \in DOMAIN hist /\ Tip = hist[Len(hist)]
      BY <1>1, HistFacts DEF Tip
    <2>2. \A m \in DOMAIN s.rows : s.rows[m] # c
      BY <1>2, <1>6, <2>1 DEF Notes, RowsKnown, Clear
    <2>3. s.issuer # c /\ c \notin Lead(s.cas)
      BY <1>2, <1>6, <2>1 DEF Notes, Clear
    <2>. QED
      BY <1>1, <1>2, <1>6, <2>2, <2>3, ExtendKeepsClear
  <1>7. "widen" \notin Mid /\ "narrow" \notin Mid /\ "idle" \notin Mid
    BY DEF Mid
  <1>8. e = 0 \/ e \in 1..minted
    BY <1>1, <1>7 DEF NoteStep, DriverShape
  <1>9. Unused'
    <2>1. minted \in Nat /\ minted' = minted
      BY <1>1, <1>2 DEF DriverShape, DriversMove
    <2>2. ASSUME NEW c \in Nat, c > minted PROVE Clear(c)'
      <3>1. c # 0 /\ c # e /\ Clear(c)
        BY <1>1, <1>8, <2>1, <2>2 DEF Unused
      <3>. QED
        BY <1>6, <3>1
    <2>. QED
      BY <2>1, <2>2 DEF Unused
  <1>10. ASSUME NEW n \in Node PROVE Plan(driver[n])'
    <2>1. PICK c, d, f : c = driver[n].ca /\ d = driver[n] /\ f = driver'[n]
      OBVIOUS
    <2>2. Plan(d) /\ Onward(d, f) /\ (f = d \/ (d.pc \in Mid /\ f.pc \in Mid))
      BY <1>2, <2>1 DEF RotationInv, NoteStep, DriversMove
    <2>3. ASSUME f.pc = "widen" PROVE Clear(f.ca)' /\ Rooted(f.cas)' /\ f.cas # << >>
      <3>1. f = d /\ Clear(f.ca) /\ Rooted(f.cas) /\ f.cas # << >>
        BY <1>7, <2>2, <2>3 DEF Plan
      <3>2. f.ca # 0 /\ f.ca # e
        BY <1>1, <1>7, <2>1, <2>3, <3>1 DEF NoteStep, DriverShape, Apart
      <3>. QED
        BY <1>3, <1>6, <3>1, <3>2 DEF Rooted
    <2>4. ASSUME f.pc \in Mid \cup {"narrow"}
          PROVE  /\ f.ver <= Tip.ver /\ f.ca # 0
                 /\ f.ver = Tip.ver => Holding(f.ca, Tip.ver)
                                       /\ (f.pc = "narrow" => Reached(f.seen, f.ca))
      <3>1. d.pc \in Mid \cup {"narrow"} /\ f.ver = d.ver /\ f.ca = d.ca /\ (f.pc = "narrow" => f = d)
        BY <1>7, <2>2, <2>4 DEF Onward
      <3>2. d.ca # 0
        BY <1>1, <1>7, <2>1, <3>1 DEF DriverShape
      <3>. QED
        BY <2>2, <3>1, <3>2 DEF Plan
    <2>5. ASSUME f.pc \in Mid \cup {"narrow"}, f.ver = Tip.ver
          PROVE  Holding(f.ca, f.ver)' /\ (f.pc = "narrow" => Reached(f.seen, f.ca)')
      <3>1. Holding(f.ca, Tip.ver)'
        BY <1>1, <1>2, <2>4, <2>5, NotesKeepHolding
      <3>2. f.pc = "narrow" => Reached(f.seen, f.ca)'
        BY <1>2, <2>4, <2>5 DEF Reached, Notes
      <3>. QED
        BY <1>3, <2>5, <3>1, <3>2
    <2>. QED
      BY <1>3, <2>1, <2>3, <2>4, <2>5 DEF Plan
  <1>. QED
    BY <1>3, <1>4, <1>5, <1>9, <1>10 DEF RotationInv

\* A bundle is accepted, with the version that follows.
Opens(d, e, s) ==
    /\ d.pc = "widen" /\ e.pc = "members" /\ s.ver = d.ver /\ s.issuer = d.ca /\ s.cas = d.cas

\* The CAs that are still to be installed after the step.
Awaited(c) ==
    \/ (c \in Nat /\ c > minted)
    \/ (\E n \in Node : driver'[n].pc = "widen" /\ c = driver'[n].ca)

InstallStep(s) ==
    /\ Extends(s) /\ s.ver = Tip.ver + 1 /\ s.rows = Tip.rows /\ node' = node /\ DriversMove
    /\ \A n \in Node : \/ driver'[n] = driver[n] \/ driver'[n].pc = "issuer"
                       \/ Opens(driver[n], driver'[n], s)
    /\ \A c : Clear(c) /\ Awaited(c) => s.issuer # c /\ c \notin Lead(s.cas)

LEMMA InstallKeeps ==
    ASSUME RotationInv, NEW s, InstallStep(s)
    PROVE  RotationInv'
  <1>1. HistShape /\ FilesShape /\ DriverShape /\ LooseShape /\ Apart /\ Unused
    BY DEF RotationInv
  <1>2. Extends(s) /\ node' = node /\ DriversMove /\ s.ver = Tip.ver + 1 /\ s.rows = Tip.rows
    BY DEF InstallStep
  <1>3. /\ HistShape' /\ Tip' = s
        /\ \A k \in DOMAIN hist : k \in (DOMAIN hist)' /\ hist'[k] = hist[k]
        /\ \A k \in (DOMAIN hist)' : (k \in DOMAIN hist /\ hist'[k] = hist[k]) \/ hist'[k] = s
    BY <1>1, <1>2, ExtendFacts
  <1>4. DriverShape' /\ LooseShape' /\ Apart'
    BY <1>1, <1>2, <1>3, DriversStayApart
  <1>5. FilesShape'
    BY <1>1, <1>2 DEF FilesShape
  <1>6. Len(hist) \in DOMAIN hist /\ Tip = hist[Len(hist)] /\ Tip.ver \in Nat
    BY <1>1, HistFacts DEF Tip, EntryShape
  <1>7. ASSUME NEW c, Clear(c), Awaited(c) PROVE Clear(c)'
    <2>1. s.issuer # c /\ c \notin Lead(s.cas)
      BY <1>7 DEF InstallStep
    <2>2. \A m \in DOMAIN s.rows : s.rows[m] # c
      BY <1>2, <1>6, <1>7 DEF Clear
    <2>. QED
      BY <1>1, <1>2, <1>7, <2>1, <2>2, ExtendKeepsClear
  <1>8. Unused'
    BY <1>1, <1>2, <1>7 DEF Unused, DriversMove, Awaited
  <1>9. ASSUME NEW n \in Node PROVE Plan(driver[n])'
    <2>1. PICK d, f : d = driver[n] /\ f = driver'[n]
      OBVIOUS
    <2>2. Plan(d) /\ Onward(d, f) /\ (f = d \/ f.pc = "issuer" \/ Opens(d, f, s))
      BY <1>2, <2>1 DEF RotationInv, InstallStep, DriversMove
    <2>3. d.pc # "idle" => d.ver \in Nat
      BY <1>1, <2>1 DEF DriverShape
    <2>4. CASE f = d
      <3>1. f.pc = "widen" => Clear(f.ca)' /\ Rooted(f.cas)' /\ f.cas # << >>
        BY Zenon, <1>3, <1>7, <2>1, <2>2, <2>4 DEF Plan, Rooted, Awaited
      <3>2. f.pc \in Mid \cup {"narrow"} => f.ver < s.ver
        BY <1>2, <1>6, <2>2, <2>3, <2>4 DEF Plan, Mid
      <3>3. f.pc \in Mid \cup {"narrow"} => f.ver <= s.ver /\ f.ver # s.ver
        BY <1>2, <1>6, <2>3, <2>4, <3>2 DEF Mid
      <3>. QED
        BY <1>3, <2>1, <3>1, <3>3 DEF Plan
    <2>5. CASE f.pc = "issuer"
      BY <2>1, <2>5 DEF Plan, Mid
    <2>6. CASE Opens(d, f, s)
      <3>1. Clear(d.ca) /\ Rooted(d.cas) /\ f.pc = "members" /\ f.ca = d.ca /\ f.ver = d.ver
        BY <2>2, <2>6 DEF Plan, Opens, Onward
      <3>2. PICK c : c = d.ca
        OBVIOUS
      <3>3. \A k \in DOMAIN hist : hist[k].ver # s.ver
        BY <1>1, <1>2, <1>6, HistFacts
      <3>4. c \notin Lead(s.cas) /\ s.issuer = c
        BY <2>6, <3>1, <3>2 DEF Rooted, Clear, Opens
      <3>5. /\ \A m \in DOMAIN s.rows : s.rows[m] # c
            /\ \A k \in DOMAIN hist : /\ hist[k].issuer # c /\ c \notin Lead(hist[k].cas)
                                      /\ \A m \in DOMAIN hist[k].rows : hist[k].rows[m] # c
        BY <1>2, <1>6, <3>1, <3>2 DEF Clear
      <3>6. \A x \in Node : node'[x].pem # c /\ c \notin Signs(x)'
        BY <1>2, <3>1, <3>2 DEF Clear, Signs
      <3>7. Holding(c, s.ver)'
        BY <1>3, <3>3, <3>4, <3>5, <3>6 DEF Holding
      <3>. QED
        <4>1. f.pc = "members" /\ f.ca = c /\ f.ver = s.ver /\ Tip' = s /\ s.ver \in Nat
          BY <1>2, <1>3, <1>6, <2>6, <3>1, <3>2 DEF Opens
        <4>2. Plan(f)'
          BY <3>7, <4>1 DEF Plan
        <4>. QED
          BY <2>1, <4>2
    <2>. QED
      BY <2>2, <2>4, <2>5, <2>6
  <1>. QED
    BY <1>3, <1>4, <1>5, <1>8, <1>9 DEF RotationInv

\* A rotation starts, with a CA of its own.
LEMMA PrepareKeeps ==
    ASSUME RotationInv, NEW n \in Node, RotatePrepare(n)
    PROVE  RotationInv'
  <1>1. HistShape /\ FilesShape /\ DriverShape /\ LooseShape /\ Apart /\ Unused
    BY DEF RotationInv
  <1>2. UNCHANGED << hist, applied, node, loose, unheard >> /\ minted' = minted + 1
    BY DEF RotatePrepare, raft, missed
  <1>3. PICK c, d : /\ c = minted + 1
                    /\ d = [NoRotation EXCEPT !.pc = "widen", !.ca = c, !.ver = Store(n).ver + 1,
                                             !.cas = Append(Store(n).cas, c)]
    BY Zenon
  <1>4. driver' = [driver EXCEPT ![n] = d] /\ driver[n].pc = "idle" /\ Store(n).ver # 0
    BY <1>2, <1>3 DEF RotatePrepare, RotateCA, DriverAt
  <1>5. /\ DriverFields \subseteq DOMAIN d /\ d.pc = "widen" /\ d.ca = c
        /\ d.ver = Store(n).ver + 1 /\ d.cas = Append(Store(n).cas, c)
    BY <1>3 DEF NoRotation, DriverFields
  <1>6. /\ minted \in Nat /\ c \in 1..(minted + 1) /\ c \in Nat /\ c > minted
        /\ 1..minted \subseteq 1..(minted + 1)
    BY <1>1, <1>3 DEF DriverShape
  <1>7. /\ Store(n).ver \in Nat /\ Store(n).cas \in Seq(Nat) /\ Store(n).cas # << >>
        /\ \E k \in DOMAIN hist : Store(n).cas = hist[k].cas
    BY <1>1, <1>4, HistFacts DEF HistShape, EntryShape
  <1>8. \A t \in Seq(Nat) : t # << >> => /\ Append(t, c) \in Seq(Nat) /\ Append(t, c) # << >>
                                         /\ Head(Append(t, c)) = Head(t)
    BY <1>6
  <1>9. d.ver \in Nat /\ d.cas \in Seq(Nat) /\ d.cas # << >> /\ Rooted(d.cas)
    <2>1. d.ver \in Nat /\ d.cas \in Seq(Nat) /\ d.cas # << >>
      <3>1. PICK t : t = Store(n).cas
        OBVIOUS
      <3>2. d.cas = Append(t, c) /\ t \in Seq(Nat) /\ t # << >>
        BY <1>5, <1>7, <3>1
      <3>3. d.cas \in Seq(Nat) /\ d.cas # << >>
        BY <1>8, <3>2
      <3>4. d.ver \in Nat
        BY <1>5, <1>7
      <3>. QED
        BY <3>3, <3>4
    <2>2. Lead(d.cas) = Lead(Store(n).cas)
      BY <1>5, <1>7, <1>8 DEF Lead
    <2>. QED
      BY Zenon, <1>7, <2>1, <2>2 DEF Rooted
  <1>10. driver'[n] = d /\ \A x \in Node \ {n} : driver'[x] = driver[x]
    BY <1>1, <1>4 DEF DriverShape
  <1>11. DriverShape'
    <2>1. ASSUME NEW x \in Node
          PROVE  /\ DriverFields \subseteq DOMAIN driver'[x]
                 /\ driver'[x].pc # "idle" => /\ driver'[x].ca \in 1..(minted + 1)
                                              /\ driver'[x].ver \in Nat /\ driver'[x].cas \in Seq(Nat)
      <3>1. CASE x = n
        BY Zenon, <1>5, <1>6, <1>9, <1>10, <3>1
      <3>2. CASE x # n
        BY <1>1, <1>6, <1>10, <3>2 DEF DriverShape
      <3>. QED
        BY <3>1, <3>2
    <2>. QED
      BY <1>1, <1>2, <1>4, <1>6, <2>1 DEF DriverShape
  <1>12. Apart'
    <2>1. \A x \in Node \ {n} : driver[x].pc # "idle" => driver[x].ca # c
      BY <1>1, <1>6 DEF DriverShape
    <2>2. \A b \in loose : b.issuer # c /\ b.issuer \in 1..(minted + 1)
      BY <1>1, <1>6 DEF Apart
    <2>. QED
      BY <1>1, <1>2, <1>5, <1>10, <2>1, <2>2 DEF Apart
  <1>13. HistShape' /\ FilesShape' /\ LooseShape'
    BY Zenon, <1>1, <1>2 DEF HistShape, EntryShape, FilesShape, LooseShape, Rooted
  <1>14. \A a : Clear(a)' <=> Clear(a)
    BY <1>2 DEF Clear, Signs
  <1>15. Unused'
    BY <1>1, <1>2, <1>6, <1>14 DEF Unused
  <1>16. ASSUME NEW x \in Node PROVE Plan(driver[x])'
    <2>1. PICK e : e = driver'[x]
      OBVIOUS
    <2>2. Plan(e)
      <3>1. CASE x = n
        BY Zenon, <1>1, <1>5, <1>6, <1>9, <1>10, <2>1, <3>1 DEF Plan, Unused, Mid
      <3>2. CASE x # n
        BY <1>10, <2>1, <3>2 DEF RotationInv
      <3>. QED
        BY <3>1, <3>2
    <2>3. Plan(e)'
      <3>1. Tip' = Tip /\ \A y \in Node : Store(y)' = Store(y) /\ Signs(y)' = Signs(y)
        BY Zenon, <1>2 DEF Tip, Store, Signs
      <3>2. Clear(e.ca) => Clear(e.ca)'
        BY Zenon, <1>2, <3>1 DEF Clear
      <3>3. Rooted(e.cas) => Rooted(e.cas)'
        BY Zenon, <1>2 DEF Rooted
      <3>4. Holding(e.ca, e.ver) => Holding(e.ca, e.ver)'
        BY Zenon, <1>2, <3>1 DEF Holding
      <3>5. Reached(e.seen, e.ca) => Reached(e.seen, e.ca)'
        BY Zenon, <1>2 DEF Reached
      <3>. QED
        BY Zenon, <2>2, <3>1, <3>2, <3>3, <3>4, <3>5 DEF Plan
    <2>. QED
      BY <2>1, <2>3 DEF Plan
  <1>. QED
    BY <1>11, <1>12, <1>13, <1>15, <1>16 DEF RotationInv

(***************************************************************************)
(* Every action is a step of one of those kinds.                           *)
(***************************************************************************)
LEMMA DriversAlike ==
    ASSUME DriverShape, UNCHANGED rotation
    PROVE  DriversMove /\ \A n \in Node : Advances(driver[n], driver'[n])
  BY DEF DriverShape, DriversMove, Onward, LooseMove, Advances, rotation

LEMMA DriversAbandon ==
    ASSUME RotationInv, NEW n \in Node, Abandon(n), minted' = minted
    PROVE  DriversMove /\ \A x \in Node : Advances(driver[x], driver'[x])
  <1>1. DriverShape /\ Plan(driver[n])
    BY DEF RotationInv
  <1>2. /\ DOMAIN driver' = Node /\ driver'[n] = NoRotation
        /\ \A x \in Node \ {n} : driver'[x] = driver[x]
    BY <1>1 DEF Abandon, DriverShape
  <1>3. NoRotation.pc = "idle" /\ DriverFields \subseteq DOMAIN NoRotation
    BY DEF NoRotation, DriverFields
  <1>4. \A x \in Node : Onward(driver[x], driver'[x]) /\ Advances(driver[x], driver'[x])
    BY <1>1, <1>2, <1>3 DEF Onward, Advances, DriverShape
  <1>5. ASSUME NEW b \in loose' \ loose
        PROVE  /\ driver[n].pc # "idle" /\ b.issuer = driver[n].ca
               /\ b.ver \in Nat /\ b.cas \in Seq(Nat) /\ b.cas # << >>
               /\ Rooted(b.cas) \/ Lead(b.cas) = {b.issuer}
    <2>1. CASE driver[n].pc = "widen" /\ b = Wide(driver[n])
      BY <1>1, <2>1 DEF Wide, DriverShape, Plan
    <2>2. CASE driver[n].pc = "narrow" /\ b = Narrow(driver[n])
      BY SMTT(30), <1>1, <2>2 DEF Narrow, DriverShape, Lead
    <2>. QED
      BY <2>1, <2>2 DEF Abandon
  <1>. QED
    BY Zenon, <1>2, <1>3, <1>4, <1>5 DEF DriversMove, LooseMove

\* One node's files change.
FileMove(n, d, T) ==
    /\ d.caPem \in Seq(Nat) /\ d.ca.cert \in Nat
    /\ IF d.life = "none" THEN d.pem = 0 ELSE d.caPem # << >>
    /\ \A c \in Lead(d.caPem) \cup {d.ca.cert} :
         c = 0 \/ c \in T \/ (\E y \in Node : c \in Signs(y)) \/ c \in Lead(Store(n).cas)
    /\ \/ d.pem = node[n].pem
       \/ (d.pem = Store(n).issuer /\ applied'[n] = applied[n])
       \/ (node[n].life = "none" /\ \E y \in Node : d.pem \in Signs(y))

LEMMA FilesFollow ==
    ASSUME FilesShape, NEW T, \A x \in Node : node'[x] = node[x] \/ FileMove(x, node'[x], T)
    PROVE  FilesShape' /\ FilesMove(T)
  <1>1. FilesShape'
    BY DEF FilesShape, FileMove
  <1>2. ASSUME NEW x \in Node
        PROVE  \A c \in Signs(x)' : \/ c = 0 \/ c \in T \/ (\E y \in Node : c \in Signs(y))
                                    \/ c \in Lead(Store(x).cas)
    <2>1. Signs(x)' = Lead(node'[x].caPem) \cup {node'[x].ca.cert}
      BY DEF Signs, Lead
    <2>2. node'[x] = node[x] => Signs(x)' = Signs(x)
      BY <2>1 DEF Signs
    <2>. QED
      BY <2>1, <2>2 DEF FileMove
  <1>3. ASSUME NEW x \in Node
        PROVE  \/ node'[x].pem = node[x].pem
               \/ (node'[x].pem = Store(x).issuer /\ applied'[x] = applied[x])
               \/ (node[x].life = "none" /\ \E y \in Node : node'[x].pem \in Signs(y))
    BY DEF FileMove
  <1>. QED
    BY <1>1, <1>2, <1>3 DEF FilesMove

LEMMA StoppedFiles ==
    ASSUME FilesShape, NEW n \in Node, Up(n), NEW d, Fields \subseteq DOMAIN d,
           d.caPem = node[n].caPem,
           d.pem = node[n].pem \/ (d.pem = Store(n).issuer /\ applied'[n] = applied[n])
    PROVE  FileMove(n, Stopped(d), {})
  <1>1. PICK e : e = Stopped(d)
    OBVIOUS
  <1>2. e.life = "down" /\ e.caPem = d.caPem /\ e.pem = d.pem /\ e.ca.cert = 0
    BY <1>1 DEF Stopped, Fields, NoCA
  <1>3. Lead(e.caPem) \subseteq Signs(n) /\ e.caPem # << >> /\ e.caPem \in Seq(Nat)
    BY <1>2 DEF Signs, FilesShape, Up
  <1>4. FileMove(n, e, {})
    BY <1>2, <1>3 DEF FileMove
  <1>. QED
    BY <1>1, <1>4

\* Steps of a driver or of a join that touch no file and commit nothing.
LEMMA StillKeeps ==
    ASSUME RotationInv, UNCHANGED << hist, applied, node, unheard >>, DriversMove,
           \A n \in Node : Advances(driver[n], driver'[n])
    PROVE  RotationInv'
  <1>1. HistShape /\ FilesShape
    BY DEF RotationInv
  <1>2. FilesShape' /\ FilesMove({})
    BY <1>1, FilesFollow
  <1>3. AppliedGrows
    BY <1>1, HistFacts DEF AppliedGrows, HistShape
  <1>. QED
    BY <1>2, <1>3, QuietKeeps DEF QuietStep

\* Files change, and nothing else unless a rotation ends.
FilesOnly(T) ==
    /\ hist' = hist /\ unheard' = unheard /\ AppliedGrows /\ DriversMove
    /\ \A x \in Node : Advances(driver[x], driver'[x])
    /\ \A c \in T : \E x \in Node : /\ driver[x].pc # "idle" /\ driver'[x].pc = "idle"
                                    /\ c = driver[x].ca

LEMMA FileKeeps ==
    ASSUME RotationInv, NodeShape, NEW n \in Node, NEW d, NEW T,
           node' = [node EXCEPT ![n] = d], FileMove(n, d, T), FilesOnly(T)
    PROVE  RotationInv'
  <1>1. \A x \in Node : node'[x] = node[x] \/ FileMove(x, node'[x], T)
    BY DEF NodeShape
  <1>2. FilesShape' /\ FilesMove(T)
    BY <1>1, FilesFollow DEF RotationInv
  <1>. QED
    BY <1>2, QuietKeeps DEF QuietStep, FilesOnly

LEMMA NodeFilesKeep ==
    ASSUME RotationInv, NodeShape, NEW n \in Node,
           \/ Run(n) \/ Crash(n) \/ refreshTrust(n) \/ applyReissue(n) \/ ReissueTorn(n)
           \/ RotateIssuer(n)
    PROVE  RotationInv'
  <1>1. /\ HistShape /\ FilesShape /\ DriverShape /\ Fields \subseteq DOMAIN node[n]
        /\ Store(n) = hist[applied[n]] /\ EntryShape(Store(n))
    BY HistFacts DEF RotationInv, NodeShape, HistShape
  <1>2. applied' = applied => AppliedGrows
    BY <1>1, StillGrows
  <1>10. UNCHANGED << raft, rotation, missed >> => FilesOnly({})
    BY <1>1, <1>2, DriversAlike DEF FilesOnly, raft, missed
  <1>11. Abandon(n) /\ UNCHANGED << raft, minted, missed >> => FilesOnly({})
    BY <1>1, <1>2, DriversAbandon DEF FilesOnly, raft, missed
  <1>3. /\ node[n].caPem \in Seq(Nat) /\ node[n].ca.cert \in Nat
        /\ (node[n].life # "none" => node[n].caPem # << >>)
        /\ Lead(node[n].caPem) \subseteq Signs(n) /\ node[n].ca.cert \in Signs(n)
    BY <1>1 DEF FilesShape, Signs
  <1>4. CASE Run(n)
    <2>1. PICK d : d = Running(node[n])
      OBVIOUS
    <2>2. loadCA(node[n]).cert = 0 \/ loadCA(node[n]).cert = Head(node[n].caPem)
      BY DEF loadCA, NoCA
    <2>3. /\ d.life = "up" /\ d.caPem = node[n].caPem /\ d.pem = node[n].pem
          /\ d.ca = loadCA(node[n]) /\ node[n].life = "down"
      BY <1>1, <1>4, <2>1 DEF Run, Running, Fields
    <2>4. d.ca.cert = 0 \/ (d.ca.cert \in Nat /\ d.ca.cert \in Lead(node[n].caPem))
      <3>1. CASE d.ca.cert = 0
        BY <3>1
      <3>2. CASE d.ca.cert = Head(node[n].caPem)
        <4>1. PICK t : t = node[n].caPem
          OBVIOUS
        <4>2. t \in Seq(Nat) /\ t # << >>
          BY <1>3, <2>3, <4>1
        <4>3. Head(t) \in Nat /\ Lead(t) = {Head(t)}
          BY <4>2 DEF Lead
        <4>. QED
          BY <3>2, <4>1, <4>3
      <3>. QED
        BY <2>2, <2>3, <3>1, <3>2
    <2>5. FileMove(n, d, {})
      <3>1. d.caPem \in Seq(Nat) /\ d.caPem # << >> /\ d.ca.cert \in Nat /\ d.life # "none"
        BY SMTT(30), <1>3, <2>3, <2>4
      <3>2. \A c \in Lead(node[n].caPem) : c = 0 \/ c \in Signs(n)
        BY <1>3, <2>3
      <3>3. \A c \in Lead(d.caPem) \cup {d.ca.cert} : c = 0 \/ c \in Signs(n)
        BY Zenon, <2>3, <2>4, <3>2
      <3>. QED
        BY <2>3, <3>1, <3>3 DEF FileMove
    <2>. QED
      BY Zenon, <1>4, <1>10, <2>1, <2>5, FileKeeps DEF Run
  <1>5. CASE Crash(n)
    <2>1. FileMove(n, Stopped(node[n]), {})
      BY Zenon, <1>1, <1>5, StoppedFiles DEF Crash
    <2>. QED
      BY Zenon, <1>5, <1>11, <2>1, FileKeeps DEF Crash, Stops
  <1>6. CASE refreshTrust(n)
    <2>1. PICK d : d = [node[n] EXCEPT !.trust = Range(Store(n).cas), !.ver = Store(n).ver,
                                       !.caPem = Store(n).cas]
      OBVIOUS
    <2>2. /\ d.life = node[n].life /\ d.caPem = Store(n).cas /\ d.pem = node[n].pem
          /\ d.ca = node[n].ca /\ node[n].life = "up" /\ Store(n).ver # 0
      BY <1>1, <1>6, <2>1 DEF refreshTrust, Fields, Up
    <2>3. FileMove(n, d, {})
      BY <1>1, <1>3, <2>2 DEF FileMove, EntryShape
    <2>4. node' = [node EXCEPT ![n] = d]
      BY Zenon, <1>6, <2>1 DEF refreshTrust, NodeShape
    <2>. QED
      <3>1. FilesOnly({})
        BY <1>6, <1>10 DEF refreshTrust
      <3>. QED
        BY Zenon, <2>3, <2>4, <3>1, FileKeeps
  <1>7. CASE applyReissue(n)
    <2>1. PICK d : d = IF Reissuable(n) THEN Adopted(node[n]) ELSE [node[n] EXCEPT !.owed = 0]
      BY Zenon
    <2>2. /\ d.life = node[n].life /\ d.caPem = node[n].caPem /\ d.ca = node[n].ca
          /\ d.pem = node[n].pem \/ d.pem = Store(n).issuer
      BY <1>1, <2>1 DEF Adopted, Reissuable, Fields
    <2>3. node[n].life = "up" /\ applied' = applied
      BY <1>7 DEF applyReissue, Up, raft
    <2>4. FileMove(n, d, {})
      BY <1>3, <2>2, <2>3 DEF FileMove
    <2>. QED
      <3>1. FilesOnly({}) /\ node' = [node EXCEPT ![n] = d]
        BY <1>7, <1>10, <2>1 DEF applyReissue
      <3>. QED
        BY Zenon, <2>4, <3>1, FileKeeps
  <1>8. CASE ReissueTorn(n)
    <2>1. PICK file \in {"pem", "key"} : Stops(n, [node[n] EXCEPT ![file] = node[n].owed])
      BY <1>8 DEF ReissueTorn
    <2>2. PICK d : d = [node[n] EXCEPT ![file] = node[n].owed]
      BY Zenon
    <2>3. applied' = applied /\ Up(n) /\ node[n].owed = Store(n).issuer
      BY <1>8 DEF ReissueTorn, Reissuable, raft
    <2>4. /\ Fields \subseteq DOMAIN d /\ d.caPem = node[n].caPem
          /\ d.pem = node[n].pem \/ d.pem = Store(n).issuer
      BY <1>1, <2>2, <2>3 DEF Fields
    <2>5. FileMove(n, Stopped(d), {})
      BY <1>1, <2>3, <2>4, StoppedFiles
    <2>6. node' = [node EXCEPT ![n] = Stopped(d)] /\ Abandon(n)
      BY <2>1, <2>2 DEF Stops
    <2>. QED
      <3>1. FilesOnly({})
        BY <1>8, <1>11, <2>6 DEF ReissueTorn
      <3>. QED
        BY Zenon, <2>5, <2>6, <3>1, FileKeeps
  <1>9. CASE RotateIssuer(n)
    <2>1. PICK c, d : /\ c = driver[n].ca
                      /\ d = [node[n] EXCEPT !.caKey = c, !.ca = [cert |-> c, key |-> c]]
      BY Zenon
    <2>2. /\ d.life = node[n].life /\ d.caPem = node[n].caPem /\ d.ca.cert = c
          /\ d.pem = node[n].pem
      BY <1>1, <2>1 DEF Fields
    <2>3. driver[n].pc = "issuer" /\ node[n].life = "up" /\ c \in Nat
      BY <1>1, <1>9, <2>1 DEF RotateIssuer, DriverAt, Up, DriverShape
    <2>4. FileMove(n, d, {c})
      BY <1>3, <2>2, <2>3 DEF FileMove
    <2>5. node' = [node EXCEPT ![n] = d]
      BY Zenon, <1>9, <2>1 DEF RotateIssuer, NodeShape
    <2>6. /\ DOMAIN driver' = Node /\ driver'[n] = NoRotation
          /\ \A x \in Node \ {n} : driver'[x] = driver[x]
      BY <1>1, <1>9 DEF RotateIssuer, DriverShape
    <2>7. NoRotation.pc = "idle" /\ DriverFields \subseteq DOMAIN NoRotation
      BY DEF NoRotation, DriverFields
    <2>8. DriversMove /\ \A x \in Node : Advances(driver[x], driver'[x])
      BY <1>1, <1>9, <2>6, <2>7 DEF RotateIssuer, DriversMove, LooseMove, Onward, Advances,
         DriverShape
    <2>9. \A a \in {c} : \E x \in Node : /\ driver[x].pc # "idle" /\ driver'[x].pc = "idle"
                                        /\ a = driver[x].ca
      BY <2>1, <2>3, <2>6, <2>7
    <2>. QED
      <3>1. FilesOnly({c})
        BY <1>2, <1>9, <2>8, <2>9 DEF FilesOnly, RotateIssuer, raft, missed
      <3>. QED
        BY Zenon, <2>4, <2>5, <3>1, FileKeeps
  <1>. QED
    BY <1>4, <1>5, <1>6, <1>7, <1>8, <1>9

LEMMA ApplyKeeps ==
    ASSUME RotationInv, NodeShape, NEW n \in Node, ApplyNext(n)
    PROVE  RotationInv'
  <1>1. HistShape /\ FilesShape /\ DriverShape /\ Fields \subseteq DOMAIN node[n]
    BY DEF RotationInv, NodeShape
  <1>2. /\ applied \in [Node -> 1..Len(hist)] /\ Len(hist) \in Nat /\ DOMAIN hist = 1..Len(hist)
        /\ applied' = [applied EXCEPT ![n] = @ + 1] /\ applied[n] < Len(hist)
    BY <1>1, HistFacts DEF HistShape, ApplyNext
  <1>3. AppliedGrows
    BY <1>2 DEF AppliedGrows
  <1>4. CASE UNCHANGED << node, driver, loose, ask >>
    <2>1. DriversMove /\ \A x \in Node : Advances(driver[x], driver'[x])
      BY <1>1, <1>4, DriversAlike DEF ApplyNext, rotation
    <2>2. FilesShape' /\ FilesMove({})
      BY <1>1, <1>4, FilesFollow
    <2>. QED
      BY <1>3, <2>1, <2>2, QuietKeeps DEF QuietStep, ApplyNext, missed
  <1>5. CASE Stops(n, node[n])
    <2>1. FileMove(n, Stopped(node[n]), {})
      BY <1>1, StoppedFiles DEF ApplyNext
    <2>2. node' = [node EXCEPT ![n] = Stopped(node[n])] /\ Abandon(n)
      BY <1>5 DEF Stops
    <2>3. FilesOnly({})
      BY <1>3, <2>2, DriversAbandon DEF FilesOnly, ApplyNext, missed
    <2>. QED
      BY Zenon, <2>1, <2>2, <2>3, FileKeeps
  <1>. QED
    BY <1>4, <1>5 DEF ApplyNext

\* The joiner's first certificate is signed by its issuer's CA.
LEMMA IssueKeepsFiles ==
    ASSUME RotationInv, TrustInv, NEW a \in Attempt, issueIdentity(a)
    PROVE  RotationInv'
  <1>. DEFINE j == ask[a].node
              n == token[ask[a].tok].by
  <1>1. HistShape /\ FilesShape /\ DriverShape /\ NodeShape
    BY DEF RotationInv, TrustInv, Shapes
  <1>2. j \in Node /\ n \in Node
    BY Zenon, TokensAreNumbered DEF issueIdentity, TrustInv, Shapes, AsksAreOpen, Joiner
  <1>3. \/ node' = node \/ node' = Allocated(n, j)
        \/ \E id : node' = Join(Allocated(n, j), j, id, node[n].ca.cert)
    BY Zenon DEF issueIdentity
  <1>. HIDE DEF j, n
  <1>12. PICK d : d = saveConfig([node[n] EXCEPT !.nextID = node[n].nextID + 1,
                                                 !.labels = node[n].labels \cup {j}])
    OBVIOUS
  <1>4. /\ Allocated(n, j) = [node EXCEPT ![n] = d]
        /\ d.life = node[n].life /\ d.caPem = node[n].caPem /\ d.ca = node[n].ca
        /\ d.pem = node[n].pem
    BY <1>1, <1>2, <1>12 DEF Allocated, saveConfig, NodeShape, Fields
  <1>5. FileMove(n, d, {})
    BY <1>1, <1>2, <1>4 DEF FileMove, FilesShape, Signs
  <1>6. ASSUME NEW id, NEW c, c = node[n].ca.cert, node[j].life = "none"
        PROVE  FileMove(j, Directory(id, c, 0, 0, {j}), {})
    <2>1. PICK e : e = Directory(id, c, 0, 0, {j})
      OBVIOUS
    <2>2. /\ e.life = "down" /\ e.caPem = << c >> /\ e.pem = c /\ e.ca.cert = 0
      BY <2>1 DEF Directory, Outside, NoCA
    <2>3. c \in Nat /\ c \in Signs(n) /\ Lead(e.caPem) = {c}
      BY <1>1, <1>2, <1>6, <2>2 DEF FilesShape, Signs, Lead
    <2>4. /\ << c >> \in Seq(Nat) /\ << c >> # << >>
          /\ \A b \in Lead(e.caPem) \cup {e.ca.cert} : b = 0 \/ \E y \in Node : b \in Signs(y)
      BY <1>2, <2>2, <2>3
    <2>5. FileMove(j, e, {})
      BY SMTT(30), <1>2, <1>6, <2>2, <2>3, <2>4 DEF FileMove
    <2>. QED
      BY <2>1, <2>5
  <1>7. \A x \in Node : Allocated(n, j)[x] = node[x] \/ FileMove(x, Allocated(n, j)[x], {})
    BY <1>1, <1>4, <1>5 DEF NodeShape
  <1>8. ASSUME NEW id, node' = Join(Allocated(n, j), j, id, node[n].ca.cert)
        PROVE  \A x \in Node : node'[x] = node[x] \/ FileMove(x, node'[x], {})
    <2>1. PICK e : e = Directory(id, node[n].ca.cert, 0, 0, {j})
      OBVIOUS
    <2>2. Allocated(n, j)[j].life = node[j].life /\ DOMAIN Allocated(n, j) = Node
      BY <1>1, <1>2, <1>4 DEF NodeShape
    <2>3. CASE node[j].life = "none"
      <3>1. node' = [Allocated(n, j) EXCEPT ![j] = e]
        BY <1>8, <2>1, <2>2, <2>3 DEF Join
      <3>2. FileMove(j, e, {})
        BY <1>6, <2>1, <2>3
      <3>. QED
        BY <1>7, <2>2, <3>1, <3>2
    <2>4. CASE node[j].life # "none"
      BY <1>7, <1>8, <2>2, <2>4 DEF Join
    <2>. QED
      BY <2>3, <2>4
  <1>9. FilesShape' /\ FilesMove({})
    BY <1>1, <1>3, <1>7, <1>8, FilesFollow
  <1>10. UNCHANGED << raft, rotation, unheard >>
    BY Zenon DEF issueIdentity
  <1>11. AppliedGrows
    BY <1>1, <1>10, StillGrows DEF raft
  <1>. QED
    BY <1>1, <1>9, <1>10, <1>11, DriversAlike, QuietKeeps DEF QuietStep, raft

\* A driver goes on by itself.
LEMMA DriverGoes ==
    ASSUME DriverShape, NEW n \in Node, NEW d, driver' = [driver EXCEPT ![n] = d],
           DriverFields \subseteq DOMAIN d, driver[n].pc # "idle",
           d.ca = driver[n].ca, d.ver = driver[n].ver, d.cas = driver[n].cas,
           UNCHANGED << loose, minted >>
    PROVE  /\ DriversMove /\ driver'[n] = d
           /\ \A x \in Node \ {n} : driver'[x] = driver[x]
  <1>1. /\ DOMAIN driver' = Node /\ driver'[n] = d
        /\ \A x \in Node \ {n} : driver'[x] = driver[x]
    BY DEF DriverShape
  <1>. QED
    BY <1>1 DEF DriverShape, DriversMove, Onward, LooseMove

LEMMA DriverStepKeeps ==
    ASSUME RotationInv, NodeShape, NEW n \in Node,
           RotateMembers(n) \/ waitMembersTrust(n) \/ waitCAConverged(n) \/ Reissue(n)
    PROVE  RotationInv'
  <1>. DEFINE d == driver[n]
  <1>1. /\ HistShape /\ FilesShape /\ DriverShape /\ Plan(d)
        /\ DriverFields \subseteq DOMAIN d
    BY DEF RotationInv, DriverShape
  <1>2. PICK e : e = driver'[n]
    OBVIOUS
  <1>3. /\ driver' = [driver EXCEPT ![n] = e] /\ DriverFields \subseteq DOMAIN e
        /\ e.ca = d.ca /\ e.ver = d.ver /\ e.cas = d.cas
        /\ UNCHANGED << hist, applied, unheard, loose, minted >>
    BY <1>1, <1>2 DEF RotateMembers, waitMembersTrust, waitCAConverged, Reissue, DriverShape,
       DriverFields, raft, missed
  <1>4. /\ d.pc \in Mid
        /\ e.pc \in Mid \/ (/\ d.pc = "converge" /\ e.pc = "narrow"
                           /\ e.seen = DOMAIN Store(n).rows /\ caStragglers(n, d.ca) = {})
    BY <1>1, <1>2 DEF RotateMembers, waitMembersTrust, waitCAConverged, Reissue, DriverShape,
       DriverFields, DriverAt, Mid
  <1>5. d.ver = Tip.ver => \A m \in DOMAIN Store(n).rows \ unheard :
                             Store(n).rows[m] = d.ca => m \in Node /\ node[m].pem = d.ca
    <2>1. PICK k \in DOMAIN hist : Store(n) = hist[k]
      BY <1>1, HistFacts
    <2>2. DOMAIN hist[k].rows \subseteq Node
      BY <1>1, <2>1 DEF HistShape, EntryShape
    <2>3. d.ver = Tip.ver => Holding(d.ca, d.ver)
      BY <1>1, <1>4 DEF Plan
    <2>. QED
      BY <2>1, <2>2, <2>3 DEF Holding
  <1>6. Advances(d, e)
    BY Zenon, <1>4, <1>5 DEF Advances, Reached, caStragglers
  <1>7. DriversMove /\ \A x \in Node : Advances(driver[x], driver'[x])
    <2>1. d.pc # "idle"
      BY <1>4 DEF Mid
    <2>. QED
      BY <1>1, <1>2, <1>3, <1>6, <2>1, DriverGoes DEF Advances
  <1>8. CASE node' = node
    BY <1>3, <1>7, <1>8, StillKeeps
  <1>9. CASE Reissue(n)
    <2>1. PICK m : m = Turn(n)
      OBVIOUS
    <2>2. ASSUME NEW x \in Node
          PROVE  /\ node'[x].life = node[x].life /\ node'[x].pem = node[x].pem
                 /\ node'[x].caPem = node[x].caPem /\ node'[x].ca = node[x].ca
      BY <1>9, <2>1 DEF Reissue, NodeShape, Fields
    <2>3. \A x \in Node : FileMove(x, node'[x], {})
      BY <1>1, <2>2 DEF FileMove, FilesShape, Signs
    <2>4. FilesShape' /\ FilesMove({})
      BY <1>1, <2>3, FilesFollow
    <2>5. AppliedGrows
      BY <1>1, <1>3, StillGrows
    <2>. QED
      BY <1>3, <1>7, <2>4, <2>5, QuietKeeps DEF QuietStep
  <1>. QED
    BY <1>8, <1>9 DEF RotateMembers, waitMembersTrust, waitCAConverged

\* The steps that a rotation's state does not see.
LEMMA OtherStepKeeps ==
    ASSUME RotationInv,
           \/ \E n \in Node : Elect(n) \/ mintToken(n) \/ RotateGivesUp(n)
           \/ \E a \in Attempt : consumeToken(a) \/ \E j \in Joiner, t \in DOMAIN token : Present(a, j, t)
           \/ UNCHANGED vars
    PROVE  RotationInv'
  <1>1. DriverShape
    BY DEF RotationInv
  <1>2. CASE UNCHANGED << hist, applied, node, unheard, rotation >>
    BY <1>1, <1>2, DriversAlike, StillKeeps
  <1>3. CASE \E n \in Node : RotateGivesUp(n)
    BY Zenon, <1>3, DriversAbandon, StillKeeps DEF RotateGivesUp, raft, missed
  <1>. QED
    BY Zenon, <1>2, <1>3 DEF Elect, mintToken, consumeToken, Present, vars, raft, missed

(***************************************************************************)
(* The commands.                                                           *)
(***************************************************************************)
LEMMA CommitExtends ==
    ASSUME NEW n, NEW s, Commit(n, s), EntryShape(s), Tip.ver <= s.ver
    PROVE  Extends(s)
  BY Zenon DEF Commit, Extends

LEMMA RegistryStepKeeps ==
    ASSUME RotationInv, NEW n \in Node,
           Admit(n) \/ \E m \in Node : RegisterNode(n, m) \/ RemoveNode(n, m)
    PROVE  RotationInv'
  <1>1. HistShape /\ DriverShape /\ EntryShape(Tip) /\ Tip.ver <= Tip.ver
    <2>1. HistShape /\ DriverShape
      BY DEF RotationInv
    <2>2. EntryShape(Tip)
      BY <2>1, HistFacts
    <2>3. Tip.ver <= Tip.ver
      BY <2>2 DEF EntryShape
    <2>. QED
      BY <2>1, <2>2, <2>3
  <1>2. node' = node /\ unheard' = unheard /\ UNCHANGED rotation
    BY Zenon DEF Admit, RegisterNode, RemoveNode, missed
  <1>3. ASSUME NEW l, NEW s, Commit(l, s), EntryShape(s), s.ver = Tip.ver,
               s.issuer = Tip.issuer, s.cas = Tip.cas, RowsKnown(s, 0)
        PROVE  RotationInv'
    <2>1. Notes(s, 0)
      BY <1>1, <1>2, <1>3, CommitExtends DEF Notes
    <2>2. NoteStep(s, 0)
      BY <1>1, <1>2, <2>1, DriversAlike DEF NoteStep, rotation
    <2>. QED
      BY <2>2, NoteKeeps
  <1>4. CASE Admit(n)
    <2>1. PICK s : s = [Tip EXCEPT !.member = @ \cup {n}]
      BY Zenon
    <2>2. /\ EntryShape(s) /\ s.ver = Tip.ver /\ s.issuer = Tip.issuer /\ s.cas = Tip.cas
          /\ RowsKnown(s, 0)
      BY <1>1, <2>1 DEF EntryShape, Marks, RowsKnown
    <2>. QED
      BY Zenon, <1>3, <1>4, <2>1, <2>2 DEF Admit
  <1>5. ASSUME NEW m \in Node, RemoveNode(n, m) PROVE RotationInv'
    <2>1. PICK s : s = [Tip EXCEPT !.member = @ \ {m}, !.gone = @ \cup {node[m].raftID}]
      OBVIOUS
    <2>2. /\ EntryShape(s) /\ s.ver = Tip.ver /\ s.issuer = Tip.issuer /\ s.cas = Tip.cas
          /\ RowsKnown(s, 0)
      BY <1>1, <2>1 DEF EntryShape, Marks, RowsKnown
    <2>. QED
      BY Zenon, <1>3, <1>5, <2>1, <2>2 DEF RemoveNode
  <1>6. ASSUME NEW m \in Node, RegisterNode(n, m) PROVE RotationInv'
    <2>1. PICK r, s : /\ r = [x \in DOMAIN Tip.rows \cup {m} |-> IF x = m THEN 0 ELSE Tip.rows[x]]
                      /\ s = [Tip EXCEPT !.rows = r]
      BY Zenon
    <2>2. /\ DOMAIN r \subseteq Node
          /\ \A x \in DOMAIN r : (x \in DOMAIN Tip.rows /\ r[x] = Tip.rows[x]) \/ r[x] = 0
      BY <1>1, <2>1 DEF EntryShape
    <2>3. s.rows = r /\ s.ver = Tip.ver /\ s.issuer = Tip.issuer /\ s.cas = Tip.cas
          /\ DOMAIN s = DOMAIN Tip
      BY <1>1, <2>1 DEF EntryShape, Marks
    <2>4. EntryShape(s) /\ RowsKnown(s, 0)
      BY <1>1, <2>2, <2>3 DEF EntryShape, RowsKnown
    <2>5. Commit(n, s)
      BY <1>6, <2>1 DEF RegisterNode, ApplyRegisterNode
    <2>. QED
      BY <1>3, <2>3, <2>4, <2>5
  <1>. QED
    BY <1>4, <1>5, <1>6

\* The registry learns that a member has been reissued.
LEMMA RecordKeeps ==
    ASSUME RotationInv, NEW n \in Node, RotateRecord(n) \/ RotateRecordUnheard(n)
    PROVE  RotationInv'
  <1>1. HistShape /\ DriverShape /\ EntryShape(Tip) /\ Tip.ver <= Tip.ver
    <2>1. HistShape /\ DriverShape
      BY DEF RotationInv
    <2>2. EntryShape(Tip)
      BY <2>1, HistFacts
    <2>3. Tip.ver <= Tip.ver
      BY <2>2 DEF EntryShape
    <2>. QED
      BY <2>1, <2>2, <2>3
  <1>2. PICK c, m : c = driver[n].ca /\ m = Turn(n)
    OBVIOUS
  <1>3. PICK r, s : r = [Tip.rows EXCEPT ![m] = c] /\ s = [Tip EXCEPT !.rows = r]
    BY Zenon
  <1>4. /\ driver[n].pc = "answer" /\ Record(n)
        /\ node' = node /\ unheard \subseteq unheard' /\ UNCHANGED << loose, minted >>
        /\ m \in unheard' \/ node[m].pem = c
    BY <1>2 DEF RotateRecord, RotateRecordUnheard, DriverAt, Heard, missed
  <1>5. /\ DOMAIN r \subseteq Node
        /\ \A x \in DOMAIN r : (x \in DOMAIN Tip.rows /\ r[x] = Tip.rows[x]) \/ (x = m /\ r[x] = c)
    BY <1>1, <1>3 DEF EntryShape
  <1>6. s.rows = r /\ s.ver = Tip.ver /\ s.issuer = Tip.issuer /\ s.cas = Tip.cas
        /\ DOMAIN s = DOMAIN Tip
    BY <1>1, <1>3 DEF EntryShape, Marks
  <1>7. EntryShape(s) /\ RowsKnown(s, c)
    BY <1>1, <1>4, <1>5, <1>6 DEF EntryShape, RowsKnown
  <1>8. Commit(n, s)
    BY <1>2, <1>3, <1>4 DEF Record, ApplySetNodeLeafCA
  <1>9. Notes(s, c)
    BY <1>1, <1>4, <1>6, <1>7, <1>8, CommitExtends DEF Notes
  <1>10. PICK e : e = driver'[n]
    OBVIOUS
  <1>11. /\ driver' = [driver EXCEPT ![n] = e] /\ DriverFields \subseteq DOMAIN e
         /\ e.ca = driver[n].ca /\ e.ver = driver[n].ver /\ e.cas = driver[n].cas
         /\ e.pc \in {"converge", "reissue"}
    BY <1>1, <1>4, <1>10 DEF Record, DriverShape, DriverFields
  <1>12. /\ DriversMove /\ driver'[n] = e /\ \A x \in Node \ {n} : driver'[x] = driver[x]
    BY Zenon, <1>1, <1>4, <1>11, DriverGoes
  <1>13. NoteStep(s, c)
    BY <1>2, <1>4, <1>9, <1>11, <1>12 DEF NoteStep, Mid
  <1>. QED
    BY <1>13, NoteKeeps

LEMMA BundleSet ==
    ASSUME HistShape, NEW n, NEW b, ApplySetTrustBundle(n, b),
           b.ver \in Nat, b.cas \in Seq(Nat), b.cas # << >>
    PROVE  \E s : /\ Extends(s) /\ s.ver = Tip.ver + 1 /\ s.rows = Tip.rows
                  /\ s.ver = b.ver /\ s.cas = b.cas /\ s.issuer = b.issuer
  <1>1. EntryShape(Tip) /\ Tip.ver \in Nat
    BY HistFacts DEF EntryShape
  <1>2. PICK s : s = [Tip EXCEPT !.ver = b.ver, !.cas = b.cas, !.issuer = b.issuer]
    OBVIOUS
  <1>3. /\ s.rows = Tip.rows /\ s.ver = b.ver /\ s.cas = b.cas /\ s.issuer = b.issuer
        /\ Marks \subseteq DOMAIN s
    BY <1>1, <1>2 DEF EntryShape, Marks
  <1>4. b.ver = Tip.ver + 1 /\ Commit(n, s)
    BY <1>2 DEF ApplySetTrustBundle, Stale
  <1>5. EntryShape(s) /\ Tip.ver <= s.ver
    BY SMTT(30), <1>1, <1>3, <1>4 DEF EntryShape
  <1>. QED
    BY <1>3, <1>4, <1>5, CommitExtends

LEMMA BundleStepKeeps ==
    ASSUME RotationInv,
           \/ \E n \in Node : seedTrustBundle(n) \/ RotateWiden(n) \/ RotateNarrow(n)
           \/ LooseBundle
    PROVE  RotationInv'
  <1>1. /\ HistShape /\ FilesShape /\ DriverShape /\ LooseShape /\ Apart /\ Unused
        /\ \A n \in Node : Plan(driver[n])
    BY DEF RotationInv
  <1>2. node' = node /\ minted' = minted
    BY Zenon DEF seedTrustBundle, RotateWiden, RotateNarrow, LooseBundle, rotation
  <1>3. CASE \E n \in Node : seedTrustBundle(n)
    <2>1. PICK n \in Node : seedTrustBundle(n)
      BY <1>3
    <2>2. PICK b : b = [ver |-> 1, cas |-> node[n].caPem, issuer |-> Head(node[n].caPem)]
      BY Zenon
    <2>3. b.ver \in Nat /\ b.cas \in Seq(Nat) /\ b.cas # << >> /\ ApplySetTrustBundle(n, b)
      BY Zenon, <1>1, <2>1, <2>2 DEF seedTrustBundle, FilesShape, Up
    <2>4. PICK s : /\ Extends(s) /\ s.ver = Tip.ver + 1 /\ s.rows = Tip.rows
                   /\ s.ver = b.ver /\ s.cas = b.cas /\ s.issuer = b.issuer
      BY Zenon, <1>1, <2>3, BundleSet
    <2>5. s.issuer \in Signs(n) /\ Lead(s.cas) \subseteq Signs(n)
      BY <2>2, <2>3, <2>4 DEF Signs, Lead
    <2>6. \A c : Clear(c) => s.issuer # c /\ c \notin Lead(s.cas)
      BY <2>5 DEF Clear
    <2>7. DriversMove /\ driver' = driver
      BY Zenon, <1>1, <2>1, DriversAlike DEF seedTrustBundle, rotation
    <2>. QED
      BY <1>2, <2>4, <2>6, <2>7, InstallKeeps DEF InstallStep
  <1>4. CASE LooseBundle
    <2>1. PICK b \in loose : ApplySetTrustBundle(leader, b) /\ loose' = loose \ {b}
      BY <1>4 DEF LooseBundle
    <2>2. PICK s : /\ Extends(s) /\ s.ver = Tip.ver + 1 /\ s.rows = Tip.rows
                   /\ s.ver = b.ver /\ s.cas = b.cas /\ s.issuer = b.issuer
      BY Zenon, <1>1, <2>1, BundleSet DEF LooseShape
    <2>3. driver' = driver /\ DriversMove
      BY <1>1, <1>2, <1>4, <2>1 DEF LooseBundle, DriversMove, LooseMove, Onward, DriverShape
    <2>4. \A c : Awaited(c) => c # b.issuer
      <3>1. b.issuer \in 1..minted /\ minted \in Nat
        BY <1>1, <2>1 DEF Apart, DriverShape
      <3>2. \A n \in Node : driver[n].pc = "widen" => driver[n].ca # b.issuer
        BY <1>1, <2>1 DEF Apart
      <3>. QED
        BY <2>3, <3>1, <3>2 DEF Awaited
    <2>5. \A c : Clear(c) /\ Awaited(c) => s.issuer # c /\ c \notin Lead(s.cas)
      BY Zenon, <1>1, <2>2, <2>4 DEF Clear, LooseShape, Rooted
    <2>. QED
      BY <1>2, <2>2, <2>3, <2>5, InstallKeeps DEF InstallStep
  <1>5. ASSUME NEW n \in Node, RotateWiden(n) \/ RotateNarrow(n) PROVE RotationInv'
    <2>. DEFINE d == driver[n]
    <2>1. PICK e : e = driver'[n]
      OBVIOUS
    <2>2. /\ driver' = [driver EXCEPT ![n] = e] /\ DriverFields \subseteq DOMAIN e
          /\ e.ca = d.ca /\ e.ver = d.ver /\ e.cas = d.cas /\ d.pc # "idle"
          /\ UNCHANGED << loose, minted >>
      BY <1>1, <1>5, <2>1 DEF RotateWiden, RotateNarrow, DriverShape, DriverFields, DriverAt
    <2>3. DriversMove /\ driver'[n] = e /\ \A x \in Node \ {n} : driver'[x] = driver[x]
      BY Zenon, <1>1, <2>2, DriverGoes
    <2>4. d.ca \in 1..minted /\ d.ver \in Nat /\ d.cas \in Seq(Nat) /\ minted \in Nat
      BY <1>1, <2>2 DEF DriverShape
    <2>5. e.pc # "widen"
      BY <1>1, <1>5, <2>1 DEF RotateWiden, RotateNarrow, DriverShape, DriverFields
    <2>6. \A c : Awaited(c) => c # d.ca
      BY <1>1, <2>2, <2>3, <2>4, <2>5 DEF Awaited, Apart
    <2>7. CASE RotateWiden(n)
      <3>1. d.pc = "widen" /\ e.pc = "members" /\ Rooted(d.cas) /\ d.cas # << >>
        BY <1>1, <2>1, <2>7 DEF RotateWiden, DriverAt, Plan, DriverShape, DriverFields
      <3>2. PICK b : b = Wide(d)
        OBVIOUS
      <3>3. b.ver = d.ver /\ b.cas = d.cas /\ b.issuer = d.ca /\ ApplySetTrustBundle(n, b)
        BY <2>7, <3>2 DEF Wide, RotateWiden
      <3>4. PICK s : /\ Extends(s) /\ s.ver = Tip.ver + 1 /\ s.rows = Tip.rows
                     /\ s.ver = b.ver /\ s.cas = b.cas /\ s.issuer = b.issuer
        BY <1>1, <2>4, <3>1, <3>3, BundleSet
      <3>5. Opens(d, e, s)
        BY Zenon, <3>1, <3>3, <3>4 DEF Opens
      <3>6. \A c : Clear(c) /\ Awaited(c) => s.issuer # c /\ c \notin Lead(s.cas)
        BY Zenon, <2>6, <3>1, <3>3, <3>4 DEF Clear, Rooted
      <3>7. InstallStep(s)
        BY <1>2, <2>3, <3>4, <3>5, <3>6 DEF InstallStep
      <3>. QED
        BY <3>7, InstallKeeps
    <2>8. CASE RotateNarrow(n)
      <3>1. e.pc = "issuer"
        BY <1>1, <2>1, <2>8 DEF RotateNarrow, DriverShape, DriverFields
      <3>2. PICK b : b = Narrow(d)
        OBVIOUS
      <3>3. /\ b.ver \in Nat /\ b.cas = << d.ca >> /\ b.issuer = d.ca /\ b.cas \in Seq(Nat)
            /\ b.cas # << >> /\ ApplySetTrustBundle(n, b) /\ Lead(b.cas) = {d.ca}
        BY <2>4, <2>8, <3>2 DEF Narrow, RotateNarrow, Lead
      <3>4. PICK s : /\ Extends(s) /\ s.ver = Tip.ver + 1 /\ s.rows = Tip.rows
                     /\ s.ver = b.ver /\ s.cas = b.cas /\ s.issuer = b.issuer
        BY Zenon, <1>1, <3>3, BundleSet
      <3>5. \A c : Awaited(c) => s.issuer # c /\ c \notin Lead(s.cas)
        BY <2>6, <3>3, <3>4
      <3>6. InstallStep(s)
        BY Zenon, <1>2, <2>3, <3>1, <3>4, <3>5 DEF InstallStep
      <3>. QED
        BY <3>6, InstallKeeps
    <2>. QED
      BY <1>5, <2>7, <2>8
  <1>. QED
    BY <1>3, <1>4, <1>5

LEMMA RotationInit == Init => RotationInv
  <1>. SUFFICES ASSUME Init PROVE RotationInv
    OBVIOUS
  <1>1. Founders \subseteq Node
    BY TrustAssumption DEF Node, Founders
  <1>2. PICK r, s : r = Empty /\ s = Formed
    OBVIOUS
  <1>3. /\ r.ver = 0 /\ r.cas = << >> /\ r.issuer = 0 /\ DOMAIN r.rows = {}
        /\ s.ver = 0 /\ s.cas = << >> /\ s.issuer = 0 /\ s.rows = [n \in Founders |-> 0]
        /\ Marks \subseteq DOMAIN r /\ Marks \subseteq DOMAIN s
    BY <1>2 DEF Empty, Formed, Marks
  <1>4. EntryShape(r) /\ EntryShape(s)
    BY <1>1, <1>3 DEF EntryShape
  <1>5. hist = << r, s >> /\ hist \in Seq({r, s}) /\ DOMAIN hist = {1, 2} /\ Len(hist) = 2
    <2>1. hist = << r, s >>
      BY Zenon, <1>2 DEF Init
    <2>. QED
      BY <2>1
  <1>6. HistShape
    <2>1. applied \in [Node -> {1, 2}]
      BY DEF Init
    <2>2. hist[1] = r /\ hist[2] = s /\ hist # << >>
      BY <1>5
    <2>3. \A k \in DOMAIN hist : EntryShape(hist[k]) /\ hist[k].ver = 0
      BY <1>3, <1>4, <1>5, <2>2
    <2>4. applied \in [Node -> DOMAIN hist]
      BY <1>5, <2>1
    <2>5. \A k, l \in DOMAIN hist : hist[k].ver <= hist[l].ver
      BY <2>3
    <2>. QED
      BY Zenon, <1>5, <2>2, <2>3, <2>4, <2>5 DEF HistShape
  <1>7. ASSUME NEW x \in Node
        PROVE  /\ node[x].pem \in {0, 1} /\ node[x].ca.cert \in {0, 1}
               /\ \/ node[x].life = "none" /\ node[x].pem = 0 /\ node[x].caPem = << >>
                  \/ node[x].life = "up" /\ node[x].caPem = << 1 >>
    <2>1. CASE x \in Founders
      <3>1. PICK d : d = IF x = 1 THEN Directory(1, 1, 1, FounderCount + 1, Founders)
                                  ELSE Directory(x, 1, 0, 0, {x})
        OBVIOUS
      <3>2. d.caPem = << 1 >> /\ d.pem = 1 /\ Fields \subseteq DOMAIN d
        BY <3>1 DEF Directory, Outside, Fields
      <3>3. node[x] = Running(d)
        BY Zenon, <2>1, <3>1 DEF Init, Founder
      <3>4. loadCA(d).cert \in {0, 1}
        BY <3>2 DEF loadCA, NoCA
      <3>5. /\ node[x].life = "up" /\ node[x].caPem = d.caPem /\ node[x].pem = d.pem
            /\ node[x].ca = loadCA(d)
        BY <3>2, <3>3 DEF Running, Fields
      <3>. QED
        BY <3>2, <3>4, <3>5
    <2>2. CASE x \notin Founders
      BY Zenon, <2>2 DEF Init, Outside, NoCA
    <2>. QED
      BY <2>1, <2>2
  <1>8. FilesShape
    <2>1. /\ << 1 >> \in Seq(Nat) /\ << >> \in Seq(Nat) /\ << 1 >> # << >>
          /\ {0, 1} \subseteq Nat
      OBVIOUS
    <2>. QED
      BY Zenon, <1>7, <2>1 DEF FilesShape
  <1>9. /\ driver = [n \in Node |-> NoRotation] /\ NoRotation.pc = "idle"
        /\ DriverFields \subseteq DOMAIN NoRotation /\ loose = {} /\ minted = 1
    BY Zenon DEF Init, NoRotation, DriverFields
  <1>10. DriverShape /\ LooseShape /\ Apart /\ \A n \in Node : Plan(driver[n])
    BY Zenon, <1>9 DEF DriverShape, LooseShape, Apart, Plan, Mid
  <1>11. ASSUME NEW c \in Nat, c > 1 PROVE Clear(c)
    <2>1. \A k \in DOMAIN hist : /\ hist[k].issuer # c /\ c \notin Lead(hist[k].cas)
                                 /\ \A m \in DOMAIN hist[k].rows : hist[k].rows[m] # c
      BY <1>3, <1>5, <1>11 DEF Lead
    <2>2. \A x \in Node : node[x].pem # c /\ c \notin Signs(x)
      BY <1>7, <1>11 DEF Signs, Lead
    <2>. QED
      BY <2>1, <2>2 DEF Clear
  <1>12. Unused
    BY <1>9, <1>11 DEF Unused
  <1>. QED
    BY <1>6, <1>8, <1>10, <1>12 DEF RotationInv

LEMMA RotationNext == RotationInv /\ TrustInv /\ [Next]_vars => RotationInv'
  <1>. SUFFICES ASSUME RotationInv, TrustInv, [Next]_vars PROVE RotationInv'
    OBVIOUS
  <1>1. NodeShape
    BY DEF TrustInv, Shapes
  <1>2. ASSUME NEW n \in Node, NodeStep(n) PROVE RotationInv'
    BY <1>1, <1>2, NodeFilesKeep, ApplyKeeps, OtherStepKeeps, BundleStepKeeps,
       RegistryStepKeeps DEF NodeStep
  <1>3. ASSUME NEW n \in Node, RotationStep(n) PROVE RotationInv'
    BY <1>1, <1>3, PrepareKeeps, BundleStepKeeps, DriverStepKeeps, NodeFilesKeep, RecordKeeps,
       OtherStepKeeps DEF RotationStep
  <1>4. ASSUME NEW a \in Attempt, JoinStep(a) PROVE RotationInv'
    BY <1>4, OtherStepKeeps, IssueKeepsFiles DEF JoinStep
  <1>. QED
    BY <1>2, <1>3, <1>4, OtherStepKeeps, BundleStepKeeps DEF Next

\* Only phase 5 ends the narrowing.
LEMMA NarrowIsPhaseFive ==
    ASSUME DriverShape, Next, NEW n \in Node,
           driver[n].pc = "narrow", driver'[n].pc = "issuer"
    PROVE  RotateNarrow(n)
  <1>1. driver' # driver
    OBVIOUS
  <1>2. ASSUME NEW m \in Node, NEW e, driver' = [driver EXCEPT ![m] = e]
        PROVE  m = n /\ e.pc = "issuer"
    BY <1>2 DEF DriverShape
  <1>3. \A m \in Node : ~Abandon(m) /\ ~RotateIssuer(m)
    BY <1>2 DEF Abandon, RotateIssuer, NoRotation
  <1>4. ASSUME NEW m \in Node, RotatePrepare(m) PROVE FALSE
    BY <1>2, <1>4 DEF RotatePrepare, NoRotation
  <1>5. ASSUME NEW m \in Node,
               \/ RotateWiden(m) \/ RotateMembers(m) \/ waitMembersTrust(m) \/ Reissue(m)
               \/ RotateRecord(m) \/ RotateRecordUnheard(m) \/ waitCAConverged(m)
        PROVE  FALSE
    <2>1. CASE RotateWiden(m) \/ RotateMembers(m)
      BY <2>1 DEF RotateWiden, RotateMembers, DriverShape, DriverFields
    <2>2. CASE waitMembersTrust(m) \/ Reissue(m)
      BY <2>2 DEF waitMembersTrust, Reissue, DriverShape, DriverFields
    <2>3. CASE RotateRecord(m) \/ RotateRecordUnheard(m)
      BY <2>3 DEF RotateRecord, RotateRecordUnheard, Record, DriverShape, DriverFields
    <2>4. CASE waitCAConverged(m)
      BY <2>4 DEF waitCAConverged, DriverShape, DriverFields
    <2>. QED
      BY <1>5, <2>1, <2>2, <2>3, <2>4
  <1>6. ASSUME NEW m \in Node, RotateNarrow(m) PROVE m = n
    BY <1>6 DEF RotateNarrow, DriverShape
  <1>7. \A m \in Node : ~NodeStep(m)
    BY Zenon, <1>1, <1>3 DEF NodeStep, Run, Crash, Stops, Elect, ApplyNext, refreshTrust,
       seedTrustBundle, mintToken, Admit, RegisterNode, RemoveNode, rotation
  <1>8. \A a \in Attempt : ~JoinStep(a)
    BY Zenon, <1>1 DEF JoinStep, Present, consumeToken, issueIdentity, rotation
  <1>9. \A m \in Node : ~applyReissue(m) /\ ~ReissueTorn(m) /\ ~RotateGivesUp(m)
    BY <1>1, <1>3 DEF applyReissue, ReissueTorn, Stops, RotateGivesUp, rotation
  <1>10. ~LooseBundle
    BY <1>1 DEF LooseBundle
  <1>. QED
    BY Zenon, <1>3, <1>4, <1>5, <1>6, <1>7, <1>8, <1>9, <1>10 DEF Next, RotationStep

\* "Safe now that no member presents an old-CA leaf" (trust.go runRotateCA, phase 5), however
\* many rotations, leaders, crashes, abandoned proposals and joins there are: when the
\* bundle of the new CA alone is accepted, every member in the registry the driver counted,
\* and heard of, holds a certificate of the new CA.
THEOREM NarrowIsSafe == Spec => NarrowLeavesNoneBehind
  <1>1. ASSUME RotationInv, [Next]_vars
        PROVE  [\A n \in Node :
                  driver[n].pc = "narrow" /\ driver'[n].pc = "issuer" =>
                    \A m \in (driver[n].seen \cap Tip.member) \ unheard :
                      node[m].pem = driver[n].ca]_vars
    <2>1. ASSUME Next, NEW n \in Node, driver[n].pc = "narrow", driver'[n].pc = "issuer"
          PROVE  \A m \in driver[n].seen \ unheard : node[m].pem = driver[n].ca
      <3>1. DriverShape /\ Plan(driver[n]) /\ Tip.ver \in Nat
        BY <1>1, HistFacts DEF RotationInv, EntryShape
      <3>2. driver[n].ver + 1 = Tip.ver + 1 /\ driver[n].ver \in Nat
        BY Zenon, <2>1, <3>1, NarrowIsPhaseFive DEF RotateNarrow, ApplySetTrustBundle, Stale, Narrow,
           DriverShape
      <3>3. driver[n].ver = Tip.ver
        <4>1. \A x, y \in Nat : x + 1 = y + 1 => x = y
          OBVIOUS
        <4>. QED
          BY Zenon, <3>1, <3>2, <4>1
      <3>4. Reached(driver[n].seen, driver[n].ca)
        BY Zenon, <2>1, <3>1, <3>3 DEF Plan
      <3>. QED
        BY Zenon, <3>4 DEF Reached
    <2>. QED
      BY <1>1, <2>1
  <1>. QED
    BY <1>1, TrustInit, TrustStep, RotationInit, RotationNext, PTL
       DEF Spec, NarrowLeavesNoneBehind
=============================================================================
