----------------------------- MODULE YardProofs -----------------------------
(***************************************************************************)
(* What two people who work in a yard at once must not spoil.              *)
(*                                                                         *)
(* First Claims: what the boxes and the earmarks claim of the stock is     *)
(* there, for any boxes, units, sites, deliveries and workers.  The        *)
(* invariant has to say of a worker halfway through moving a box that it   *)
(* has read every open box inside (MoveSound): boxes only close or come    *)
(* out of each other, so a move may take units along that have come out    *)
(* and never leaves one behind; and of a worker halfway through a void,    *)
(* what its gate-in says (VoidSound).                                      *)
(*                                                                         *)
(* Then GateOut: what a gate pass is good for while no handler commits on  *)
(* an outdated copy, for any passes, workers, quantities and routings: it  *)
(* never lets out more than was asked for, waits exactly while there is    *)
(* somebody to ask, moves along the map, and lets out only what its        *)
(* current routing has approved.                                           *)
(***************************************************************************)
EXTENDS Claims, GateOut, SumTheorems, SequenceTheorems

-----------------------------------------------------------------------------
(* What is in the yard, and what is claimed of it.                         *)

\* The row of a box.
BoxRow ==
    [status : {"NONE", "OPEN", "CLOSED"}, node : Inside \cup {None}, parent : Boxes \cup {None},
     depth : Int, claim : Nat]

\* The row of a unit.
UnitRow == [node : Inside \cup Outside, box : Boxes \cup {None}, site : Sites \cup {None}]

\* Every row has the type of its columns.
RowsAreRows ==
    /\ box \in [Boxes -> BoxRow] /\ unit \in [Units -> UnitRow]
    /\ balance \in [Inside \cup Outside -> Int] /\ mark \in [Sites -> [Inside -> Nat]]
    /\ gatein \in [GateIns -> {"DRAFT", "POSTED", "VOID"}] /\ DOMAIN req = Workers

\* The boxes of a gate-in are made when it is posted, and only ever come out of one.
BoxesAsReceived ==
    /\ \A b \in Boxes : box[b].status # "NONE" =>
          /\ box[b].node \in Inside
          /\ \E g \in GateIns :
                /\ gatein[g] # "DRAFT" /\ b \in DOMAIN Delivery[g].boxes
                /\ box[b].parent \in {None, Delivery[g].boxes[b].parent}
    /\ \A g \in GateIns : gatein[g] # "DRAFT" =>
          \A b \in DOMAIN Delivery[g].boxes : box[b].status # "NONE"

\* Whoever moves a box has read all the open boxes that are in it.
MoveSound(r) ==
    /\ r \in [op : {"MOVE"}, box : Boxes, from : Inside, to : Inside, tree : SUBSET Boxes]
    /\ box[r.box].status # "NONE" /\ r.from # r.to
    /\ OpenTree(box, r.box) \subseteq r.tree

\* Whoever voids a gate-in knows where its stock is, and for whom.
VoidSound(r) ==
    /\ r \in [op : {"VOID"}, gatein : GateIns, at : Inside, site : Sites \cup {None}, seen : Nat,
              units : SUBSET Units, row : BOOLEAN]
    /\ gatein[r.gatein] # "DRAFT"
    /\ r.at = Delivery[r.gatein].at /\ r.site \in {None, Delivery[r.gatein].site}

\* Every worker that has a request open has a sound one.
RequestsSound == \A p \in Workers : req[p] = NoRequest \/ MoveSound(req[p]) \/ VoidSound(req[p])

\* The inductive invariant.
ClaimsInv ==
    /\ RowsAreRows /\ BoxesAsReceived /\ RequestsSound
    /\ ContentsAreWithTheirBox /\ BoxClaimsAreBacked /\ EarmarksBackedUnlessStale
-----------------------------------------------------------------------------
(* Drawing on claims in order.                                             *)

\* Whatever is true of some number is first true of one.
LEMMA LeastNumber ==
    ASSUME NEW S \in SUBSET Nat, S # {}
    PROVE  \E n \in S : \A m \in S : n <= m
<1> DEFINE less == {ss \in Nat \X Nat : ss[1] < ss[2]}
<1>1. IsWellFoundedOn(less, Nat)
  BY NatLessThanWellFounded DEF OpToRel
<1> HIDE DEF less
<1>2. PICK n \in S : \A m \in S : ~ (<<m, n>> \in less)
  BY <1>1, WFMin
<1>3. \A m \in S : n <= m
  <2> TAKE m \in S
  <2>1. ~ (m < n)
    BY <1>2 DEF less
  <2> QED BY <2>1
<1> QED BY <1>3

\* What is in an order is finite.
LEMMA OrderedIsFinite == ASSUME NEW order, NEW T, Ordered(order, T) PROVE IsFiniteSet(T)
<1>1. order \in Surjection(1 .. Len(order), T)
  BY DEF Ordered, ToSet, Surjection
<1>2. IsFiniteSet(1 .. Len(order))
  BY FS_Interval DEF Ordered
<1> QED BY <1>1, <1>2, FS_Surjection

\* Claims drawn on in order give what is needed, as far as they go, and none more than it is.
LEMMA DrawnSum ==
    ASSUME NEW order, NEW T, Ordered(order, T), NEW S, S \subseteq T, NEW c, S \subseteq DOMAIN c,
           \A x \in S : c[x] \in Nat, NEW need \in Nat
    PROVE  LET d == Drawn(S, c, order, need)
           IN  /\ DOMAIN d = DOMAIN c
               /\ \A x \in S : d[x] \in Nat /\ d[x] <= c[x]
               /\ \A x \in DOMAIN c : x \notin S => d[x] = 0
               /\ SumFun(d, S) = Lower(need, SumFun(c, S))
<1> DEFINE d == Drawn(S, c, order, need)
           upTo(k) == {x \in S : \E i \in DOMAIN order : order[i] = x /\ i <= k}
<1>1. /\ order \in Seq(T) /\ Len(order) \in Nat /\ DOMAIN order = 1 .. Len(order)
      /\ \A i \in DOMAIN order : order[i] \in T
      /\ \A x \in T : \E i \in DOMAIN order : order[i] = x
      /\ \A i, j \in DOMAIN order : order[i] = order[j] => i = j
  BY DEF Ordered, ToSet, IsInjective
<1>2. IsFiniteSet(S)
  BY OrderedIsFinite, FS_Subset
<1>3. \A k : upTo(k) \subseteq S /\ IsFiniteSet(upTo(k))
  BY <1>2, FS_Subset
<1>4. \A k : SumFun(c, upTo(k)) \in Nat
  <2> TAKE k
  <2> DEFINE R == upTo(k)
  <2>1. IsFiniteSet(R) /\ \A x \in R : c[x] \in Nat
    BY <1>3
  <2> HIDE DEF R
  <2>2. SumFun(c, R) \in Nat
    BY <2>1, SumNonNegative
  <2> QED BY <2>2 DEF R
<1>5. DOMAIN d = DOMAIN c /\ \A x \in DOMAIN c : x \notin S => d[x] = 0
  BY DEF Drawn
<1>6. ASSUME NEW i \in DOMAIN order, order[i] \in S
      PROVE  d[order[i]] = Lower(c[order[i]], Above0(need - SumFun(c, upTo(i - 1))))
  <2> DEFINE x == order[i]
             before(z) == {y \in S : \E k, j \in DOMAIN order : order[k] = y /\ order[j] = z /\ k < j}
             ahead == before(x)
  <2>1. ahead = upTo(i - 1)
    <3>1. ASSUME NEW y \in ahead PROVE y \in upTo(i - 1)
      <4>1. PICK k \in DOMAIN order : \E j \in DOMAIN order : order[k] = y /\ order[j] = x /\ k < j
        OBVIOUS
      <4>2. PICK j \in DOMAIN order : order[k] = y /\ order[j] = x /\ k < j
        BY <4>1
      <4>3. j = i
        BY <1>1, <4>2
      <4>4. k <= i - 1
        BY <1>1, <4>2, <4>3
      <4> QED BY <4>2, <4>4
    <3>2. ASSUME NEW y \in upTo(i - 1) PROVE y \in ahead
      <4>1. PICK k \in DOMAIN order : order[k] = y /\ k <= i - 1
        OBVIOUS
      <4>2. k < i
        BY <1>1, <4>1
      <4> QED BY <4>1, <4>2
    <3> QED BY <3>1, <3>2
  <2>2. d[x] = Lower(c[x], Above0(need - MapThenSumSet(LAMBDA y : c[y], ahead)))
    <3> DEFINE val(z) == IF z \in S
                         THEN Lower(c[z], Above0(need - MapThenSumSet(LAMBDA y : c[y], before(z)))) ELSE 0
    <3>1. d = [z \in DOMAIN c |-> val(z)]
      BY Zenon DEF Drawn
    <3>2. x \in S /\ x \in DOMAIN c
      BY <1>6
    <3> HIDE DEF d, before, x
    <3>3. val(x) = Lower(c[x], Above0(need - MapThenSumSet(LAMBDA y : c[y], before(x))))
      BY Zenon, <3>2
    <3> HIDE DEF val
    <3>4. d[x] = val(x)
      BY <3>1, <3>2
    <3> QED BY <3>3, <3>4
  <2> HIDE DEF upTo, ahead
  <2> QED BY <2>1, <2>2 DEF SumFun
<1>7. \A x \in S : d[x] \in Nat /\ d[x] <= c[x]
  <2> TAKE x \in S
  <2>1. PICK i \in DOMAIN order : order[i] = x
    BY <1>1
  <2> HIDE DEF d, upTo
  <2> QED BY <1>4, <1>6, <2>1 DEF Lower, Above0
<1> DEFINE Fits(k) == SumFun(d, upTo(k)) = Lower(need, SumFun(c, upTo(k)))
           B == {k \in 0 .. Len(order) : ~ Fits(k)}
<1>8. B = {}
  <2>1. SUFFICES ASSUME B # {} PROVE FALSE
    OBVIOUS
  <2>2. PICK k \in B : \A m \in B : k <= m
    <3>1. B \subseteq Nat
      BY <1>1
    <3> HIDE DEF B
    <3> QED BY <2>1, <3>1, LeastNumber
  <2>3. k # 0
    <3>1. upTo(0) = {}
      BY <1>1
    <3>2. SumFun(d, {}) = 0 /\ SumFun(c, {}) = 0
      BY SumEmpty
    <3>3. Fits(0)
      <4> HIDE DEF d, upTo
      <4> QED BY <3>1, <3>2 DEF Lower
    <3> QED BY <3>3
  <2>4. k \in Nat /\ k - 1 \in 0 .. Len(order) /\ k \in DOMAIN order
    BY <1>1, <2>3
  <2>5. Fits(k - 1)
    <3>1. k - 1 \notin B
      BY <2>2, <2>4
    <3> QED BY <2>4, <3>1
  <2> DEFINE R == upTo(k - 1)
             x == order[k]
  <2>6. upTo(k) = IF x \in S THEN R \cup {x} ELSE R
    <3>1. \A i \in DOMAIN order : i <= k <=> i <= k - 1 \/ i = k
      BY <1>1, <2>4
    <3> QED BY <2>4, <3>1
  <2>7. x \notin R
    <3>1. ASSUME x \in R PROVE FALSE
      <4>1. PICK i \in DOMAIN order : order[i] = x /\ i <= k - 1
        BY <3>1
      <4>2. i = k
        BY <1>1, <2>4, <4>1
      <4> QED BY <1>1, <4>1, <4>2
    <3> QED BY <3>1
  <2>8. R \subseteq S /\ IsFiniteSet(R) /\ SumFun(c, R) \in Nat /\ SumFun(d, R) = Lower(need, SumFun(c, R))
    BY <1>3, <1>4, <2>5
  <2>9. ~ Fits(k)
    OBVIOUS
  <2>10. x \in S => d[x] = Lower(c[x], Above0(need - SumFun(c, R)))
    BY <1>6, <2>4
  <2>11. x \in S
    <3>1. x \notin S => upTo(k) = R
      BY <2>6
    <3> HIDE DEF R, upTo
    <3> QED BY <2>8, <2>9, <3>1
  <2>12. upTo(k) = R \cup {x}
    BY <2>6, <2>11
  <2>13. SumFun(d, R \cup {x}) # Lower(need, SumFun(c, R \cup {x}))
    BY <2>9, <2>12
  <2> HIDE DEF R, x, d, upTo, B
  <2>14. \A y \in R \cup {x} : c[y] \in Int /\ d[y] \in Int
    BY <1>7, <2>8, <2>11
  <2>15. SumFun(c, R \cup {x}) = SumFun(c, R) + c[x]
    BY <2>7, <2>8, <2>14, SumAdd
  <2>16. SumFun(d, R \cup {x}) = SumFun(d, R) + d[x]
    BY <2>7, <2>8, <2>14, SumAdd
  <2>17. c[x] \in Nat /\ d[x] \in Nat
    BY <1>7, <2>11
  <2> QED BY <2>8, <2>10, <2>11, <2>13, <2>15, <2>16, <2>17 DEF Lower, Above0
<1>9. upTo(Len(order)) = S
  BY <1>1
<1>10. Fits(Len(order))
  <2> HIDE DEF Fits
  <2> QED BY <1>1, <1>8
<1> HIDE DEF upTo, d
<1>11. SumFun(d, S) = Lower(need, SumFun(c, S))
  BY <1>9, <1>10
<1> QED BY <1>5, <1>7, <1>11 DEF d
-----------------------------------------------------------------------------
(* Boxes in boxes.                                                         *)

\* What a box is inside is a box, or nothing.
Nested(bx) == \A b \in Boxes : bx[b].parent \in Boxes \cup {None}

\* The chain of a box holds it, and what each of its members is inside.
LEMMA ChainHolds ==
    ASSUME NEW bx, Nested(bx), NEW b \in Boxes
    PROVE  /\ b \in Chain(bx, b) /\ Chain(bx, b) \subseteq Boxes
           /\ \A c \in Chain(bx, b) : bx[c].parent \in Chain(bx, b) \cup {None}
<1>1. b # None
  BY ClaimsAssumption
<1> QED BY <1>1 DEF Chain, Nested

\* It is no more than that.
LEMMA ChainIsLeast ==
    ASSUME NEW bx, NEW b \in Boxes, NEW S \in SUBSET Boxes, b \in S,
           \A c \in S : bx[c].parent \in S \cup {None}
    PROVE  Chain(bx, b) \subseteq S
<1>1. b # None
  BY ClaimsAssumption
<1> QED BY <1>1 DEF Chain

\* A chain goes on with the chain of what the box is inside.
LEMMA ChainGoesOn ==
    ASSUME NEW bx, Nested(bx), NEW b \in Boxes
    PROVE  Chain(bx, b) = {b} \cup Chain(bx, bx[b].parent)
<1> DEFINE p == bx[b].parent
           S == {b} \cup Chain(bx, p)
<1>1. p \in Boxes \/ (p = None /\ Chain(bx, p) = {})
  BY DEF Nested, Chain
<1>2. /\ b \in Chain(bx, b) /\ Chain(bx, b) \subseteq Boxes
      /\ \A c \in Chain(bx, b) : bx[c].parent \in Chain(bx, b) \cup {None}
  BY ChainHolds
<1>3. p \in Boxes =>
         /\ p \in Chain(bx, p) /\ Chain(bx, p) \subseteq Boxes
         /\ \A c \in Chain(bx, p) : bx[c].parent \in Chain(bx, p) \cup {None}
  BY ChainHolds
<1>4. S \in SUBSET Boxes /\ b \in S /\ \A c \in S : bx[c].parent \in S \cup {None}
  BY <1>1, <1>3
<1>5. Chain(bx, b) \subseteq S
  <2> HIDE DEF S
  <2> QED BY <1>4, ChainIsLeast
<1>6. Chain(bx, p) \subseteq Chain(bx, b)
  <2>1. CASE p \in Boxes
    <3> DEFINE C == Chain(bx, b)
    <3>1. p \in C /\ C \in SUBSET Boxes /\ \A c \in C : bx[c].parent \in C \cup {None}
      <4>1. p # None
        BY <2>1, ClaimsAssumption
      <4> QED BY <1>2, <4>1
    <3> HIDE DEF C, p
    <3>2. Chain(bx, p) \subseteq C
      BY <2>1, <3>1, ChainIsLeast
    <3> QED BY <3>2 DEF C
  <2> QED BY <1>1, <2>1
<1> QED BY <1>2, <1>5, <1>6

\* Boxes that come out of their boxes leave chains no longer.
LEMMA ChainShortens ==
    ASSUME NEW bx, NEW by, Nested(bx), \A c \in Boxes : by[c].parent \in {None, bx[c].parent},
           NEW b \in Boxes
    PROVE  Chain(by, b) \subseteq Chain(bx, b)
<1> DEFINE C == Chain(bx, b)
<1>1. b \in C /\ C \in SUBSET Boxes /\ \A c \in C : bx[c].parent \in C \cup {None}
  BY ChainHolds
<1>2. \A c \in C : by[c].parent \in C \cup {None}
  BY <1>1
<1> HIDE DEF C
<1>3. Chain(by, b) \subseteq C
  BY <1>1, <1>2, ChainIsLeast
<1> QED BY <1>3 DEF C

\* What closes was open and had nothing in it but boxes that close too.
LEMMA WhatIsEmptied ==
    ASSUME NEW bx, NEW un, NEW from, NEW b \in Emptied(bx, un, from)
    PROVE  /\ b \in Boxes /\ bx[b].status = "OPEN" /\ bx[b].claim = 0
           /\ ~ \E u \in Units : un[u].box = b
           /\ \A c \in Boxes : bx[c].parent = b /\ bx[c].status = "OPEN" => c \in Emptied(bx, un, from)
<1> DEFINE bare == {x \in Boxes : bx[x].status = "OPEN" /\ bx[x].claim = 0 /\ ~ \E u \in Units : un[u].box = x}
           empties(x, S) ==
              /\ \A c \in Boxes : bx[c].parent = x /\ bx[c].status = "OPEN" => c \in S
              /\ x \in from \/ \E c \in S : bx[c].parent = x
           closed == {S \in SUBSET bare : \A x \in bare : empties(x, S) => x \in S}
           T == {x \in bare : \A S \in closed : x \in S}
           F == {x \in bare : empties(x, T)}
<1>1. Emptied(bx, un, from) = T
  BY Zenon DEF Emptied
<1>2. \A R, S : R \subseteq S => \A x \in bare : empties(x, R) => empties(x, S)
  OBVIOUS
<1> HIDE DEF bare, empties
<1>3. F \subseteq T
  <2>1. \A S \in closed : T \subseteq S
    OBVIOUS
  <2> QED BY <1>2, <2>1
<1>4. F \in closed
  <2>1. \A x \in bare : empties(x, F) => empties(x, T)
    BY <1>2, <1>3
  <2> QED BY <2>1
<1>5. b \in bare /\ empties(b, T)
  BY <1>1, <1>4
<1> HIDE DEF T
<1> QED BY <1>1, <1>5 DEF bare, empties

\* What is in which box, for boxes bx and units un.
Inventory(bx, un) ==
    /\ \A u \in Units : un[u].box # None =>
          bx[un[u].box].status = "OPEN" /\ bx[un[u].box].node = un[u].node
    /\ \A b \in Boxes : bx[b].status = "CLOSED" => IsEmpty(bx, un, b)
    /\ \A b \in Boxes : bx[b].status = "OPEN" =>
          IF bx[b].parent = None THEN bx[b].depth = 1
          ELSE /\ bx[b].depth = bx[bx[b].parent].depth + 1
               /\ bx[b].node = bx[bx[b].parent].node

\* The invariant about contents, before a step and after it, is an inventory of the rows.
LEMMA ContentsAreAnInventory ==
    /\ ContentsAreWithTheirBox <=> Inventory(box, unit)
    /\ ContentsAreWithTheirBox' <=> Inventory(box', unit')
<1>1. ContentsAreWithTheirBox <=> Inventory(box, unit)
  BY DEF ContentsAreWithTheirBox, Inventory
<1>2. ContentsAreWithTheirBox' <=> Inventory(box', unit')
  BY DEF ContentsAreWithTheirBox, Inventory, IsEmpty
<1> QED BY <1>1, <1>2

\* The fields of a box.
LEMMA BoxFields ==
    ASSUME NEW r \in BoxRow
    PROVE  /\ r.status \in {"NONE", "OPEN", "CLOSED"} /\ r.node \in Inside \cup {None}
           /\ r.parent \in Boxes \cup {None} /\ r.depth \in Int /\ r.claim \in Nat
BY DEF BoxRow

\* The fields of a unit.
LEMMA UnitFields ==
    ASSUME NEW r \in UnitRow
    PROVE  r.node \in Inside \cup Outside /\ r.box \in Boxes \cup {None} /\ r.site \in Sites \cup {None}
BY DEF UnitRow

\* Closing closes, and changes nothing else of any box.
LEMMA WhatClosingDoes ==
    ASSUME NEW bx \in [Boxes -> BoxRow], NEW un, NEW from
    PROVE  LET by == CloseIfEmpty(bx, un, from)
           IN  /\ by \in [Boxes -> BoxRow]
               /\ \A b \in Boxes :
                     /\ by[b].node = bx[b].node /\ by[b].parent = bx[b].parent
                     /\ by[b].depth = bx[b].depth /\ by[b].claim = bx[b].claim
                     /\ by[b].status = IF b \in Emptied(bx, un, from) THEN "CLOSED" ELSE bx[b].status
<1> DEFINE by == CloseIfEmpty(bx, un, from)
           gone == Emptied(bx, un, from)
<1>1. by = [b \in Boxes |-> [bx[b] EXCEPT !.status = IF b \in gone THEN "CLOSED" ELSE bx[b].status]]
  BY DEF CloseIfEmpty
<1> HIDE DEF by, gone
<1>2. ASSUME NEW b \in Boxes
      PROVE  /\ by[b] \in BoxRow
             /\ by[b].node = bx[b].node /\ by[b].parent = bx[b].parent
             /\ by[b].depth = bx[b].depth /\ by[b].claim = bx[b].claim
             /\ by[b].status = IF b \in gone THEN "CLOSED" ELSE bx[b].status
  <2>1. bx[b] \in BoxRow
    OBVIOUS
  <2> QED BY <1>1, <2>1 DEF BoxRow
<1> QED BY <1>1, <1>2 DEF by, gone

\* Closing what is empty leaves an inventory, also when units come out at the same time.
LEMMA ClosingKeepsInventory ==
    ASSUME NEW bx \in [Boxes -> BoxRow], NEW un, NEW uo, NEW from, Inventory(bx, un),
           \A u \in Units : un[u].box \in {None, uo[u].box} /\ un[u].box \in Boxes \cup {None}
    PROVE  Inventory(CloseIfEmpty(bx, uo, from), un)
<1> DEFINE by == CloseIfEmpty(bx, uo, from)
           gone == Emptied(bx, uo, from)
<1>1. \A b \in Boxes :
         /\ by[b].node = bx[b].node /\ by[b].parent = bx[b].parent
         /\ by[b].depth = bx[b].depth /\ by[b].claim = bx[b].claim
         /\ by[b].status = IF b \in gone THEN "CLOSED" ELSE bx[b].status
  BY WhatClosingDoes
<1>2. \A b \in gone :
         /\ b \in Boxes /\ bx[b].status = "OPEN" /\ bx[b].claim = 0
         /\ ~ \E u \in Units : uo[u].box = b
         /\ \A c \in Boxes : bx[c].parent = b /\ bx[c].status = "OPEN" => c \in gone
  BY WhatIsEmptied
<1> HIDE DEF by, gone
<1>3. \A b \in Boxes : bx[b].parent \in Boxes \cup {None}
  BY BoxFields
<1>4. \A u \in Units : un[u].box # None =>
         by[un[u].box].status = "OPEN" /\ by[un[u].box].node = un[u].node
  BY <1>1, <1>2 DEF Inventory
<1>5. ASSUME NEW b \in Boxes, by[b].status = "CLOSED" PROVE IsEmpty(by, un, b)
  <2>1. CASE b \in gone
    <3>1. ~ \E u \in Units : un[u].box = b
      BY <1>2, <2>1, ClaimsAssumption
    <3>2. ~ \E c \in Boxes : by[c].parent = b /\ by[c].status = "OPEN"
      BY <1>1, <1>2, <2>1
    <3> QED BY <1>1, <1>2, <2>1, <3>1, <3>2 DEF IsEmpty
  <2>2. CASE b \notin gone
    <3>1. IsEmpty(bx, un, b)
      BY <1>1, <1>5, <2>2 DEF Inventory
    <3>2. ~ \E c \in Boxes : by[c].parent = b /\ by[c].status = "OPEN"
      BY <1>1, <3>1 DEF IsEmpty
    <3> QED BY <1>1, <3>1, <3>2 DEF IsEmpty
  <2> QED BY <2>1, <2>2
<1>6. \A b \in Boxes : by[b].status = "OPEN" =>
         IF by[b].parent = None THEN by[b].depth = 1
         ELSE /\ by[b].depth = by[by[b].parent].depth + 1
              /\ by[b].node = by[by[b].parent].node
  BY <1>1, <1>3 DEF Inventory
<1> QED BY <1>4, <1>5, <1>6 DEF Inventory, by

-----------------------------------------------------------------------------
(* The claims of boxes.                                                    *)

\* What each box claims of what lies at a node.
ClaimThere(bx, n) == [b \in Boxes |-> IF bx[b].status = "OPEN" /\ bx[b].node = n THEN bx[b].claim ELSE 0]

\* Boxes and sites are ordered, so they are finite.
LEMMA BoxesAreFinite == IsFiniteSet(Boxes) /\ IsFiniteSet(Sites)
BY ClaimsAssumption, OrderedIsFinite

\* What the open boxes of a node claim, as a sum over all boxes, with 0 for the rest.
LEMMA ClaimedIsSum ==
    ASSUME NEW bx \in [Boxes -> BoxRow], NEW n
    PROVE  /\ ClaimedAt(bx, n) = SumFun(ClaimThere(bx, n), Boxes) /\ ClaimedAt(bx, n) \in Nat
           /\ ClaimedAt(bx, n) = SumFun(ClaimOf(bx), OpenAt(bx, n))
           /\ \A b \in Boxes : ClaimThere(bx, n)[b] \in Nat /\ ClaimOf(bx)[b] \in Nat
<1> DEFINE there == OpenAt(bx, n)
           some == [b \in there |-> bx[b].claim]
           all == ClaimOf(bx)
           each == ClaimThere(bx, n)
<1>1. there \subseteq Boxes /\ IsFiniteSet(Boxes) /\ IsFiniteSet(there)
  BY BoxesAreFinite, FS_Subset DEF OpenAt
<1>2. /\ \A b \in Boxes : all[b] \in Nat /\ each[b] \in Nat
      /\ \A b \in there : some[b] \in Int /\ all[b] = some[b] /\ each[b] = some[b]
      /\ \A b \in Boxes : b \notin there => each[b] = 0
  BY BoxFields DEF ClaimOf, ClaimThere, OpenAt
<1>3. ClaimedAt(bx, n) = SumFun(some, there)
  BY DEF ClaimedAt, SumFun, MapThenSumSet, MapThenFoldSet
<1> HIDE DEF there, some, all, each
<1>4. SumFun(all, there) = SumFun(some, there)
  BY <1>1, <1>2, SumSame
<1>5. SumFun(some, there) = SumFun(each, Boxes)
  BY <1>1, <1>2, SumPart
<1>6. SumFun(each, Boxes) \in Nat
  BY <1>1, <1>2, SumNonNegative
<1> QED BY <1>2, <1>3, <1>4, <1>5, <1>6 DEF there, all, each

\* Boxes that claim the same, where they are, claim as much.
LEMMA SameClaims ==
    ASSUME NEW bx \in [Boxes -> BoxRow], NEW by \in [Boxes -> BoxRow], NEW n,
           \A b \in Boxes : ClaimThere(by, n)[b] = ClaimThere(bx, n)[b]
    PROVE  ClaimedAt(by, n) = ClaimedAt(bx, n)
<1>1. /\ ClaimedAt(bx, n) = SumFun(ClaimThere(bx, n), Boxes)
      /\ ClaimedAt(by, n) = SumFun(ClaimThere(by, n), Boxes)
      /\ \A b \in Boxes : ClaimThere(bx, n)[b] \in Int
  BY ClaimedIsSum
<1> QED BY <1>1, BoxesAreFinite, SumSame

\* What closes claims nothing.
LEMMA ClosingClaims ==
    ASSUME NEW bx \in [Boxes -> BoxRow], NEW un, NEW from, NEW n
    PROVE  ClaimedAt(CloseIfEmpty(bx, un, from), n) = ClaimedAt(bx, n)
<1> DEFINE by == CloseIfEmpty(bx, un, from)
<1>1. /\ by \in [Boxes -> BoxRow]
      /\ \A b \in Boxes :
            /\ by[b].node = bx[b].node /\ by[b].claim = bx[b].claim
            /\ by[b].status = IF b \in Emptied(bx, un, from) THEN "CLOSED" ELSE bx[b].status
  BY WhatClosingDoes
<1>2. \A b \in Emptied(bx, un, from) : bx[b].claim = 0
  BY WhatIsEmptied
<1> HIDE DEF by
<1>3. \A b \in Boxes : ClaimThere(by, n)[b] = ClaimThere(bx, n)[b]
  BY <1>1, <1>2 DEF ClaimThere
<1> QED BY <1>1, <1>3, SameClaims DEF by

\* Claims that are cut at a node.
CutFits(bx, at, cut) ==
    /\ DOMAIN cut = Boxes
    /\ \A b \in Boxes : cut[b] \in Nat /\ (cut[b] # 0 => b \in OpenAt(bx, at) /\ cut[b] <= bx[b].claim)

\* The boxes, each claiming less by its cut.
LessClaimed(bx, cut) == [b \in Boxes |-> [bx[b] EXCEPT !.claim = @ - cut[b]]]

\* Cutting claims at a node takes from what is claimed there and from nothing else.
LEMMA ClaimsAreCut ==
    ASSUME NEW bx \in [Boxes -> BoxRow], NEW at, NEW cut, CutFits(bx, at, cut)
    PROVE  LET by == LessClaimed(bx, cut)
           IN  /\ by \in [Boxes -> BoxRow]
               /\ \A b \in Boxes :
                     /\ by[b].status = bx[b].status /\ by[b].node = bx[b].node
                     /\ by[b].parent = bx[b].parent /\ by[b].depth = bx[b].depth
                     /\ by[b].claim = bx[b].claim - cut[b]
               /\ SumFun(cut, Boxes) \in Nat
               /\ ClaimedAt(by, at) = ClaimedAt(bx, at) - SumFun(cut, Boxes)
               /\ \A n : n # at => ClaimedAt(by, n) = ClaimedAt(bx, n)
<1> DEFINE by == LessClaimed(bx, cut)
<1>1. ASSUME NEW b \in Boxes
      PROVE  /\ by[b] \in BoxRow
             /\ by[b].status = bx[b].status /\ by[b].node = bx[b].node
             /\ by[b].parent = bx[b].parent /\ by[b].depth = bx[b].depth
             /\ by[b].claim = bx[b].claim - cut[b]
  <2>1. bx[b].claim \in Nat /\ cut[b] \in Nat /\ cut[b] <= bx[b].claim
    BY BoxFields DEF CutFits
  <2>2. bx[b].claim - cut[b] \in Nat
    BY <2>1
  <2>3. bx[b] \in BoxRow /\ by[b] = [bx[b] EXCEPT !.claim = bx[b].claim - cut[b]]
    BY DEF LessClaimed
  <2> HIDE DEF by
  <2> QED BY <2>2, <2>3 DEF BoxRow
<1>2. by \in [Boxes -> BoxRow]
  BY <1>1 DEF LessClaimed
<1> HIDE DEF by
<1>3. \A b \in Boxes : cut[b] \in Nat /\ cut[b] \in Int
  BY DEF CutFits
<1>4. SumFun(cut, Boxes) \in Nat
  BY <1>3, BoxesAreFinite, SumNonNegative
<1>5. ClaimedAt(by, at) = ClaimedAt(bx, at) - SumFun(cut, Boxes)
  <2> DEFINE f == ClaimThere(by, at)
             h == ClaimThere(bx, at)
  <2>1. /\ ClaimedAt(bx, at) = SumFun(h, Boxes) /\ ClaimedAt(by, at) = SumFun(f, Boxes)
        /\ \A b \in Boxes : h[b] \in Nat /\ f[b] \in Nat
        /\ SumFun(h, Boxes) \in Nat /\ SumFun(f, Boxes) \in Nat
    BY <1>2, ClaimedIsSum
  <2>2. \A b \in Boxes : h[b] = f[b] + cut[b]
    BY <1>1, BoxFields DEF ClaimThere, CutFits, OpenAt
  <2> HIDE DEF f, h
  <2>3. \A b \in Boxes : f[b] \in Int /\ cut[b] \in Int /\ h[b] = f[b] + cut[b]
    BY <1>3, <2>1, <2>2
  <2>4. SumFun(h, Boxes) = SumFun(f, Boxes) + SumFun(cut, Boxes)
    <3>1. \A b \in Boxes : f[b] \in Int /\ cut[b] \in Int /\ h[b] \in Int /\ h[b] = f[b] + cut[b]
      BY <2>1, <2>3
    <3> QED BY <3>1, BoxesAreFinite, SumPlus
  <2> QED BY <1>4, <2>1, <2>4
<1>6. ASSUME NEW n, n # at PROVE ClaimedAt(by, n) = ClaimedAt(bx, n)
  <2>1. \A b \in Boxes : ClaimThere(by, n)[b] = ClaimThere(bx, n)[b]
    BY <1>1, <1>6, BoxFields DEF ClaimThere, CutFits, OpenAt
  <2> QED BY <1>2, <2>1, SameClaims
<1> QED BY <1>1, <1>2, <1>4, <1>5, <1>6 DEF by

\* Cutting claims leaves an inventory.
LEMMA CuttingKeepsInventory ==
    ASSUME NEW bx \in [Boxes -> BoxRow], NEW un, NEW at, NEW cut, CutFits(bx, at, cut), Inventory(bx, un),
           \A u \in Units : un[u].box \in Boxes \cup {None}
    PROVE  Inventory(LessClaimed(bx, cut), un)
<1> DEFINE by == LessClaimed(bx, cut)
<1>1. \A b \in Boxes :
         /\ by[b].status = bx[b].status /\ by[b].node = bx[b].node
         /\ by[b].parent = bx[b].parent /\ by[b].depth = bx[b].depth
         /\ by[b].claim = bx[b].claim - cut[b]
  BY ClaimsAreCut
<1> HIDE DEF by
<1>2. \A b \in Boxes : bx[b].parent \in Boxes \cup {None}
  BY BoxFields
<1>3. \A b \in Boxes : bx[b].status = "CLOSED" => IsEmpty(by, un, b)
  <2> TAKE b \in Boxes
  <2> HAVE bx[b].status = "CLOSED"
  <2>1. IsEmpty(bx, un, b) /\ cut[b] = 0
    BY DEF Inventory, CutFits, OpenAt
  <2> QED BY <1>1, <2>1 DEF IsEmpty
<1>4. \A u \in Units : un[u].box # None =>
         by[un[u].box].status = "OPEN" /\ by[un[u].box].node = un[u].node
  <2> TAKE u \in Units
  <2> HAVE un[u].box # None
  <2>1. bx[un[u].box].status = "OPEN" /\ bx[un[u].box].node = un[u].node
    BY DEF Inventory
  <2> QED BY <1>1, <2>1
<1> QED BY <1>1, <1>2, <1>3, <1>4 DEF Inventory, by

\* Rule 2 of a movement: what it draws from boxes fits them, and leaves no more claimed where
\* it comes from than there is.
Cut(bx, m) ==
    IF m.box # None THEN [b \in Boxes |-> IF b = m.box THEN m.qty ELSE 0]
    ELSE IF m.kind # "CORRECTION" THEN [b \in Boxes |-> 0]
    ELSE Drawn(OpenAt(bx, m.from), ClaimOf(bx), CodeOrder,
               Above0(m.qty - Above0(balance[m.from] - ClaimedAt(bx, m.from))))

\* What a movement may take: out of one box what that box claims, otherwise what no box
\* claims, unless it is a correction.
Covered(bx, m) ==
    IF m.box # None THEN m.box \in OpenAt(bx, m.from) /\ m.qty <= bx[m.box].claim
    ELSE m.kind = "CORRECTION" \/ ClaimedAt(bx, m.from) = 0 \/ m.qty <= balance[m.from] - ClaimedAt(bx, m.from)

\* A movement that is covered cuts no box below 0, and what stays claimed stays backed.
LEMMA CutsFit ==
    ASSUME NEW bx \in [Boxes -> BoxRow], NEW m, m.qty \in Nat, balance[m.from] \in Int, Covered(bx, m),
           ClaimedAt(bx, m.from) <= balance[m.from], m.qty <= balance[m.from]
    PROVE  /\ CutFits(bx, m.from, Cut(bx, m))
           /\ ClaimedAt(bx, m.from) - SumFun(Cut(bx, m), Boxes) <= balance[m.from] - m.qty
<1> DEFINE cut == Cut(bx, m)
           there == OpenAt(bx, m.from)
<1>1. /\ ClaimedAt(bx, m.from) \in Nat /\ IsFiniteSet(Boxes)
      /\ ClaimedAt(bx, m.from) = SumFun(ClaimOf(bx), there)
      /\ \A b \in Boxes : bx[b].claim \in Nat /\ ClaimOf(bx)[b] = bx[b].claim
      /\ there \subseteq Boxes /\ DOMAIN ClaimOf(bx) = Boxes
  BY ClaimedIsSum, BoxesAreFinite, BoxFields DEF ClaimOf, OpenAt
<1>2. CASE m.box # None
  <2>1. cut = [b \in Boxes |-> IF b = m.box THEN m.qty ELSE 0]
    BY <1>2 DEF Cut
  <2>2. m.box \in there /\ m.box \in Boxes /\ m.qty <= bx[m.box].claim
    BY <1>1, <1>2 DEF Covered
  <2> DEFINE none == [b \in Boxes |-> 0]
  <2>3. SumFun(none, Boxes) = 0
    BY <1>1, SumZero
  <2>4. SumFun(cut, Boxes) = m.qty
    <3>1. /\ \A b \in Boxes : none[b] \in Int /\ cut[b] \in Int
          /\ \A b \in Boxes \ {m.box} : cut[b] = none[b]
          /\ cut[m.box] = m.qty /\ none[m.box] = 0
      BY <2>1, <2>2
    <3> HIDE DEF none, cut
    <3>2. SumFun(cut, Boxes) = SumFun(none, Boxes) + cut[m.box] - none[m.box]
      BY <1>1, <2>2, <3>1, SumChange
    <3> QED BY <2>3, <3>1, <3>2
  <2>5. CutFits(bx, m.from, cut)
    BY <2>1, <2>2 DEF CutFits
  <2> QED BY <1>1, <2>4, <2>5
<1>3. CASE m.box = None /\ m.kind # "CORRECTION"
  <2>1. cut = [b \in Boxes |-> 0]
    BY <1>3 DEF Cut
  <2>2. SumFun(cut, Boxes) = 0
    BY <1>1, <2>1, SumZero
  <2>3. CutFits(bx, m.from, cut)
    BY <2>1 DEF CutFits
  <2> HIDE DEF cut
  <2> QED BY <1>1, <1>3, <2>2, <2>3 DEF Covered, cut
<1>4. CASE m.box = None /\ m.kind = "CORRECTION"
  <2> DEFINE c == ClaimOf(bx)
             need == Above0(m.qty - Above0(balance[m.from] - ClaimedAt(bx, m.from)))
  <2>1. cut = Drawn(there, c, CodeOrder, need)
    BY <1>4 DEF Cut
  <2>2. /\ Ordered(CodeOrder, Boxes) /\ there \subseteq DOMAIN c /\ \A b \in there : c[b] \in Nat
        /\ need \in Nat
    BY <1>1, ClaimsAssumption DEF Above0
  <2> HIDE DEF cut, c, need, there
  <2>3. /\ DOMAIN cut = DOMAIN c
        /\ \A b \in there : cut[b] \in Nat /\ cut[b] <= c[b]
        /\ \A b \in DOMAIN c : b \notin there => cut[b] = 0
        /\ SumFun(cut, there) = Lower(need, SumFun(c, there))
    BY <1>1, <2>1, <2>2, DrawnSum DEF there
  <2>4. DOMAIN c = Boxes /\ \A b \in Boxes : c[b] = bx[b].claim
    BY <1>1 DEF c
  <2>5. CutFits(bx, m.from, cut)
    BY <2>3, <2>4 DEF CutFits, there
  <2>6. SumFun(cut, there) = SumFun(cut, Boxes)
    <3>1. there \subseteq Boxes
      BY <1>1 DEF there
    <3>2. \A b \in there : cut[b] \in Int
      BY <2>3
    <3>3. \A b \in Boxes : b \notin there => cut[b] = 0
      BY <2>3, <2>4
    <3> QED BY <1>1, <3>1, <3>2, <3>3, SumPart
  <2>7. ClaimedAt(bx, m.from) = SumFun(c, there)
    BY <1>1 DEF c, there
  <2> QED BY <1>1, <2>3, <2>5, <2>6, <2>7 DEF Lower, Above0, need, cut
<1> QED BY <1>2, <1>3, <1>4

\* What a movement leaves of the boxes: an inventory, and claims that are backed.
LEMMA BoxesAfterAMovement ==
    ASSUME NEW bx \in [Boxes -> BoxRow], NEW m, m.qty \in Nat, balance[m.from] \in Int, Covered(bx, m),
           ClaimedAt(bx, m.from) <= balance[m.from], m.qty <= balance[m.from],
           NEW un, Inventory(bx, un), unit \in [Units -> UnitRow],
           \A u \in Units : un[u].box \in {None, unit[u].box}
    PROVE  LET by == BoxesAfter(bx, m)
           IN  /\ by \in [Boxes -> BoxRow]
               /\ \A b \in Boxes :
                     /\ by[b].status = bx[b].status \/ (bx[b].status = "OPEN" /\ by[b].status = "CLOSED")
                     /\ by[b].node = bx[b].node /\ by[b].parent = bx[b].parent
               /\ Inventory(by, un)
               /\ ClaimedAt(by, m.from) <= balance[m.from] - m.qty
               /\ \A n : n # m.from => ClaimedAt(by, n) = ClaimedAt(bx, n)
<1> DEFINE cut == Cut(bx, m)
           less == LessClaimed(bx, cut)
           from == {b \in Boxes : cut[b] > 0}
           by == BoxesAfter(bx, m)
<1>1. by = CloseIfEmpty(less, unit, from)
  BY DEF BoxesAfter, Cut, LessClaimed
<1>2. /\ CutFits(bx, m.from, cut)
      /\ ClaimedAt(bx, m.from) - SumFun(cut, Boxes) <= balance[m.from] - m.qty
  BY CutsFit
<1>3. \A u \in Units : un[u].box \in Boxes \cup {None}
  BY UnitFields
<1> HIDE DEF cut
<1>4. /\ less \in [Boxes -> BoxRow]
      /\ \A b \in Boxes :
            /\ less[b].status = bx[b].status /\ less[b].node = bx[b].node
            /\ less[b].parent = bx[b].parent
      /\ ClaimedAt(less, m.from) = ClaimedAt(bx, m.from) - SumFun(cut, Boxes)
      /\ \A n : n # m.from => ClaimedAt(less, n) = ClaimedAt(bx, n)
  BY <1>2, ClaimsAreCut
<1>5. Inventory(less, un)
  BY <1>2, <1>3, CuttingKeepsInventory
<1> HIDE DEF less, from, by
<1>6. /\ by \in [Boxes -> BoxRow]
      /\ \A b \in Boxes :
            /\ by[b].node = less[b].node /\ by[b].parent = less[b].parent
            /\ by[b].status = IF b \in Emptied(less, unit, from) THEN "CLOSED" ELSE less[b].status
  BY <1>1, <1>4, WhatClosingDoes
<1>7. \A b \in Emptied(less, unit, from) : less[b].status = "OPEN"
  BY WhatIsEmptied
<1>8. Inventory(by, un)
  BY <1>1, <1>3, <1>4, <1>5, ClosingKeepsInventory
<1>9. \A n : ClaimedAt(by, n) = ClaimedAt(less, n)
  BY <1>1, <1>4, ClosingClaims
<1> QED BY <1>2, <1>4, <1>6, <1>7, <1>8, <1>9 DEF by

-----------------------------------------------------------------------------
(* Earmarks.                                                               *)

\* What earmarks mk keep at a node.
KeptAt(mk, n) == [s \in Sites |-> mk[s][n]]

\* The earmarks at a node.
Marked(mk, n) == SumFun(KeptAt(mk, n), Sites)

\* Every function that may be the earmarks.
Marks == [Sites -> [Inside -> Nat]]

\* The earmarks at a node are a sum over the sites.
LEMMA MarkedIsSum ==
    ASSUME NEW mk \in Marks, NEW n \in Inside
    PROVE  /\ MapThenSumSet(LAMBDA s : mk[s][n], Sites) = Marked(mk, n) /\ Marked(mk, n) \in Nat
           /\ \A s \in Sites : KeptAt(mk, n)[s] \in Nat /\ KeptAt(mk, n)[s] = mk[s][n]
<1>1. MapThenSumSet(LAMBDA s : mk[s][n], Sites) = Marked(mk, n)
  BY DEF Marked, KeptAt, SumFun, MapThenSumSet, MapThenFoldSet
<1>2. \A s \in Sites : KeptAt(mk, n)[s] \in Nat /\ KeptAt(mk, n)[s] = mk[s][n]
  BY DEF Marks, KeptAt
<1>3. Marked(mk, n) \in Nat
  BY <1>2, BoxesAreFinite, SumNonNegative DEF Marked
<1> QED BY <1>1, <1>2, <1>3

\* What is kept for some sites and what is kept for the others.
LEMMA SumOfTwoParts ==
    ASSUME NEW S, IsFiniteSet(S), NEW T, T \subseteq S, NEW f, \A x \in S : f[x] \in Nat
    PROVE  /\ SumFun(f, S) = SumFun(f, T) + SumFun(f, S \ T)
           /\ SumFun(f, T) \in Nat /\ SumFun(f, S \ T) \in Nat
<1> DEFINE g == [x \in S |-> IF x \in T THEN f[x] ELSE 0]
           h == [x \in S |-> IF x \in S \ T THEN f[x] ELSE 0]
<1>1. /\ IsFiniteSet(T) /\ IsFiniteSet(S \ T)
      /\ S \ T \subseteq S
  BY FS_Subset
<1>2. /\ \A x \in T : f[x] \in Int /\ g[x] = f[x]
      /\ \A x \in S : x \notin T => g[x] = 0
      /\ \A x \in S \ T : f[x] \in Int /\ h[x] = f[x]
      /\ \A x \in S : x \notin S \ T => h[x] = 0
      /\ \A x \in S : g[x] \in Int /\ h[x] \in Int /\ f[x] \in Int /\ f[x] = g[x] + h[x]
  OBVIOUS
<1> HIDE DEF g, h
<1>3. SumFun(f, T) = SumFun(g, S)
  BY <1>2, SumPart
<1>4. SumFun(f, S \ T) = SumFun(h, S)
  <2> DEFINE R == S \ T
  <2>1. R \subseteq S /\ (\A x \in R : f[x] \in Int /\ h[x] = f[x]) /\ \A x \in S : x \notin R => h[x] = 0
    BY <1>2
  <2> HIDE DEF R
  <2>2. SumFun(f, R) = SumFun(h, S)
    BY <2>1, SumPart
  <2> QED BY <2>2 DEF R
<1>5. SumFun(f, S) = SumFun(g, S) + SumFun(h, S)
  BY <1>2, SumPlus
<1>6. SumFun(f, T) \in Nat /\ SumFun(f, S \ T) \in Nat
  <2> DEFINE R == S \ T
  <2>1. (\A x \in T : f[x] \in Nat) /\ \A x \in R : f[x] \in Nat
    OBVIOUS
  <2>2. IsFiniteSet(R)
    BY <1>1
  <2> HIDE DEF R
  <2>3. SumFun(f, R) \in Nat /\ SumFun(f, T) \in Nat
    BY <1>1, <2>1, <2>2, SumNonNegative
  <2> QED BY <2>3 DEF R
<1> QED BY <1>3, <1>4, <1>5, <1>6

\* d takes what is needed of the claims of some sites, as far as they go, and nothing of others.
Takes(d, kept, some, need) ==
    /\ DOMAIN d = Sites
    /\ \A s \in some : d[s] \in Nat /\ d[s] <= kept[s]
    /\ \A s \in Sites : s \notin some => d[s] = 0
    /\ SumFun(d, some) = Lower(need, SumFun(kept, some))

\* Drawing does.
LEMMA DrawnTakes ==
    ASSUME NEW some \in SUBSET Sites, NEW kept, DOMAIN kept = Sites, \A s \in Sites : kept[s] \in Nat,
           NEW need \in Nat, NEW d, d = Drawn(some, kept, NameOrder, need)
    PROVE  Takes(d, kept, some, need)
<1>1. Ordered(NameOrder, Sites) /\ some \subseteq DOMAIN kept /\ \A s \in some : kept[s] \in Nat
  BY ClaimsAssumption
<1> DEFINE e == Drawn(some, kept, NameOrder, need)
<1>2. /\ DOMAIN e = DOMAIN kept
      /\ \A s \in some : e[s] \in Nat /\ e[s] <= kept[s]
      /\ \A s \in DOMAIN kept : s \notin some => e[s] = 0
      /\ SumFun(e, some) = Lower(need, SumFun(kept, some))
  BY <1>1, DrawnSum
<1>3. d = e
  OBVIOUS
<1> HIDE DEF e
<1> QED BY <1>2, <1>3 DEF Takes

\* What is taken of some sites is all that is taken.
LEMMA TakenSum ==
    ASSUME NEW some \in SUBSET Sites, NEW kept, NEW need, NEW d, Takes(d, kept, some, need),
           \A s \in Sites : kept[s] \in Nat
    PROVE  /\ SumFun(d, Sites) = Lower(need, SumFun(kept, some))
           /\ \A s \in Sites : d[s] \in Nat /\ d[s] <= kept[s]
<1>1. \A s \in some : d[s] \in Int
  BY DEF Takes
<1>2. \A s \in Sites : s \notin some => d[s] = 0
  BY DEF Takes
<1>3. SumFun(d, some) = SumFun(d, Sites)
  BY <1>1, <1>2, BoxesAreFinite, SumPart
<1>4. SumFun(d, some) = Lower(need, SumFun(kept, some))
  BY DEF Takes
<1>5. \A s \in Sites : d[s] \in Nat /\ d[s] <= kept[s]
  BY DEF Takes
<1> QED BY <1>3, <1>4, <1>5

\* Drawing on a site's own earmark first, then on what is free, then on the others'.
Needed(kept, mine, qty, bal) == Above0((qty - SumFun(mine, Sites)) - Above0(bal - SumFun(kept, Sites)))

\* Earmarks are whole numbers.
Whole(kept) == \A s \in Sites : kept[s] \in Nat

\* A draw made in two parts.
Together(d, mine, theirs) == \A s \in Sites : d[s] = mine[s] + theirs[s]

\* A draw takes no more than was kept or asked for, and leaves the rest backed.
DrawnWell(d, kept, qty, bal) ==
    /\ \A s \in Sites : d[s] \in Nat /\ d[s] <= kept[s]
    /\ SumFun(d, Sites) \in Nat /\ SumFun(d, Sites) <= qty
    /\ SumFun(kept, Sites) <= bal /\ qty <= bal =>
          SumFun(kept, Sites) - SumFun(d, Sites) <= bal - qty

\* Both draws together take what they should.
LEMMA TwoDraws ==
    ASSUME NEW own \in SUBSET Sites, NEW kept, Whole(kept),
           NEW qty \in Nat, NEW bal \in Int,
           NEW mine, Takes(mine, kept, own, qty),
           NEW theirs, Takes(theirs, kept, Sites \ own, Needed(kept, mine, qty, bal)),
           NEW d, Together(d, mine, theirs)
    PROVE  DrawnWell(d, kept, qty, bal)
<1> DEFINE others == Sites \ own
           need == Needed(kept, mine, qty, bal)
<1>1. others \in SUBSET Sites /\ Takes(theirs, kept, others, need)
  OBVIOUS
<1>2. /\ SumFun(kept, Sites) = SumFun(kept, own) + SumFun(kept, others)
      /\ SumFun(kept, own) \in Nat /\ SumFun(kept, others) \in Nat
  BY BoxesAreFinite, SumOfTwoParts DEF Whole
<1>3. /\ \A s \in own : mine[s] \in Nat /\ mine[s] <= kept[s]
      /\ \A s \in others : mine[s] = 0 /\ theirs[s] \in Nat /\ theirs[s] <= kept[s]
      /\ \A s \in own : theirs[s] = 0
  BY DEF Takes
<1> HIDE DEF others, need
<1>4. /\ SumFun(mine, Sites) = Lower(qty, SumFun(kept, own))
      /\ SumFun(theirs, Sites) = Lower(need, SumFun(kept, others))
  BY <1>1, TakenSum DEF Whole
<1>5. \A s \in Sites : d[s] \in Nat /\ d[s] <= kept[s] /\ mine[s] \in Int /\ theirs[s] \in Int
  <2> TAKE s \in Sites
  <2>1. CASE s \in own
    BY <1>3, <2>1 DEF Whole, Together
  <2>2. CASE s \in others
    BY <1>3, <2>2 DEF Whole, Together
  <2> QED BY <2>1, <2>2 DEF others
<1>6. SumFun(d, Sites) = SumFun(mine, Sites) + SumFun(theirs, Sites)
  <2>1. \A s \in Sites : mine[s] \in Int /\ theirs[s] \in Int /\ d[s] = mine[s] + theirs[s]
    BY <1>5 DEF Together
  <2> QED BY <2>1, BoxesAreFinite, SumPlus
<1>7. need = Above0((qty - SumFun(mine, Sites)) - Above0(bal - SumFun(kept, Sites)))
  BY DEF need, Needed
<1>8. SumFun(d, Sites) \in Nat /\ SumFun(d, Sites) <= qty
  BY <1>2, <1>4, <1>6, <1>7 DEF Lower, Above0
<1>9. SumFun(kept, Sites) <= bal /\ qty <= bal => SumFun(kept, Sites) - SumFun(d, Sites) <= bal - qty
  BY <1>2, <1>4, <1>6, <1>7 DEF Lower, Above0
<1> QED BY <1>5, <1>8, <1>9 DEF DrawnWell

\* What a movement takes of the earmarks where it comes from.
LEMMA DrawsFit ==
    ASSUME mark \in Marks, NEW m, m.from \in Inside, m.qty \in Nat, balance[m.from] \in Int
    PROVE  LET d == Draws(m)
           IN  /\ DOMAIN d = Sites
               /\ \A s \in Sites : d[s] \in Nat /\ d[s] <= mark[s][m.from]
               /\ SumFun(d, Sites) \in Nat /\ SumFun(d, Sites) <= m.qty
               /\ Marked(mark, m.from) <= balance[m.from] /\ m.qty <= balance[m.from] =>
                     Marked(mark, m.from) - SumFun(d, Sites) <= balance[m.from] - m.qty
<1> DEFINE own == IF m.kind = "CORRECTION" THEN {} ELSE Sites \cap {m.site}
           kept == KeptAt(mark, m.from)
           mine == Drawn(own, kept, NameOrder, m.qty)
           need == Above0((m.qty - SumFun(mine, Sites)) - Free(m.from))
           theirs == Drawn(Sites \ own, kept, NameOrder, need)
           d == Draws(m)
<1>1. d = [s \in Sites |-> mine[s] + theirs[s]]
  BY Zenon DEF Draws, SumFun, KeptAt
<1>2. own \in SUBSET Sites /\ DOMAIN kept = Sites
  BY DEF KeptAt
<1>3. \A s \in Sites : kept[s] \in Nat /\ kept[s] = mark[s][m.from]
  BY MarkedIsSum
<1>4. MarkedAt(m.from) = Marked(mark, m.from) /\ Marked(mark, m.from) = SumFun(kept, Sites)
  <2>1. MapThenSumSet(LAMBDA s : mark[s][m.from], Sites) = Marked(mark, m.from)
    BY MarkedIsSum
  <2> QED BY <2>1 DEF MarkedAt, Marked
<1>5. need = Needed(kept, mine, m.qty, balance[m.from])
  <2> HIDE DEF mine, kept
  <2> QED BY <1>4 DEF Free, Needed
<1>6. mine = Drawn(own, kept, NameOrder, m.qty) /\ theirs = Drawn(Sites \ own, kept, NameOrder, need)
  OBVIOUS
<1> HIDE DEF own, kept, mine, need, theirs, d
<1>7. Takes(mine, kept, own, m.qty)
  BY <1>2, <1>3, <1>6, DrawnTakes
<1>8. need \in Nat
  <2>1. SumFun(mine, Sites) = Lower(m.qty, SumFun(kept, own))
    BY <1>2, <1>3, <1>7, TakenSum
  <2>2. SumFun(kept, own) \in Nat
    BY <1>2, <1>3, SumOfTwoParts, BoxesAreFinite
  <2>3. SumFun(kept, Sites) \in Nat
    BY <1>3, SumNonNegative, BoxesAreFinite
  <2> QED BY <1>5, <2>1, <2>2, <2>3 DEF Needed, Above0, Lower
<1>9. Takes(theirs, kept, Sites \ own, need)
  BY <1>2, <1>3, <1>6, <1>8, DrawnTakes
<1>10. \A s \in Sites : d[s] = mine[s] + theirs[s]
  BY <1>1
<1>11. /\ \A s \in Sites : d[s] \in Nat /\ d[s] <= kept[s]
       /\ SumFun(d, Sites) \in Nat /\ SumFun(d, Sites) <= m.qty
       /\ SumFun(kept, Sites) <= balance[m.from] /\ m.qty <= balance[m.from] =>
             SumFun(kept, Sites) - SumFun(d, Sites) <= balance[m.from] - m.qty
  <2>1. Whole(kept) /\ Together(d, mine, theirs)
    BY <1>3, <1>10 DEF Whole, Together
  <2>2. Takes(theirs, kept, Sites \ own, Needed(kept, mine, m.qty, balance[m.from]))
    BY <1>5, <1>9
  <2>3. DrawnWell(d, kept, m.qty, balance[m.from])
    BY <2>1, <2>2, <1>2, <1>7, TwoDraws
  <2> QED BY <2>3 DEF DrawnWell
<1> QED BY <1>1, <1>3, <1>4, <1>11 DEF d
\* Earmarks that differ at a node by what each site has more.
LEMMA MarkedMore ==
    ASSUME NEW mk \in Marks, NEW nk \in Marks, NEW n \in Inside, NEW d,
           \A s \in Sites : d[s] \in Int /\ nk[s][n] = mk[s][n] + d[s]
    PROVE  Marked(nk, n) = Marked(mk, n) + SumFun(d, Sites)
<1> DEFINE f == KeptAt(mk, n)
           h == KeptAt(nk, n)
<1>1. \A s \in Sites : f[s] \in Int /\ d[s] \in Int /\ h[s] = f[s] + d[s]
  BY DEF KeptAt, Marks
<1> HIDE DEF f, h
<1>2. SumFun(h, Sites) = SumFun(f, Sites) + SumFun(d, Sites)
  BY <1>1, BoxesAreFinite, SumPlus
<1> QED BY <1>2 DEF Marked, f, h

\* Earmarks that are the same at a node.
LEMMA MarkedSame ==
    ASSUME NEW mk \in Marks, NEW nk, NEW n \in Inside, \A s \in Sites : nk[s][n] = mk[s][n]
    PROVE  Marked(nk, n) = Marked(mk, n)
<1> DEFINE f == KeptAt(mk, n)
           h == KeptAt(nk, n)
<1>1. \A s \in Sites : f[s] \in Int /\ h[s] = f[s]
  BY DEF KeptAt, Marks
<1> HIDE DEF f, h
<1>2. SumFun(h, Sites) = SumFun(f, Sites)
  BY <1>1, BoxesAreFinite, SumSame
<1> QED BY <1>2 DEF Marked, f, h

\* Stock that leaves a node and takes of its earmarks, which go with it or are used up.
Follow(mk, d, from, to, goes) ==
    [s \in Sites |-> [n \in Inside |->
        IF n = from THEN mk[s][n] - d[s] ELSE IF n = to /\ goes THEN mk[s][n] + d[s] ELSE mk[s][n]]]

\* What follows is taken at the one node, arrives at the other, and no site has less for it.
LEMMA EarmarksFollow ==
    ASSUME NEW mk \in Marks, NEW d, NEW from \in Inside, NEW to, to # from, NEW goes \in BOOLEAN,
           \A s \in Sites : d[s] \in Nat /\ d[s] <= mk[s][from]
    PROVE  LET nk == Follow(mk, d, from, to, goes)
           IN  /\ nk \in Marks
               /\ SumFun(d, Sites) \in Nat
               /\ Marked(nk, from) = Marked(mk, from) - SumFun(d, Sites)
               /\ to \in Inside => Marked(nk, to) = Marked(mk, to) + (IF goes THEN SumFun(d, Sites) ELSE 0)
               /\ \A n \in Inside \ {from, to} : Marked(nk, n) = Marked(mk, n)
               /\ to \in Inside /\ goes => \A s \in Sites : SumFun(nk[s], Inside) = SumFun(mk[s], Inside)
<1> DEFINE nk == Follow(mk, d, from, to, goes)
<1>1. \A s \in Sites : \A n \in Inside :
         /\ mk[s][n] \in Nat /\ nk[s][n] \in Nat
         /\ nk[s][n] = IF n = from THEN mk[s][n] - d[s] ELSE IF n = to /\ goes THEN mk[s][n] + d[s] ELSE mk[s][n]
  BY DEF Follow, Marks
<1>2. nk \in Marks
  <2>1. nk = [s \in Sites |-> [n \in Inside |-> nk[s][n]]]
    BY DEF Follow
  <2> HIDE DEF nk
  <2> QED BY <1>1, <2>1 DEF Marks
<1> HIDE DEF nk
<1>3. SumFun(d, Sites) \in Nat
  BY BoxesAreFinite, SumNonNegative
<1>4. Marked(nk, from) = Marked(mk, from) - SumFun(d, Sites)
  <2>1. \A s \in Sites : d[s] \in Int /\ mk[s][from] = nk[s][from] + d[s]
    BY <1>1
  <2>2. Marked(mk, from) = Marked(nk, from) + SumFun(d, Sites)
    BY <1>2, <2>1, MarkedMore
  <2>3. Marked(nk, from) \in Nat
    BY <1>2, MarkedIsSum
  <2> QED BY <1>3, <2>2, <2>3
<1>5. ASSUME to \in Inside
      PROVE  Marked(nk, to) = Marked(mk, to) + (IF goes THEN SumFun(d, Sites) ELSE 0)
  <2>1. CASE goes
    <3>1. \A s \in Sites : d[s] \in Int /\ nk[s][to] = mk[s][to] + d[s]
      BY <1>1, <1>5, <2>1
    <3>2. Marked(nk, to) = Marked(mk, to) + SumFun(d, Sites)
      BY <1>2, <1>5, <3>1, MarkedMore
    <3> QED BY <2>1, <3>2
  <2>2. CASE ~ goes
    <3>1. \A s \in Sites : nk[s][to] = mk[s][to]
      BY <1>1, <1>5, <2>2
    <3>2. Marked(nk, to) = Marked(mk, to) /\ Marked(mk, to) \in Nat
      BY <1>5, <3>1, MarkedSame, MarkedIsSum
    <3> QED BY <2>2, <3>2
  <2> QED BY <2>1, <2>2
<1>6. ASSUME NEW n \in Inside \ {from, to} PROVE Marked(nk, n) = Marked(mk, n)
  <2>1. \A s \in Sites : nk[s][n] = mk[s][n]
    BY <1>1
  <2> QED BY <2>1, MarkedSame
<1>7. ASSUME to \in Inside, goes, NEW s \in Sites PROVE SumFun(nk[s], Inside) = SumFun(mk[s], Inside)
  <2> DEFINE f == mk[s]
             g == nk[s]
  <2>1. /\ \A n \in Inside : f[n] \in Int /\ g[n] \in Int
        /\ \A n \in Inside \ {from, to} : g[n] = f[n]
        /\ g[from] = f[from] - d[s] /\ g[to] = f[to] + d[s] /\ d[s] \in Int
    BY <1>1, <1>7
  <2>2. IsFiniteSet(Inside)
    BY ClaimsAssumption
  <2> HIDE DEF f, g
  <2>3. SumFun(g, Inside) = SumFun(f, Inside) + g[from] - f[from] + g[to] - f[to]
    BY <1>7, <2>1, <2>2, SumTwoChange
  <2>4. SumFun(f, Inside) \in Int
    BY <2>1, <2>2, SumInt
  <2>5. f[from] \in Int /\ f[to] \in Int
    BY <1>7, <2>1
  <2>6. SumFun(g, Inside) = SumFun(f, Inside)
    BY <2>1, <2>3, <2>4, <2>5
  <2> QED BY <2>6 DEF f, g
<1> QED BY <1>2, <1>3, <1>4, <1>5, <1>6, <1>7 DEF nk

\* What a movement leaves of the earmarks: as many as there were, where stock stays in the
\* yard, and no more than there is.
LEMMA MarksAfterAMovement ==
    ASSUME mark \in Marks, balance \in [Inside \cup Outside -> Int], NEW m, m.from \in Inside,
           m.to \in Inside \cup Outside, m.from # m.to, m.qty \in Nat, m.qty <= balance[m.from]
    PROVE  /\ MarksAfter(m) \in Marks
           /\ \A n \in Inside : Marked(mark, n) <= balance[n] => Marked(MarksAfter(m), n) <= Moved(balance, m)[n]
           /\ m.to \in Inside /\ m.kind # "CORRECTION" =>
                 \A s \in Sites : SumFun(MarksAfter(m)[s], Inside) = SumFun(mark[s], Inside)
<1> DEFINE d == Draws(m)
           from == m.from
           to == m.to
           goes == m.kind # "CORRECTION"
           nk == MarksAfter(m)
<1>1. /\ \A s \in Sites : d[s] \in Nat /\ d[s] <= mark[s][from]
      /\ SumFun(d, Sites) \in Nat /\ SumFun(d, Sites) <= m.qty
      /\ Marked(mark, from) <= balance[from] => Marked(mark, from) - SumFun(d, Sites) <= balance[from] - m.qty
  <2>1. balance[m.from] \in Int
    OBVIOUS
  <2> QED BY <2>1, DrawsFit
<1>2. nk = Follow(mark, d, from, to, goes)
  BY DEF MarksAfter, Follow
<1>3. from \in Inside /\ to # from /\ goes \in BOOLEAN
  OBVIOUS
<1>4. /\ Moved(balance, m)[from] = balance[from] - m.qty
      /\ Moved(balance, m)[to] = balance[to] + m.qty
      /\ \A n \in Inside \ {from, to} : Moved(balance, m)[n] = balance[n]
      /\ balance[to] \in Int
  BY DEF Moved
<1> HIDE DEF d, from, to, goes, nk
<1>5. /\ nk \in Marks
      /\ Marked(nk, from) = Marked(mark, from) - SumFun(d, Sites)
      /\ to \in Inside => Marked(nk, to) = Marked(mark, to) + (IF goes THEN SumFun(d, Sites) ELSE 0)
      /\ \A n \in Inside \ {from, to} : Marked(nk, n) = Marked(mark, n)
      /\ to \in Inside /\ goes => \A s \in Sites : SumFun(nk[s], Inside) = SumFun(mark[s], Inside)
  BY <1>1, <1>2, <1>3, EarmarksFollow
<1>6. ASSUME NEW n \in Inside, Marked(mark, n) <= balance[n]
      PROVE  Marked(nk, n) <= Moved(balance, m)[n]
  <2>0. Marked(mark, n) \in Nat
    BY MarkedIsSum
  <2>1. CASE n = from
    BY <1>1, <1>4, <1>5, <1>6, <2>1
  <2>2. CASE n = to
    BY <1>1, <1>4, <1>5, <1>6, <2>0, <2>2
  <2>3. CASE n \notin {from, to}
    BY <1>4, <1>5, <1>6, <2>3
  <2> QED BY <2>1, <2>2, <2>3
<1> QED BY <1>5, <1>6 DEF nk, to, goes

-----------------------------------------------------------------------------
(* What every step has to leave.                                           *)

\* The parts of the invariant, said of rows.
LEMMA InvHolds ==
    ASSUME ClaimsInv
    PROVE  /\ box \in [Boxes -> BoxRow] /\ unit \in [Units -> UnitRow] /\ mark \in Marks
           /\ balance \in [Inside \cup Outside -> Int]
           /\ gatein \in [GateIns -> {"DRAFT", "POSTED", "VOID"}] /\ DOMAIN req = Workers
           /\ Inventory(box, unit)
           /\ \A n \in Inside : ClaimedAt(box, n) <= balance[n]
           /\ stale \/ \A n \in Inside : Marked(mark, n) <= balance[n]
<1>1. RowsAreRows /\ ContentsAreWithTheirBox /\ BoxClaimsAreBacked /\ EarmarksBackedUnlessStale
  BY DEF ClaimsInv
<1>2. /\ box \in [Boxes -> BoxRow] /\ unit \in [Units -> UnitRow] /\ mark \in Marks
      /\ balance \in [Inside \cup Outside -> Int]
      /\ gatein \in [GateIns -> {"DRAFT", "POSTED", "VOID"}] /\ DOMAIN req = Workers
  BY <1>1 DEF RowsAreRows, Marks
<1>3. Inventory(box, unit)
  BY <1>1, ContentsAreAnInventory
<1>4. \A n \in Inside : MarkedAt(n) = Marked(mark, n)
  BY <1>2, MarkedIsSum DEF MarkedAt
<1>5. stale \/ \A n \in Inside : Marked(mark, n) <= balance[n]
  BY <1>1, <1>4 DEF EarmarksBackedUnlessStale
<1>6. \A n \in Inside : ClaimedAt(box, n) <= balance[n]
  BY <1>1 DEF BoxClaimsAreBacked
<1> QED BY <1>2, <1>3, <1>5, <1>6

\* Earmarks are backed, said of rows.
EarmarksAreBacked == stale \/ \A n \in Inside : Marked(mark, n) <= balance[n]

\* Said of rows or of the model, it is the same.
LEMMA EarmarksReadTheSame == RowsAreRows /\ EarmarksAreBacked => EarmarksBackedUnlessStale
<1> SUFFICES ASSUME RowsAreRows, EarmarksAreBacked PROVE EarmarksBackedUnlessStale
  OBVIOUS
<1>1. mark \in Marks
  BY DEF RowsAreRows, Marks
<1>2. \A n \in Inside : MarkedAt(n) = Marked(mark, n)
  BY <1>1, MarkedIsSum DEF MarkedAt
<1> QED BY <1>2 DEF EarmarksBackedUnlessStale, EarmarksAreBacked

\* And the other way round, of the state after a step.
LEMMA InvAgain ==
    ASSUME RowsAreRows', BoxesAsReceived', RequestsSound', Inventory(box', unit'),
           \A n \in Inside : ClaimedAt(box', n) <= balance'[n],
           stale' \/ \A n \in Inside : Marked(mark', n) <= balance'[n]
    PROVE  ClaimsInv'
<1>1. ContentsAreWithTheirBox'
  BY ContentsAreAnInventory
<1>2. BoxClaimsAreBacked'
  BY DEF BoxClaimsAreBacked
<1>3. EarmarksAreBacked'
  BY DEF EarmarksAreBacked
<1>4. (RowsAreRows /\ EarmarksAreBacked => EarmarksBackedUnlessStale)'
  BY EarmarksReadTheSame, PTL
<1> QED BY <1>1, <1>2, <1>3, <1>4 DEF ClaimsInv

\* Boxes that stay where they are received, or come out of their boxes, and never open again.
BoxesStay(bx, by) ==
    \A b \in Boxes :
       /\ by[b].status = "NONE" <=> bx[b].status = "NONE"
       /\ by[b].status = "OPEN" => bx[b].status = "OPEN"
       /\ by[b].parent \in {None, bx[b].parent}
       /\ bx[b].status # "NONE" => by[b].node \in Inside

\* No gate-in is posted in the step.
SameGateIns == \A g \in GateIns : gatein'[g] = "DRAFT" <=> gatein[g] = "DRAFT"

\* Boxes that only close and come out of each other are still as received.
LEMMA StillAsReceived ==
    ASSUME BoxesAsReceived, BoxesStay(box, box'), SameGateIns
    PROVE  BoxesAsReceived'
<1>1. ASSUME NEW b \in Boxes, box'[b].status # "NONE"
      PROVE  /\ box'[b].node \in Inside
             /\ \E g \in GateIns :
                   /\ gatein'[g] # "DRAFT" /\ b \in DOMAIN Delivery[g].boxes
                   /\ box'[b].parent \in {None, Delivery[g].boxes[b].parent}
  <2>1. box[b].status # "NONE" /\ box'[b].node \in Inside /\ box'[b].parent \in {None, box[b].parent}
    BY <1>1 DEF BoxesStay
  <2>2. PICK g \in GateIns : /\ gatein[g] # "DRAFT" /\ b \in DOMAIN Delivery[g].boxes
                             /\ box[b].parent \in {None, Delivery[g].boxes[b].parent}
    BY <2>1 DEF BoxesAsReceived
  <2> QED BY <2>1, <2>2 DEF SameGateIns
<1>2. ASSUME NEW g \in GateIns, gatein'[g] # "DRAFT", NEW b \in DOMAIN Delivery[g].boxes
      PROVE  box'[b].status # "NONE"
  <2>1. b \in Boxes
    BY ClaimsAssumption
  <2> QED BY <1>2, <2>1 DEF BoxesAsReceived, BoxesStay, SameGateIns
<1> QED BY <1>1, <1>2 DEF BoxesAsReceived

\* What is open in a box then was already.
LEMMA TreesShrink ==
    ASSUME NEW bx \in [Boxes -> BoxRow], NEW by, BoxesStay(bx, by), NEW b \in Boxes
    PROVE  OpenTree(by, b) \subseteq OpenTree(bx, b)
<1>1. Nested(bx)
  BY BoxFields DEF Nested
<1>2. \A c \in Boxes : by[c].parent \in {None, bx[c].parent}
  BY DEF BoxesStay
<1>3. \A c \in Boxes : Chain(by, c) \subseteq Chain(bx, c)
  BY <1>1, <1>2, ChainShortens
<1> QED BY <1>3 DEF OpenTree, BoxesStay

\* A request goes on, perhaps without the row of its earmark, or ends.
GoesOn(new, old) ==
    \/ new = NoRequest \/ new = old
    \/ old # NoRequest /\ old.op = "VOID" /\ new = [old EXCEPT !.row = FALSE]

\* Deleting earmark rows only takes the row of a void under way.
LEMMA RowsGoneGoOn == ASSUME NEW mk, NEW p \in Workers PROVE GoesOn(RowsGone(mk)[p], req[p])
BY DEF RowsGone, GoesOn

\* A request stays sound while no box is made or put into another.
LEMMA RequestsStaySound ==
    ASSUME RequestsSound, box \in [Boxes -> BoxRow], BoxesStay(box, box'), SameGateIns,
           \A p \in Workers : GoesOn(req'[p], req[p])
    PROVE  RequestsSound'
<1> SUFFICES ASSUME NEW p \in Workers, req'[p] # NoRequest
             PROVE  MoveSound(req[p])' \/ VoidSound(req[p])'
  BY DEF RequestsSound
<1>1. GoesOn(req'[p], req[p]) /\ (req[p] = NoRequest \/ MoveSound(req[p]) \/ VoidSound(req[p]))
  BY DEF RequestsSound
<1>2. CASE req'[p] = req[p] /\ MoveSound(req[p])
  <2> DEFINE r == req[p]
  <2>1. /\ r \in [op : {"MOVE"}, box : Boxes, from : Inside, to : Inside, tree : SUBSET Boxes]
        /\ box[r.box].status # "NONE" /\ r.from # r.to /\ OpenTree(box, r.box) \subseteq r.tree
    BY <1>2 DEF MoveSound
  <2>2. OpenTree(box', r.box) \subseteq OpenTree(box, r.box) /\ box'[r.box].status # "NONE"
    <3>1. r.box \in Boxes
      BY <2>1
    <3> HIDE DEF r
    <3> QED BY <2>1, <3>1, TreesShrink DEF BoxesStay
  <2>3. MoveSound(req[p])'
    BY <1>2, <2>1, <2>2 DEF MoveSound
  <2> QED BY <2>3
<1>3. CASE req'[p] = req[p] /\ VoidSound(req[p])
  <2>1. VoidSound(req[p])'
    BY <1>3 DEF VoidSound, SameGateIns
  <2> QED BY <2>1
<1>4. CASE req'[p] # req[p]
  <2>1. /\ req[p].op = "VOID" /\ req'[p] = [req[p] EXCEPT !.row = FALSE] /\ VoidSound(req[p])
    BY <1>1, <1>4 DEF GoesOn, MoveSound
  <2> DEFINE r == req[p]
             q == [r EXCEPT !.row = FALSE]
  <2>2. /\ r \in [op : {"VOID"}, gatein : GateIns, at : Inside, site : Sites \cup {None}, seen : Nat,
                  units : SUBSET Units, row : BOOLEAN]
        /\ gatein[r.gatein] # "DRAFT"
        /\ r.at = Delivery[r.gatein].at /\ r.site \in {None, Delivery[r.gatein].site}
    BY <2>1 DEF VoidSound
  <2> HIDE DEF r
  <2>3. /\ q \in [op : {"VOID"}, gatein : GateIns, at : Inside, site : Sites \cup {None}, seen : Nat,
                  units : SUBSET Units, row : BOOLEAN]
        /\ q.gatein = r.gatein /\ q.at = r.at /\ q.site = r.site
    BY <2>2
  <2>4. req'[p] = q
    BY <2>1 DEF r
  <2> HIDE DEF q
  <2>5. VoidSound(req[p])'
    BY <2>2, <2>3, <2>4 DEF VoidSound, SameGateIns
  <2> QED BY <2>5
<1> QED BY <1>1, <1>2, <1>3, <1>4

\* Everything a step leaves that makes no boxes.
LEMMA StepLeaves ==
    ASSUME ClaimsInv,
           box' \in [Boxes -> BoxRow], unit' \in [Units -> UnitRow], mark' \in Marks,
           balance' \in [Inside \cup Outside -> Int],
           gatein' \in [GateIns -> {"DRAFT", "POSTED", "VOID"}], DOMAIN req' = Workers,
           BoxesStay(box, box'), SameGateIns,
           \A p \in Workers : GoesOn(req'[p], req[p]),
           Inventory(box', unit'),
           \A n \in Inside : ClaimedAt(box', n) <= balance'[n],
           stale' \/ \A n \in Inside : Marked(mark', n) <= balance'[n]
    PROVE  ClaimsInv'
<1>1. RowsAreRows'
  BY DEF RowsAreRows, Marks
<1>2. BoxesAsReceived /\ RequestsSound /\ box \in [Boxes -> BoxRow]
  BY DEF ClaimsInv, RowsAreRows
<1>3. BoxesAsReceived'
  BY <1>2, StillAsReceived
<1>4. RequestsSound'
  BY <1>2, RequestsStaySound
<1> QED BY <1>1, <1>3, <1>4, InvAgain

-----------------------------------------------------------------------------
(* One lemma for each action.                                              *)

\* What a movement is.
LEMMA MovementFields ==
    ASSUME NEW m \in Movements
    PROVE  /\ m.from \in Inside \cup Outside /\ m.to \in Inside \cup Outside
           /\ m.qty \in Nat /\ m.qty > 0 /\ m.box \in Boxes \cup {None} /\ m.site \in Sites \cup {None}
           /\ m.kind \in {"ISSUE", "TRANSFER", "CORRECTION"}
           /\ m.kind = "ISSUE" => m.from \in Inside /\ m.to \in Outside
           /\ m.kind = "TRANSFER" => m.to \in Inside /\ m.box = None
           /\ m.kind = "CORRECTION" => m.from \in Inside /\ m.to = External /\ m.box = None
<1>1. External \in Outside /\ \A q \in Quantities : q \in Nat /\ q > 0
  BY ClaimsAssumption
<1> QED BY <1>1 DEF Movements

\* What it does to the balances.
LEMMA WhatMoves ==
    ASSUME balance \in [Inside \cup Outside -> Int], NEW m, m.from \in Inside \cup Outside,
           m.to \in Inside \cup Outside, m.from # m.to, m.qty \in Nat
    PROVE  /\ Moved(balance, m) \in [Inside \cup Outside -> Int]
           /\ Moved(balance, m)[m.from] = balance[m.from] - m.qty
           /\ Moved(balance, m)[m.to] = balance[m.to] + m.qty
           /\ \A n \in Inside \cup Outside : n \notin {m.from, m.to} => Moved(balance, m)[n] = balance[n]
BY DEF Moved

\* Boxes that were made are in the yard.
LEMMA BoxesAreInside ==
    ASSUME BoxesAsReceived PROVE \A b \in Boxes : box[b].status # "NONE" => box[b].node \in Inside
BY DEF BoxesAsReceived

\* Stock that moves, out of a box or past them, keeps the invariant.
LEMMA MoveKeeps == ASSUME ClaimsInv, NEW m \in Movements, Move(m) PROVE ClaimsInv'
<1>1. /\ box \in [Boxes -> BoxRow] /\ unit \in [Units -> UnitRow] /\ mark \in Marks
      /\ balance \in [Inside \cup Outside -> Int]
      /\ gatein \in [GateIns -> {"DRAFT", "POSTED", "VOID"}] /\ DOMAIN req = Workers
      /\ Inventory(box, unit)
      /\ \A n \in Inside : ClaimedAt(box, n) <= balance[n]
      /\ stale \/ \A n \in Inside : Marked(mark, n) <= balance[n]
  BY InvHolds
<1>2. /\ m.from # m.to /\ balance[m.from] >= m.qty
      /\ m.from \in Inside => BoxesAllow(m)
      /\ box' = IF m.from \in Inside THEN BoxesAfter(box, m) ELSE box
      /\ mark' = IF m.from \in Inside THEN MarksAfter(m) ELSE mark
      /\ balance' = Moved(balance, m) /\ req' = RowsGone(mark')
      /\ unit' = unit /\ gatein' = gatein /\ stale' = stale
  BY Zenon DEF Move
<1>3. /\ m.from \in Inside \cup Outside /\ m.to \in Inside \cup Outside /\ m.qty \in Nat
      /\ m.box \in Boxes \cup {None}
  BY MovementFields
<1>4. /\ balance' \in [Inside \cup Outside -> Int]
      /\ balance'[m.from] = balance[m.from] - m.qty
      /\ balance'[m.to] = balance[m.to] + m.qty
      /\ \A n \in Inside \cup Outside : n \notin {m.from, m.to} => balance'[n] = balance[n]
  BY <1>1, <1>2, <1>3, WhatMoves
<1>5. /\ SameGateIns /\ gatein' \in [GateIns -> {"DRAFT", "POSTED", "VOID"}]
      /\ unit' \in [Units -> UnitRow] /\ DOMAIN req' = Workers
      /\ \A p \in Workers : GoesOn(req'[p], req[p])
  <2>1. \A p \in Workers : GoesOn(req'[p], req[p])
    BY <1>2, RowsGoneGoOn
  <2>2. DOMAIN req' = Workers
    BY <1>2 DEF RowsGone
  <2> QED BY <1>1, <1>2, <2>1, <2>2 DEF SameGateIns
<1>6. \A b \in Boxes : box[b].status # "NONE" => box[b].node \in Inside
  BY BoxesAreInside DEF ClaimsInv
<1>7. CASE m.from \in Inside
  <2>1. Covered(box, m)
    BY <1>2, <1>3, <1>7 DEF BoxesAllow, Covered, Loose, OpenAt
  <2>2. balance[m.from] \in Int /\ ClaimedAt(box, m.from) <= balance[m.from] /\ m.qty <= balance[m.from]
    BY <1>1, <1>2, <1>3, <1>7
  <2>3. /\ box' \in [Boxes -> BoxRow]
        /\ \A b \in Boxes :
              /\ box'[b].status = box[b].status \/ (box[b].status = "OPEN" /\ box'[b].status = "CLOSED")
              /\ box'[b].node = box[b].node /\ box'[b].parent = box[b].parent
        /\ Inventory(box', unit)
        /\ ClaimedAt(box', m.from) <= balance[m.from] - m.qty
        /\ \A n : n # m.from => ClaimedAt(box', n) = ClaimedAt(box, n)
    <3>1. box' = BoxesAfter(box, m)
      BY <1>2, <1>7
    <3>2. \A u \in Units : unit[u].box \in {None, unit[u].box}
      OBVIOUS
    <3> QED BY <1>1, <1>3, <2>1, <2>2, <3>1, <3>2, BoxesAfterAMovement
  <2>4. BoxesStay(box, box')
    BY <1>6, <2>3 DEF BoxesStay
  <2>5. \A n \in Inside : ClaimedAt(box', n) <= balance'[n]
    <3> TAKE n \in Inside
    <3>1. ClaimedAt(box, n) <= balance[n] /\ balance[n] \in Int /\ ClaimedAt(box, n) \in Nat
      BY <1>1, ClaimedIsSum
    <3>2. CASE n = m.from
      BY <1>4, <2>3, <3>2
    <3>3. CASE n # m.from
      BY <1>3, <1>4, <2>3, <3>1, <3>3
    <3> QED BY <3>2, <3>3
  <2>6. mark' \in Marks /\ \A n \in Inside : Marked(mark, n) <= balance[n] => Marked(mark', n) <= balance'[n]
    <3>1. mark' = MarksAfter(m) /\ balance' = Moved(balance, m)
      BY <1>2, <1>7
    <3> QED BY <1>1, <1>2, <1>3, <1>7, <2>2, <3>1, MarksAfterAMovement
  <2> QED BY <1>1, <1>2, <1>4, <1>5, <2>3, <2>4, <2>5, <2>6, StepLeaves
<1>8. CASE m.from \notin Inside
  <2>1. box' = box /\ mark' = mark
    BY <1>2, <1>8
  <2>2. BoxesStay(box, box')
    BY <1>6, <2>1 DEF BoxesStay
  <2>3. \A n \in Inside : balance[n] \in Int /\ balance'[n] \in Int /\ balance[n] <= balance'[n]
    <3> TAKE n \in Inside
    <3>1. n # m.from
      BY <1>8
    <3> QED BY <1>1, <1>3, <1>4, <3>1
  <2>4. \A n \in Inside : ClaimedAt(box', n) <= balance'[n]
    BY <1>1, <2>1, <2>3, ClaimedIsSum
  <2>5. stale' \/ \A n \in Inside : Marked(mark', n) <= balance'[n]
    <3>1. \A n \in Inside : Marked(mark, n) <= balance[n] => Marked(mark', n) <= balance'[n]
      <4> TAKE n \in Inside
      <4>1. Marked(mark, n) \in Nat
        BY <1>1, MarkedIsSum
      <4> QED BY <2>1, <2>3, <4>1
    <3> QED BY <1>1, <1>2, <3>1
  <2> QED BY <1>1, <1>2, <1>4, <1>5, <2>1, <2>2, <2>4, <2>5, StepLeaves
<1> QED BY <1>7, <1>8

\* Units that come out of their boxes leave an inventory.
LEMMA UnitsOutKeepInventory ==
    ASSUME NEW bx, NEW un, NEW uo, Inventory(bx, un),
           \A u \in Units : uo[u].box = None \/ (uo[u].box = un[u].box /\ uo[u].node = un[u].node)
    PROVE  Inventory(bx, uo)
<1>1. None \notin Boxes
  BY ClaimsAssumption
<1>2. \A b \in Boxes : bx[b].status = "CLOSED" => IsEmpty(bx, uo, b)
  BY <1>1 DEF Inventory, IsEmpty
<1>3. \A u \in Units : uo[u].box # None =>
         bx[uo[u].box].status = "OPEN" /\ bx[uo[u].box].node = uo[u].node
  BY DEF Inventory
<1> QED BY <1>2, <1>3 DEF Inventory

\* Boxes that each claim no more, where they are, claim no more.
LEMMA ClaimsShrink ==
    ASSUME NEW bx \in [Boxes -> BoxRow], NEW by \in [Boxes -> BoxRow], NEW n,
           \A b \in Boxes : ClaimThere(by, n)[b] <= ClaimThere(bx, n)[b]
    PROVE  ClaimedAt(by, n) <= ClaimedAt(bx, n)
<1> DEFINE f == ClaimThere(by, n)
           h == ClaimThere(bx, n)
<1>1. /\ ClaimedAt(bx, n) = SumFun(h, Boxes) /\ ClaimedAt(by, n) = SumFun(f, Boxes)
      /\ \A b \in Boxes : f[b] \in Int /\ h[b] \in Int /\ f[b] <= h[b]
  BY ClaimedIsSum
<1> HIDE DEF f, h
<1>2. SumFun(f, Boxes) <= SumFun(h, Boxes)
  BY <1>1, BoxesAreFinite, SumMonotonic
<1> QED BY <1>1, <1>2

\* Closing what is empty, after a step that keeps the rest.
LEMMA ClosingAfter ==
    ASSUME ClaimsInv, NEW bx \in [Boxes -> BoxRow], BoxesStay(box, bx), NEW un, NEW from,
           Inventory(bx, un), \A u \in Units : un[u].box \in Boxes \cup {None},
           \A n \in Inside : ClaimedAt(bx, n) <= balance[n]
    PROVE  LET by == CloseIfEmpty(bx, un, from)
           IN  /\ by \in [Boxes -> BoxRow] /\ BoxesStay(box, by) /\ Inventory(by, un)
               /\ \A n \in Inside : ClaimedAt(by, n) <= balance[n]
<1> DEFINE by == CloseIfEmpty(bx, un, from)
<1>1. /\ by \in [Boxes -> BoxRow]
      /\ \A b \in Boxes :
            /\ by[b].node = bx[b].node /\ by[b].parent = bx[b].parent
            /\ by[b].status = IF b \in Emptied(bx, un, from) THEN "CLOSED" ELSE bx[b].status
  BY WhatClosingDoes
<1>2. \A b \in Emptied(bx, un, from) : bx[b].status = "OPEN"
  BY WhatIsEmptied
<1>3. Inventory(by, un)
  BY ClosingKeepsInventory
<1>4. \A n : ClaimedAt(by, n) = ClaimedAt(bx, n)
  BY ClosingClaims
<1> HIDE DEF by
<1>5. BoxesStay(box, by)
  BY <1>1, <1>2 DEF BoxesStay
<1> QED BY <1>1, <1>3, <1>4, <1>5 DEF by

\* Boxes that are as they were.
LEMMA BoxesAsTheyWere == ASSUME ClaimsInv PROVE BoxesStay(box, box)
BY BoxesAreInside DEF BoxesStay, ClaimsInv

\* So does a unit that moves, which comes out of its box.
LEMMA MoveUnitKeeps ==
    ASSUME ClaimsInv, NEW u \in Units, NEW n \in (Inside \cup Outside) \ {External}, NEW s \in Sites \cup {None},
           NEW r \in BOOLEAN, MoveUnit(u, n, s, r)
    PROVE  ClaimsInv'
<1>1. /\ box \in [Boxes -> BoxRow] /\ unit \in [Units -> UnitRow] /\ mark \in Marks
      /\ balance \in [Inside \cup Outside -> Int]
      /\ gatein \in [GateIns -> {"DRAFT", "POSTED", "VOID"}] /\ DOMAIN req = Workers
      /\ Inventory(box, unit)
      /\ \A k \in Inside : ClaimedAt(box, k) <= balance[k]
      /\ stale \/ \A k \in Inside : Marked(mark, k) <= balance[k]
  BY InvHolds
<1>2. PICK site \in Sites \cup {None} :
         /\ unit' = [unit EXCEPT ![u] = UnitTo(u, n, None, site)]
         /\ box' = CloseIfEmpty(box, unit', {unit[u].box})
         /\ balance' = balance /\ mark' = mark /\ gatein' = gatein /\ req' = req /\ stale' = stale
  <2> DEFINE new == IF unit[u].node \in Inside /\ n \notin Inside THEN None ELSE unit[u].site
  <2>1. new \in Sites \cup {None}
    BY <1>1, UnitFields
  <2>2. /\ unit' = [unit EXCEPT ![u] = UnitTo(u, n, None, new)]
        /\ box' = CloseIfEmpty(box, unit', {unit[u].box})
        /\ balance' = balance /\ mark' = mark /\ gatein' = gatein /\ req' = req /\ stale' = stale
    BY Zenon DEF MoveUnit
  <2> HIDE DEF new
  <2> QED BY <2>1, <2>2
<1>3. UnitTo(u, n, None, site) = [node |-> n, box |-> None, site |-> site]
  BY DEF UnitTo, Carried
<1>4. /\ unit' \in [Units -> UnitRow]
      /\ \A v \in Units : unit'[v].box = None \/ unit'[v] = unit[v]
  <2>1. [node |-> n, box |-> None, site |-> site] \in UnitRow
    BY DEF UnitRow
  <2> QED BY <1>1, <1>2, <1>3, <2>1
<1>5. Inventory(box, unit')
  BY <1>1, <1>4, UnitsOutKeepInventory
<1>6. /\ box' \in [Boxes -> BoxRow] /\ BoxesStay(box, box') /\ Inventory(box', unit')
      /\ \A k \in Inside : ClaimedAt(box', k) <= balance[k]
  <2>1. \A v \in Units : unit'[v].box \in Boxes \cup {None}
    BY <1>4, UnitFields
  <2>2. BoxesStay(box, box)
    BY BoxesAsTheyWere
  <2> QED BY <1>1, <1>2, <1>5, <2>1, <2>2, ClosingAfter
<1>7. SameGateIns /\ \A p \in Workers : GoesOn(req'[p], req[p])
  BY <1>2 DEF SameGateIns, GoesOn
<1> QED BY <1>1, <1>2, <1>4, <1>6, <1>7, StepLeaves

\* So does a unit that is kept for another site.
LEMMA ChangeUnitEarmarkKeeps ==
    ASSUME ClaimsInv, NEW u \in Units, NEW to \in Sites \cup {None}, ChangeUnitEarmark(u, to)
    PROVE  ClaimsInv'
<1>1. /\ box \in [Boxes -> BoxRow] /\ unit \in [Units -> UnitRow] /\ mark \in Marks
      /\ balance \in [Inside \cup Outside -> Int]
      /\ gatein \in [GateIns -> {"DRAFT", "POSTED", "VOID"}] /\ DOMAIN req = Workers
      /\ Inventory(box, unit)
      /\ \A k \in Inside : ClaimedAt(box, k) <= balance[k]
      /\ stale \/ \A k \in Inside : Marked(mark, k) <= balance[k]
  BY InvHolds
<1>2. /\ unit' = [unit EXCEPT ![u].site = to] /\ box' = box
      /\ balance' = balance /\ mark' = mark /\ gatein' = gatein /\ req' = req /\ stale' = stale
  BY DEF ChangeUnitEarmark
<1>3. /\ unit' \in [Units -> UnitRow]
      /\ \A v \in Units : unit'[v].box = unit[v].box /\ unit'[v].node = unit[v].node
  <2>1. unit[u] \in UnitRow
    BY <1>1
  <2>2. [unit[u] EXCEPT !.site = to] \in UnitRow
    BY <2>1 DEF UnitRow
  <2>3. [unit[u] EXCEPT !.site = to].box = unit[u].box /\ [unit[u] EXCEPT !.site = to].node = unit[u].node
    BY <2>1 DEF UnitRow
  <2> QED BY <1>1, <1>2, <2>2, <2>3
<1>4. Inventory(box', unit')
  BY <1>1, <1>2, <1>3, UnitsOutKeepInventory
<1>5. SameGateIns /\ \A p \in Workers : GoesOn(req'[p], req[p])
  BY <1>2 DEF SameGateIns, GoesOn
<1>6. BoxesStay(box, box')
  BY <1>2, BoxesAsTheyWere
<1> QED BY <1>1, <1>2, <1>3, <1>4, <1>5, <1>6, StepLeaves

\* A step that only takes in, or ends, the request of a worker.
LEMMA OnlyARequest ==
    ASSUME ClaimsInv, NEW p \in Workers, NEW r, r = NoRequest \/ MoveSound(r) \/ VoidSound(r),
           req' = [req EXCEPT ![p] = r],
           box' = box, unit' = unit, balance' = balance, mark' = mark, gatein' = gatein, stale' = stale
    PROVE  ClaimsInv'
<1>1. /\ RowsAreRows /\ BoxesAsReceived /\ RequestsSound
      /\ ContentsAreWithTheirBox /\ BoxClaimsAreBacked
      /\ DOMAIN req = Workers /\ Inventory(box, unit)
      /\ \A n \in Inside : ClaimedAt(box, n) <= balance[n]
      /\ stale \/ \A n \in Inside : Marked(mark, n) <= balance[n]
  BY InvHolds DEF ClaimsInv
<1>2. RowsAreRows'
  BY <1>1 DEF RowsAreRows
<1>3. BoxesAsReceived'
  BY <1>1 DEF BoxesAsReceived
<1>4. RequestsSound'
  <2>1. ASSUME NEW q \in Workers PROVE (req[q] = NoRequest \/ MoveSound(req[q]) \/ VoidSound(req[q]))'
    <3>1. req'[q] = r \/ req'[q] = req[q]
      BY <1>1
    <3>2. req'[q] = NoRequest \/ MoveSound(req'[q]) \/ VoidSound(req'[q])
      BY <1>1, <3>1 DEF RequestsSound
    <3> QED BY <3>2 DEF MoveSound, VoidSound
  <2> QED BY <2>1 DEF RequestsSound
<1> QED BY <1>1, <1>2, <1>3, <1>4, InvAgain

\* Reading the open boxes of a tree makes a sound request.
LEMMA BeginMoveKeeps ==
    ASSUME ClaimsInv, NEW p \in Workers, NEW b \in Boxes, NEW n \in Inside, BeginMove(p, b, n)
    PROVE  ClaimsInv'
<1> DEFINE r == [op |-> "MOVE", box |-> b, from |-> box[b].node, to |-> n, tree |-> OpenTree(box, b)]
<1>1. /\ box[b].status # "NONE" /\ box[b].node # n /\ req' = [req EXCEPT ![p] = r]
      /\ box' = box /\ unit' = unit /\ balance' = balance /\ mark' = mark /\ gatein' = gatein /\ stale' = stale
  BY DEF BeginMove
<1>2. box[b].node \in Inside
  BY <1>1, BoxesAreInside DEF ClaimsInv
<1>3. OpenTree(box, b) \subseteq Boxes
  BY DEF OpenTree
<1>4. MoveSound(r)
  BY <1>1, <1>2, <1>3 DEF MoveSound
<1> HIDE DEF r
<1> QED BY <1>1, <1>4, OnlyARequest

\* So does reading what a void will take back.
LEMMA BeginVoidKeeps ==
    ASSUME ClaimsInv, NEW p \in Workers, NEW g \in GateIns, BeginVoid(p, g)
    PROVE  ClaimsInv'
<1> DEFINE d == Delivery[g]
           r == [op |-> "VOID", gatein |-> g, at |-> d.at,
                 site |-> IF d.site # None /\ mark[d.site][d.at] > 0 THEN d.site ELSE None,
                 seen |-> IF d.site # None THEN mark[d.site][d.at] ELSE 0,
                 units |-> {u \in DOMAIN d.units : d.site # None /\ unit[u].site = d.site},
                 row |-> TRUE]
<1>1. /\ gatein[g] = "POSTED" /\ req' = [req EXCEPT ![p] = r]
      /\ box' = box /\ unit' = unit /\ balance' = balance /\ mark' = mark /\ gatein' = gatein /\ stale' = stale
  BY Zenon DEF BeginVoid
<1>2. d.at \in Inside /\ d.site \in Sites \cup {None} /\ DOMAIN d.units \subseteq Units
  BY ClaimsAssumption
<1>3. mark \in [Sites -> [Inside -> Nat]]
  BY DEF ClaimsInv, RowsAreRows
<1> HIDE DEF d
<1>4. VoidSound(r)
  <2>1. r.seen \in Nat /\ r.site \in {None, d.site} /\ r.units \subseteq Units
    BY <1>2, <1>3
  <2>2. r.site \in Sites \cup {None}
    BY <1>2, <2>1
  <2>3. r \in [op : {"VOID"}, gatein : GateIns, at : Inside, site : Sites \cup {None}, seen : Nat,
               units : SUBSET Units, row : BOOLEAN]
    BY <1>2, <2>1, <2>2
  <2>4. r.gatein = g /\ r.at = d.at
    OBVIOUS
  <2> HIDE DEF r
  <2> QED BY <1>1, <2>1, <2>3, <2>4 DEF VoidSound, d
<1> HIDE DEF r
<1> QED BY <1>1, <1>4, OnlyARequest

\* A request may be given up.
LEMMA AbortKeeps == ASSUME ClaimsInv, NEW p \in Workers, Abort(p) PROVE ClaimsInv'
BY OnlyARequest DEF Abort

\* What is kept for a site goes to another: no more is kept at a node than is free.
LEMMA ChangeEarmarkKeeps ==
    ASSUME ClaimsInv, NEW n \in Inside, NEW f \in Sites \cup {None}, NEW t \in Sites \cup {None},
           NEW qty \in Quantities, ChangeEarmark(n, f, t, qty)
    PROVE  ClaimsInv'
<1>1. /\ box \in [Boxes -> BoxRow] /\ unit \in [Units -> UnitRow] /\ mark \in Marks
      /\ balance \in [Inside \cup Outside -> Int]
      /\ gatein \in [GateIns -> {"DRAFT", "POSTED", "VOID"}] /\ DOMAIN req = Workers
      /\ Inventory(box, unit)
      /\ \A k \in Inside : ClaimedAt(box, k) <= balance[k]
      /\ stale \/ \A k \in Inside : Marked(mark, k) <= balance[k]
  BY InvHolds
<1>2. qty \in Nat /\ qty > 0 /\ None \notin Sites
  BY ClaimsAssumption
<1>3. /\ f # t
      /\ IF f = None THEN qty <= Free(n) ELSE qty <= mark[f][n]
      /\ mark' = [s \in Sites |->
            [mark[s] EXCEPT ![n] = mark[s][n] + (IF s = t THEN qty ELSE 0) - (IF s = f THEN qty ELSE 0)]]
      /\ req' = RowsGone(mark')
      /\ box' = box /\ unit' = unit /\ balance' = balance /\ gatein' = gatein /\ stale' = stale
  BY Zenon DEF ChangeEarmark
<1> DEFINE z == [s \in Sites |-> 0]
           d == [s \in Sites |-> (IF s = t THEN qty ELSE 0) - (IF s = f THEN qty ELSE 0)]
<1>4. \A s \in Sites : \A k \in Inside :
         /\ mark[s][k] \in Nat
         /\ mark'[s][k] = IF k = n THEN mark[s][k] + d[s] ELSE mark[s][k]
  BY <1>1, <1>2, <1>3 DEF Marks
<1>5. \A s \in Sites : d[s] \in Int /\ (f = s => d[s] = 0 - qty) /\ (s = t => d[s] = qty) /\ (s \notin {f, t} => d[s] = 0)
  BY <1>2, <1>3
<1>6. f \in Sites => qty <= mark[f][n]
  BY <1>2, <1>3
<1> HIDE DEF d
<1>7. mark' \in Marks
  <2>1. \A s \in Sites : \A k \in Inside : mark'[s][k] \in Nat
    <3> TAKE s \in Sites
    <3> TAKE k \in Inside
    <3>1. CASE s = f
      BY <1>2, <1>4, <1>5, <1>6, <3>1
    <3>2. CASE s # f
      BY <1>2, <1>4, <1>5, <3>2
    <3> QED BY <3>1, <3>2
  <2>2. \A s \in Sites : DOMAIN mark'[s] = Inside /\ mark'[s] = [k \in Inside |-> mark'[s][k]]
    BY <1>1, <1>3 DEF Marks
  <2>3. \A s \in Sites : mark'[s] \in [Inside -> Nat]
    BY <2>1, <2>2
  <2>4. mark' = [s \in Sites |-> mark'[s]]
    BY <1>3
  <2> QED BY <2>3, <2>4 DEF Marks
<1>8. SumFun(d, Sites) = (IF t \in Sites THEN qty ELSE 0) - (IF f \in Sites THEN qty ELSE 0)
  <2>1. SumFun(z, Sites) = 0 /\ \A s \in Sites : z[s] = 0
    BY BoxesAreFinite, SumZero
  <2> HIDE DEF z
  <2>2. CASE t \in Sites /\ f \in Sites
    <3>1. SumFun(d, Sites) = SumFun(z, Sites) + d[t] - z[t] + d[f] - z[f]
      <4>1. \A s \in Sites : z[s] \in Int /\ d[s] \in Int
        BY <1>5, <2>1
      <4>2. \A s \in Sites \ {t, f} : d[s] = z[s]
        BY <1>5, <2>1
      <4> QED BY <1>3, <2>2, <4>1, <4>2, BoxesAreFinite, SumTwoChange
    <3> QED BY <1>2, <1>5, <2>1, <2>2, <3>1
  <2>3. CASE t \in Sites /\ f \notin Sites
    <3>1. SumFun(d, Sites) = SumFun(z, Sites) + d[t] - z[t]
      <4>1. \A s \in Sites : z[s] \in Int /\ d[s] \in Int
        BY <1>5, <2>1
      <4>2. \A s \in Sites \ {t} : d[s] = z[s]
        BY <1>5, <2>1, <2>3
      <4> QED BY <2>3, <4>1, <4>2, BoxesAreFinite, SumChange
    <3> QED BY <1>2, <1>5, <2>1, <2>3, <3>1
  <2>4. CASE t \notin Sites /\ f \in Sites
    <3>1. SumFun(d, Sites) = SumFun(z, Sites) + d[f] - z[f]
      <4>1. \A s \in Sites : z[s] \in Int /\ d[s] \in Int
        BY <1>5, <2>1
      <4>2. \A s \in Sites \ {f} : d[s] = z[s]
        BY <1>5, <2>1, <2>4
      <4> QED BY <2>4, <4>1, <4>2, BoxesAreFinite, SumChange
    <3> QED BY <1>2, <1>5, <2>1, <2>4, <3>1
  <2>5. CASE t \notin Sites /\ f \notin Sites
    BY <1>3, <2>5
  <2> QED BY <2>2, <2>3, <2>4, <2>5
<1>9. Marked(mark', n) = Marked(mark, n) + SumFun(d, Sites)
  BY <1>1, <1>4, <1>5, <1>7, MarkedMore
<1>10. \A k \in Inside \ {n} : Marked(mark', k) = Marked(mark, k)
  <2> TAKE k \in Inside \ {n}
  <2>1. \A s \in Sites : mark'[s][k] = mark[s][k]
    BY <1>4
  <2> QED BY <1>1, <2>1, MarkedSame
<1>11. Marked(mark, n) \in Nat /\ balance[n] \in Int /\ MarkedAt(n) = Marked(mark, n)
  BY <1>1, MarkedIsSum DEF MarkedAt
<1>12. Marked(mark, n) <= balance[n] => Marked(mark', n) <= balance'[n]
  <2>1. CASE f = None
    <3>1. qty <= balance[n] - Marked(mark, n) /\ SumFun(d, Sites) <= qty
      BY <1>2, <1>3, <1>8, <1>11, <2>1 DEF Free, Above0
    <3>2. SumFun(d, Sites) \in Int
      BY <1>2, <1>8
    <3> QED BY <1>2, <1>3, <1>9, <1>11, <3>1, <3>2
  <2>2. CASE f # None
    <3>1. SumFun(d, Sites) \in Int /\ SumFun(d, Sites) <= 0
      BY <1>2, <1>8, <2>2
    <3> QED BY <1>3, <1>9, <1>11, <3>1
  <2> QED BY <2>1, <2>2
<1>13. stale' \/ \A k \in Inside : Marked(mark', k) <= balance'[k]
  BY <1>1, <1>3, <1>10, <1>12
<1>14. SameGateIns /\ (\A p \in Workers : GoesOn(req'[p], req[p])) /\ DOMAIN req' = Workers
  <2>1. \A p \in Workers : GoesOn(req'[p], req[p])
    BY <1>3, RowsGoneGoOn
  <2>2. DOMAIN req' = Workers
    BY <1>3 DEF RowsGone
  <2> QED BY <1>3, <2>1, <2>2 DEF SameGateIns
<1>15. BoxesStay(box, box')
  BY <1>3, BoxesAsTheyWere
<1> QED BY <1>1, <1>3, <1>7, <1>13, <1>14, <1>15, StepLeaves

\* The box as it is when things have been taken out of it, and nothing has closed yet.
Opened(b, qty, cs) ==
    [c \in Boxes |->
       [box[c] EXCEPT !.parent = IF c \in cs THEN None ELSE @,
                      !.depth = IF \E r \in cs : r \in Chain(box, c) THEN @ - box[b].depth ELSE @,
                      !.claim = IF c = b THEN @ - qty ELSE @]]

\* Taking out changes the parent of what was taken, the depth of all that is in it, and one claim.
LEMMA WhatIsTakenOut ==
    ASSUME box \in [Boxes -> BoxRow], NEW b \in Boxes, NEW qty \in Nat, NEW cs \in SUBSET Boxes,
           qty <= box[b].claim
    PROVE  /\ Opened(b, qty, cs) \in [Boxes -> BoxRow]
           /\ \A c \in Boxes : LET r == Opened(b, qty, cs)[c] IN
                 /\ r.status = box[c].status /\ r.node = box[c].node
                 /\ r.parent = IF c \in cs THEN None ELSE box[c].parent
                 /\ r.depth = IF \E x \in cs : x \in Chain(box, c) THEN box[c].depth - box[b].depth
                                                                  ELSE box[c].depth
                 /\ r.claim = IF c = b THEN box[c].claim - qty ELSE box[c].claim
<1> DEFINE bx == Opened(b, qty, cs)
           par(c) == IF c \in cs THEN None ELSE box[c].parent
           dep(c) == IF \E x \in cs : x \in Chain(box, c) THEN box[c].depth - box[b].depth ELSE box[c].depth
           cla(c) == IF c = b THEN box[c].claim - qty ELSE box[c].claim
<1>1. bx = [c \in Boxes |-> [box[c] EXCEPT !.parent = par(c), !.depth = dep(c), !.claim = cla(c)]]
  BY Zenon DEF Opened
<1>2. \A c \in Boxes : /\ box[c] \in BoxRow /\ par(c) \in Boxes \cup {None} /\ dep(c) \in Int /\ cla(c) \in Nat
  <2> TAKE c \in Boxes
  <2>1. box[c] \in BoxRow /\ box[b] \in BoxRow
    OBVIOUS
  <2>2. box[c].parent \in Boxes \cup {None} /\ box[c].depth \in Int /\ box[c].claim \in Nat /\ box[b].depth \in Int
    BY <2>1, BoxFields
  <2> QED BY <2>1, <2>2
<1> HIDE DEF bx, par, dep, cla
<1>3. ASSUME NEW c \in Boxes
      PROVE  /\ bx[c] \in BoxRow
             /\ bx[c].status = box[c].status /\ bx[c].node = box[c].node
             /\ bx[c].parent = par(c) /\ bx[c].depth = dep(c) /\ bx[c].claim = cla(c)
  <2>1. bx[c] = [box[c] EXCEPT !.parent = par(c), !.depth = dep(c), !.claim = cla(c)]
    BY <1>1
  <2>2. box[c] \in BoxRow /\ par(c) \in Boxes \cup {None} /\ dep(c) \in Int /\ cla(c) \in Nat
    BY <1>2
  <2> QED BY <2>1, <2>2 DEF BoxRow
<1>4. bx \in [Boxes -> BoxRow]
  BY <1>1, <1>3
<1> QED BY <1>3, <1>4 DEF bx, par, dep, cla

\* Boxes that come out, with all that is in them, are inventories of their own.
LEMMA TakingOutKeepsInventory ==
    ASSUME box \in [Boxes -> BoxRow], unit \in [Units -> UnitRow], Inventory(box, unit),
           NEW b \in Boxes, box[b].status = "OPEN", NEW qty \in Nat, qty <= box[b].claim,
           NEW cs \in SUBSET Boxes, \A c \in cs : box[c].parent = b /\ box[c].status = "OPEN"
    PROVE  Inventory(Opened(b, qty, cs), unit)
<1> DEFINE bx == Opened(b, qty, cs)
           out(c) == \E x \in cs : x \in Chain(box, c)
<1>1. \A c \in Boxes :
         /\ bx[c].status = box[c].status /\ bx[c].node = box[c].node
         /\ bx[c].parent = IF c \in cs THEN None ELSE box[c].parent
         /\ bx[c].depth = IF out(c) THEN box[c].depth - box[b].depth ELSE box[c].depth
         /\ bx[c].claim = IF c = b THEN box[c].claim - qty ELSE box[c].claim
  BY WhatIsTakenOut
<1> HIDE DEF bx
<1>2. Nested(box)
  BY BoxFields DEF Nested
<1>3. None \notin Boxes /\ \A c \in Boxes : box[c].parent \in Boxes \cup {None} /\ box[c].depth \in Int
  BY BoxFields, ClaimsAssumption
<1>4. \A u \in Units : unit[u].box # None =>
         bx[unit[u].box].status = "OPEN" /\ bx[unit[u].box].node = unit[u].node
  <2>1. \A c \in Boxes : bx[c].status = box[c].status /\ bx[c].node = box[c].node
    BY <1>1
  <2>2. \A u \in Units : unit[u].box \in Boxes \cup {None}
    BY UnitFields
  <2> QED BY <2>1, <2>2 DEF Inventory
<1>5. \A c \in Boxes : bx[c].status = "CLOSED" => IsEmpty(bx, unit, c)
  <2> TAKE c \in Boxes
  <2> HAVE bx[c].status = "CLOSED"
  <2>1. IsEmpty(box, unit, c) /\ c # b
    BY <1>1 DEF Inventory
  <2>2. ~ \E x \in Boxes : bx[x].parent = c /\ bx[x].status = "OPEN"
    BY <1>1, <1>3, <2>1 DEF IsEmpty
  <2> QED BY <1>1, <2>1, <2>2 DEF IsEmpty
<1>6. ASSUME NEW c \in Boxes, bx[c].status = "OPEN"
      PROVE  IF bx[c].parent = None THEN bx[c].depth = 1
             ELSE /\ bx[c].depth = bx[bx[c].parent].depth + 1
                  /\ bx[c].node = bx[bx[c].parent].node
  <2> DEFINE p == box[c].parent
  <2>1. Chain(box, c) = {c} \cup Chain(box, p)
    BY <1>2, ChainGoesOn
  <2>2. /\ box[c].status = "OPEN" /\ p \in Boxes \cup {None}
        /\ IF p = None THEN box[c].depth = 1
           ELSE box[c].depth = box[p].depth + 1 /\ box[c].node = box[p].node
    BY <1>1, <1>3, <1>6 DEF Inventory
  <2>3. CASE c \in cs
    <3>1. p = b /\ out(c)
      BY <2>1, <2>3
    <3>2. box[c].depth = box[b].depth + 1
      BY <1>3, <2>2, <3>1
    <3> QED BY <1>1, <1>3, <2>3, <3>1, <3>2
  <2>4. CASE c \notin cs /\ p = None
    <3>1. Chain(box, p) = {}
      BY <2>4 DEF Chain
    <3>2. ~ out(c)
      BY <2>1, <2>4, <3>1
    <3> QED BY <1>1, <2>2, <2>4, <3>2
  <2>5. CASE c \notin cs /\ p # None
    <3>1. out(c) <=> out(p)
      BY <2>1, <2>5
    <3>2. bx[c].parent = p /\ p \in Boxes /\ bx[c].node = box[c].node /\ bx[p].node = box[p].node
      BY <1>1, <2>2, <2>5
    <3>3. bx[c].depth = bx[p].depth + 1
      BY <1>1, <1>3, <2>2, <2>5, <3>1, <3>2
    <3> QED BY <2>2, <2>5, <3>2, <3>3
  <2> QED BY <2>3, <2>4, <2>5
<1> QED BY <1>4, <1>5, <1>6 DEF Inventory, bx

\* Taking units, stock and boxes out of a box keeps the invariant.
LEMMA TakeOutKeeps ==
    ASSUME ClaimsInv, NEW b \in Boxes, NEW us \in SUBSET Units, NEW qty \in Nat, NEW cs \in SUBSET Boxes,
           TakeOut(b, us, qty, cs)
    PROVE  ClaimsInv'
<1> DEFINE bx == Opened(b, qty, cs)
<1>1. /\ box \in [Boxes -> BoxRow] /\ unit \in [Units -> UnitRow] /\ mark \in Marks
      /\ balance \in [Inside \cup Outside -> Int]
      /\ gatein \in [GateIns -> {"DRAFT", "POSTED", "VOID"}] /\ DOMAIN req = Workers
      /\ Inventory(box, unit)
      /\ \A n \in Inside : ClaimedAt(box, n) <= balance[n]
      /\ stale \/ \A n \in Inside : Marked(mark, n) <= balance[n]
  BY InvHolds
<1>2. /\ box[b].status = "OPEN" /\ qty <= box[b].claim
      /\ \A c \in cs : box[c].parent = b /\ box[c].status = "OPEN"
      /\ unit' = [u \in Units |-> IF u \in us THEN [unit[u] EXCEPT !.box = None] ELSE unit[u]]
      /\ balance' = balance /\ mark' = mark /\ gatein' = gatein /\ req' = req /\ stale' = stale
  BY Zenon DEF TakeOut
<1>3. box' = CloseIfEmpty(bx, unit', {b})
  BY Zenon DEF TakeOut, Opened
<1>4. /\ bx \in [Boxes -> BoxRow]
      /\ \A c \in Boxes :
            /\ bx[c].status = box[c].status /\ bx[c].node = box[c].node
            /\ bx[c].parent = IF c \in cs THEN None ELSE box[c].parent
            /\ bx[c].claim = IF c = b THEN box[c].claim - qty ELSE box[c].claim
  BY <1>1, <1>2, WhatIsTakenOut
<1>5. Inventory(bx, unit)
  BY <1>1, <1>2, TakingOutKeepsInventory
<1> HIDE DEF bx
<1>6. /\ unit' \in [Units -> UnitRow]
      /\ \A u \in Units : unit'[u].box = None \/ unit'[u] = unit[u]
  <2>1. \A u \in Units : unit[u] \in UnitRow /\ [unit[u] EXCEPT !.box = None] \in UnitRow
                         /\ [unit[u] EXCEPT !.box = None].box = None
    BY <1>1 DEF UnitRow
  <2> QED BY <1>2, <2>1
<1>7. Inventory(bx, unit')
  BY <1>5, <1>6, UnitsOutKeepInventory
<1>8. \A n \in Inside : ClaimedAt(bx, n) <= balance[n]
  <2> TAKE n \in Inside
  <2>1. \A c \in Boxes : ClaimThere(bx, n)[c] <= ClaimThere(box, n)[c]
    BY <1>1, <1>4, BoxFields DEF ClaimThere
  <2>2. ClaimedAt(bx, n) <= ClaimedAt(box, n)
    BY <1>1, <1>4, <2>1, ClaimsShrink
  <2>3. ClaimedAt(bx, n) \in Nat /\ ClaimedAt(box, n) \in Nat /\ balance[n] \in Int /\ ClaimedAt(box, n) <= balance[n]
    BY <1>1, <1>4, ClaimedIsSum
  <2> QED BY <2>2, <2>3
<1>9. BoxesStay(box, bx)
  BY <1>4, BoxesAsTheyWere DEF BoxesStay
<1>10. /\ box' \in [Boxes -> BoxRow] /\ BoxesStay(box, box') /\ Inventory(box', unit')
       /\ \A n \in Inside : ClaimedAt(box', n) <= balance[n]
  <2>1. \A v \in Units : unit'[v].box \in Boxes \cup {None}
    BY <1>6, UnitFields
  <2> QED BY <1>3, <1>4, <1>7, <1>8, <1>9, <2>1, ClosingAfter
<1>11. SameGateIns /\ \A p \in Workers : GoesOn(req'[p], req[p])
  BY <1>2 DEF SameGateIns, GoesOn
<1> QED BY <1>1, <1>2, <1>6, <1>10, <1>11, StepLeaves

\* So does taking everything out.
LEMMA EmptyBoxKeeps == ASSUME ClaimsInv, NEW b \in Boxes, EmptyBox(b) PROVE ClaimsInv'
<1> DEFINE us == {u \in Units : unit[u].box = b}
           qty == box[b].claim
           cs == {c \in Boxes : box[c].parent = b /\ box[c].status = "OPEN"}
<1>1. TakeOut(b, us, qty, cs)
  BY DEF EmptyBox
<1>2. qty \in Nat
  BY InvHolds, BoxFields
<1>3. us \in SUBSET Units /\ cs \in SUBSET Boxes
  OBVIOUS
<1> HIDE DEF us, qty, cs
<1> QED BY <1>1, <1>2, <1>3, TakeOutKeeps

\* What a gate-in receives.
Made(g) == DOMAIN Delivery[g].boxes

\* A delivery comes to a place in the yard, with its boxes in each other.
LEMMA WhatIsReceived ==
    ASSUME NEW g \in GateIns
    PROVE  LET d == Delivery[g] IN
           /\ d.at \in Inside /\ d.at # External /\ d.site \in Sites \cup {None} /\ d.bulk \in Nat
           /\ DOMAIN d.units \subseteq Units /\ Made(g) \subseteq Boxes /\ None \notin Boxes
           /\ \A u \in DOMAIN d.units : d.units[u] \in Made(g) \cup {None}
           /\ \A b \in Made(g) :
                 /\ d.boxes[b].claim \in Nat /\ d.boxes[b].depth \in Nat
                 /\ d.boxes[b].parent \in Made(g) \cup {None}
                 /\ d.boxes[b].depth = IF d.boxes[b].parent = None THEN 1
                                       ELSE d.boxes[d.boxes[b].parent].depth + 1
           /\ MapThenSumSet(LAMBDA b : d.boxes[b].claim, Made(g)) <= d.bulk
           /\ \A h \in GateIns : h # g => Made(h) \cap Made(g) = {}
<1>1. /\ External \in Outside /\ Inside \cap Outside = {} /\ None \notin Boxes \cup Sites
      /\ Delivery[g].at \in Inside /\ Delivery[g].site \in Sites \cup {None} /\ Delivery[g].bulk \in Nat
      /\ DOMAIN Delivery[g].units \subseteq Units /\ DOMAIN Delivery[g].boxes \subseteq Boxes
      /\ Boxed(Delivery[g])
      /\ \A h \in GateIns \ {g} : DOMAIN Delivery[g].boxes \cap DOMAIN Delivery[h].boxes = {}
  BY ClaimsAssumption
<1>2. \A h \in GateIns : h # g => Made(h) \cap Made(g) = {}
  BY <1>1 DEF Made
<1>3. MapThenSumSet(LAMBDA b : Delivery[g].boxes[b].claim, Made(g)) <= Delivery[g].bulk
  BY Zenon, <1>1 DEF Boxed, Made
<1>4. /\ \A u \in DOMAIN Delivery[g].units : Delivery[g].units[u] \in Made(g) \cup {None}
      /\ \A b \in Made(g) :
            /\ Delivery[g].boxes[b].claim \in Nat /\ Delivery[g].boxes[b].depth \in Nat
            /\ Delivery[g].boxes[b].parent \in Made(g) \cup {None}
            /\ Delivery[g].boxes[b].depth = IF Delivery[g].boxes[b].parent = None THEN 1
                                  ELSE Delivery[g].boxes[Delivery[g].boxes[b].parent].depth + 1
  BY Zenon, <1>1 DEF Boxed, Made
<1>5. Delivery[g].at # External
  BY <1>1
<1> QED BY <1>1, <1>2, <1>3, <1>4, <1>5 DEF Made

\* What is not received yet is not there, and nothing that is points at it.
LEMMA NotThereYet ==
    ASSUME BoxesAsReceived, NEW g \in GateIns, gatein[g] = "DRAFT"
    PROVE  /\ \A b \in Made(g) : box[b].status = "NONE"
           /\ \A b \in Boxes : box[b].status # "NONE" =>
                 /\ box[b].parent \notin Made(g) /\ b \notin Made(g)
                 /\ box[b].parent = None \/ box[box[b].parent].status # "NONE"
<1>1. ASSUME NEW b \in Boxes, box[b].status # "NONE"
      PROVE  /\ box[b].parent \notin Made(g) /\ b \notin Made(g)
             /\ box[b].parent = None \/ box[box[b].parent].status # "NONE"
  <2>1. PICK h \in GateIns : /\ gatein[h] # "DRAFT" /\ b \in Made(h)
                             /\ box[b].parent \in {None, Delivery[h].boxes[b].parent}
    BY <1>1 DEF BoxesAsReceived, Made
  <2>2. Delivery[h].boxes[b].parent \in Made(h) \cup {None} /\ None \notin Boxes /\ Made(g) \subseteq Boxes
    BY <2>1, WhatIsReceived
  <2>3. Made(h) \cap Made(g) = {}
    <3>1. h # g
      BY <2>1
    <3> QED BY <3>1, WhatIsReceived
  <2>4. \A c \in Made(h) : box[c].status # "NONE"
    BY <2>1 DEF BoxesAsReceived, Made
  <2> QED BY <2>1, <2>2, <2>3, <2>4
<1>2. \A b \in Made(g) : b \in Boxes
  BY WhatIsReceived
<1> QED BY <1>1, <1>2

\* The boxes that are made when a gate-in is posted.
Filled(g) ==
    [b \in Boxes |->
       IF b \in DOMAIN Delivery[g].boxes
       THEN [status |-> "OPEN", node |-> Delivery[g].at, parent |-> Delivery[g].boxes[b].parent,
             depth |-> Delivery[g].boxes[b].depth, claim |-> Delivery[g].boxes[b].claim]
       ELSE box[b]]

\* They are open, where the gate-in was, as they came.
LEMMA WhatIsFilled ==
    ASSUME box \in [Boxes -> BoxRow], NEW g \in GateIns
    PROVE  /\ Filled(g) \in [Boxes -> BoxRow]
           /\ \A b \in Made(g) : LET r == Filled(g)[b] IN
                 /\ r.status = "OPEN" /\ r.node = Delivery[g].at /\ r.parent = Delivery[g].boxes[b].parent
                 /\ r.depth = Delivery[g].boxes[b].depth /\ r.claim = Delivery[g].boxes[b].claim
           /\ \A b \in Boxes : b \notin Made(g) => Filled(g)[b] = box[b]
<1> DEFINE d == Delivery[g]
           new(b) == [status |-> "OPEN", node |-> d.at, parent |-> d.boxes[b].parent,
                      depth |-> d.boxes[b].depth, claim |-> d.boxes[b].claim]
<1>1. /\ d.at \in Inside /\ Made(g) \subseteq Boxes
      /\ \A b \in Made(g) : /\ d.boxes[b].claim \in Nat /\ d.boxes[b].depth \in Nat
                            /\ d.boxes[b].parent \in Made(g) \cup {None}
  BY WhatIsReceived
<1>2. Filled(g) = [b \in Boxes |-> IF b \in Made(g) THEN new(b) ELSE box[b]]
  BY Zenon DEF Filled, Made
<1>3. \A b \in Made(g) :
         /\ new(b) \in BoxRow /\ new(b).status = "OPEN" /\ new(b).node = d.at
         /\ new(b).parent = d.boxes[b].parent /\ new(b).depth = d.boxes[b].depth
         /\ new(b).claim = d.boxes[b].claim
  <2> HIDE DEF d
  <2> QED BY <1>1 DEF BoxRow
<1> HIDE DEF new
<1>4. Filled(g) \in [Boxes -> BoxRow]
  BY <1>2, <1>3
<1> QED BY <1>1, <1>2, <1>3, <1>4

\* With its units in them, the boxes of a gate-in add to an inventory.
LEMMA FillingKeepsInventory ==
    ASSUME box \in [Boxes -> BoxRow], unit \in [Units -> UnitRow], Inventory(box, unit), BoxesAsReceived,
           NEW g \in GateIns, gatein[g] = "DRAFT",
           NEW un,
           \A u \in Units : IF u \in DOMAIN Delivery[g].units
                            THEN un[u].node = Delivery[g].at /\ un[u].box = Delivery[g].units[u]
                            ELSE un[u] = unit[u]
    PROVE  Inventory(Filled(g), un)
<1> DEFINE d == Delivery[g]
           by == Filled(g)
           new == Made(g)
<1>1. /\ \A u \in DOMAIN d.units : d.units[u] \in new \cup {None}
      /\ \A b \in new :
            /\ d.boxes[b].parent \in new \cup {None} /\ d.boxes[b].depth \in Nat
            /\ d.boxes[b].depth = IF d.boxes[b].parent = None THEN 1
                                  ELSE d.boxes[d.boxes[b].parent].depth + 1
      /\ new \subseteq Boxes /\ None \notin Boxes
  BY WhatIsReceived
<1>2. /\ \A b \in new : /\ by[b].status = "OPEN" /\ by[b].node = d.at /\ by[b].parent = d.boxes[b].parent
                        /\ by[b].depth = d.boxes[b].depth
      /\ \A b \in Boxes : b \notin new => by[b] = box[b]
  BY WhatIsFilled
<1>3. /\ \A b \in new : box[b].status = "NONE"
      /\ \A b \in Boxes : box[b].status # "NONE" => box[b].parent \notin new /\ b \notin new
  BY NotThereYet
<1>4. \A b \in Boxes : box[b].parent \in Boxes \cup {None}
  BY BoxFields
<1>5. \A u \in Units : unit[u].box \in Boxes \cup {None}
  BY UnitFields
<1>6. \A u \in Units : IF u \in DOMAIN d.units THEN un[u].node = d.at /\ un[u].box = d.units[u]
                       ELSE un[u] = unit[u]
  OBVIOUS
<1> HIDE DEF by, new, d
<1>7. ASSUME NEW u \in Units, un[u].box # None
      PROVE  by[un[u].box].status = "OPEN" /\ by[un[u].box].node = un[u].node
  <2>1. CASE u \in DOMAIN d.units
    BY <1>1, <1>2, <1>6, <1>7, <2>1
  <2>2. CASE u \notin DOMAIN d.units
    <3>1. un[u] = unit[u] /\ unit[u].box \in Boxes
      BY <1>5, <1>6, <1>7, <2>2
    <3>2. box[unit[u].box].status = "OPEN" /\ box[unit[u].box].node = unit[u].node
      BY <1>7, <3>1 DEF Inventory
    <3>3. by[unit[u].box] = box[unit[u].box]
      BY <1>2, <1>3, <3>1, <3>2
    <3> QED BY <3>1, <3>2, <3>3
  <2> QED BY <2>1, <2>2
<1>8. ASSUME NEW b \in Boxes, by[b].status = "CLOSED" PROVE IsEmpty(by, un, b)
  <2>1. b \notin new /\ by[b] = box[b] /\ IsEmpty(box, unit, b)
    BY <1>2, <1>8 DEF Inventory
  <2>2. ~ \E u \in Units : un[u].box = b
    <3>1. b # None
      BY <1>1
    <3> QED BY <1>1, <1>6, <2>1, <3>1 DEF IsEmpty
  <2>3. ~ \E c \in Boxes : by[c].parent = b /\ by[c].status = "OPEN"
    BY <1>1, <1>2, <2>1 DEF IsEmpty
  <2> QED BY <2>1, <2>2, <2>3 DEF IsEmpty
<1>9. ASSUME NEW b \in Boxes, by[b].status = "OPEN"
      PROVE  IF by[b].parent = None THEN by[b].depth = 1
             ELSE /\ by[b].depth = by[by[b].parent].depth + 1
                  /\ by[b].node = by[by[b].parent].node
  <2>1. CASE b \in new
    BY <1>1, <1>2, <2>1
  <2>2. CASE b \notin new
    <3>1. by[b] = box[b] /\ box[b].status = "OPEN"
      BY <1>2, <1>9, <2>2
    <3>2. box[b].parent = None \/ by[box[b].parent] = box[box[b].parent]
      BY <1>2, <1>3, <1>4, <3>1
    <3> QED BY <3>1, <3>2 DEF Inventory
  <2> QED BY <2>1, <2>2
<1> QED BY <1>7, <1>8, <1>9 DEF Inventory, by

\* The sum of claims, as one of a function.
LEMMA SumOfClaims ==
    ASSUME NEW e, NEW S
    PROVE  MapThenSumSet(LAMBDA b : e[b].claim, S) = SumFun([b \in S |-> e[b].claim], S)
BY DEF SumFun, MapThenSumSet, MapThenFoldSet

\* What the new boxes claim is no more than what comes in.
LEMMA FillingClaims ==
    ASSUME box \in [Boxes -> BoxRow], BoxesAsReceived, NEW g \in GateIns, gatein[g] = "DRAFT"
    PROVE  /\ ClaimedAt(Filled(g), Delivery[g].at) <= ClaimedAt(box, Delivery[g].at) + Delivery[g].bulk
           /\ \A n : n # Delivery[g].at => ClaimedAt(Filled(g), n) = ClaimedAt(box, n)
<1> DEFINE d == Delivery[g]
           by == Filled(g)
           new == Made(g)
           at == d.at
           some == [b \in new |-> d.boxes[b].claim]
           more == [b \in Boxes |-> IF b \in new THEN d.boxes[b].claim ELSE 0]
           f == ClaimThere(box, at)
           h == ClaimThere(by, at)
<1>1. /\ new \subseteq Boxes /\ \A b \in new : d.boxes[b].claim \in Nat
      /\ MapThenSumSet(LAMBDA b : d.boxes[b].claim, new) <= d.bulk /\ d.bulk \in Nat
  BY WhatIsReceived
<1>2. /\ by \in [Boxes -> BoxRow]
      /\ \A b \in new : by[b].status = "OPEN" /\ by[b].node = at /\ by[b].claim = d.boxes[b].claim
      /\ \A b \in Boxes : b \notin new => by[b] = box[b]
  BY WhatIsFilled
<1>3. \A b \in new : box[b].status = "NONE"
  BY NotThereYet
<1>4. SumFun(some, new) <= d.bulk
  <2>1. SumFun(some, new) = MapThenSumSet(LAMBDA b : d.boxes[b].claim, new)
    BY Zenon, SumOfClaims
  <2> QED BY <1>1, <2>1
<1>5. /\ \A b \in new : some[b] \in Int /\ more[b] = some[b]
      /\ \A b \in Boxes : b \notin new => more[b] = 0
      /\ \A b \in Boxes : more[b] \in Int
  BY <1>1
<1>6. /\ ClaimedAt(box, at) = SumFun(f, Boxes) /\ ClaimedAt(by, at) = SumFun(h, Boxes)
      /\ \A b \in Boxes : f[b] \in Nat /\ h[b] \in Nat
      /\ ClaimedAt(box, at) \in Nat /\ ClaimedAt(by, at) \in Nat
  <2> HIDE DEF by
  <2> QED BY <1>2, ClaimedIsSum
<1>7. \A b \in Boxes : h[b] = f[b] + more[b]
  <2> TAKE b \in Boxes
  <2>1. CASE b \in new
    <3> HIDE DEF by, new
    <3> QED BY <1>1, <1>2, <1>3, <2>1 DEF ClaimThere
  <2>2. CASE b \notin new
    <3>1. by[b] = box[b] /\ more[b] = 0 /\ f[b] \in Nat
      BY <1>2, <1>5, <1>6, <2>2
    <3>2. h[b] = f[b]
      <4> HIDE DEF by
      <4> QED BY <3>1 DEF ClaimThere
    <3> HIDE DEF h, f, more
    <3> QED BY <3>1, <3>2
  <2> QED BY <2>1, <2>2
<1> HIDE DEF by, new, some, more, f, h
<1>8. SumFun(some, new) = SumFun(more, Boxes)
  BY <1>1, <1>5, BoxesAreFinite, SumPart
<1>9. SumFun(h, Boxes) = SumFun(f, Boxes) + SumFun(more, Boxes)
  <2>1. \A b \in Boxes : f[b] \in Int /\ more[b] \in Int /\ h[b] = f[b] + more[b]
    BY <1>5, <1>6, <1>7
  <2> QED BY <2>1, BoxesAreFinite, SumPlus
<1>10. ClaimedAt(by, at) <= ClaimedAt(box, at) + d.bulk
  <2>1. SumFun(more, Boxes) \in Int
    BY <1>5, BoxesAreFinite, SumInt
  <2> QED BY <1>1, <1>4, <1>6, <1>8, <1>9, <2>1
<1>11. ASSUME NEW n, n # at PROVE ClaimedAt(by, n) = ClaimedAt(box, n)
  <2>1. \A b \in Boxes : ClaimThere(by, n)[b] = ClaimThere(box, n)[b]
    BY <1>1, <1>2, <1>3, <1>11 DEF ClaimThere
  <2> QED BY <1>2, <2>1, SameClaims
<1> QED BY <1>10, <1>11 DEF by

\* New boxes are in no box that was there.
LEMMA FillingKeepsTrees ==
    ASSUME box \in [Boxes -> BoxRow], BoxesAsReceived, NEW g \in GateIns, gatein[g] = "DRAFT",
           NEW b \in Boxes, box[b].status # "NONE"
    PROVE  OpenTree(Filled(g), b) \subseteq OpenTree(box, b)
<1> DEFINE by == Filled(g)
           new == Made(g)
<1>1. /\ new \subseteq Boxes /\ None \notin Boxes
      /\ \A c \in new : Delivery[g].boxes[c].parent \in new \cup {None}
  BY WhatIsReceived
<1>2. /\ \A c \in new : by[c].parent = Delivery[g].boxes[c].parent
      /\ \A c \in Boxes : c \notin new => by[c] = box[c]
  BY WhatIsFilled
<1>3. \A c \in Boxes : box[c].status # "NONE" =>
         /\ box[c].parent \notin new /\ c \notin new
         /\ box[c].parent = None \/ box[box[c].parent].status # "NONE"
  BY NotThereYet
<1>4. Nested(box)
  BY BoxFields DEF Nested
<1> HIDE DEF by, new
<1>5. SUFFICES ASSUME NEW c \in Boxes, b \in Chain(by, c), by[c].status = "OPEN"
               PROVE  b \in Chain(box, c) /\ box[c].status = "OPEN"
  BY DEF OpenTree, by
<1>6. c \notin new
  <2>1. ASSUME c \in new PROVE FALSE
    <3>1. \A x \in new : by[x].parent \in new \cup {None}
      BY <1>1, <1>2
    <3>2. Chain(by, c) \subseteq new
      BY <1>1, <2>1, <3>1, ChainIsLeast
    <3> QED BY <1>3, <1>5, <3>2
  <2> QED BY <2>1
<1>7. by[c] = box[c] /\ box[c].status = "OPEN"
  BY <1>2, <1>5, <1>6
<1> DEFINE C == Chain(box, c)
           M == {x \in C : box[x].status # "NONE"}
<1>8. c \in C /\ C \subseteq Boxes /\ \A x \in C : box[x].parent \in C \cup {None}
  BY <1>4, ChainHolds
<1> HIDE DEF C
<1>9. M \in SUBSET Boxes /\ c \in M /\ \A x \in M : by[x].parent \in M \cup {None}
  BY <1>2, <1>3, <1>7, <1>8
<1> HIDE DEF M
<1>10. Chain(by, c) \subseteq M
  BY <1>9, ChainIsLeast
<1> QED BY <1>5, <1>7, <1>10 DEF M, C

\* Posting a gate-in keeps the invariant: it brings at least what its boxes claim.
LEMMA ReceiveKeeps == ASSUME ClaimsInv, NEW g \in GateIns, Receive(g) PROVE ClaimsInv'
<1> DEFINE d == Delivery[g]
<1>1. /\ box \in [Boxes -> BoxRow] /\ unit \in [Units -> UnitRow] /\ mark \in Marks
      /\ balance \in [Inside \cup Outside -> Int]
      /\ gatein \in [GateIns -> {"DRAFT", "POSTED", "VOID"}] /\ DOMAIN req = Workers
      /\ Inventory(box, unit)
      /\ \A n \in Inside : ClaimedAt(box, n) <= balance[n]
      /\ stale \/ \A n \in Inside : Marked(mark, n) <= balance[n]
  BY InvHolds
<1>2. BoxesAsReceived /\ RequestsSound
  BY DEF ClaimsInv
<1>3. /\ gatein[g] = "DRAFT" /\ gatein' = [gatein EXCEPT ![g] = "POSTED"]
      /\ balance' = [balance EXCEPT ![d.at] = balance[d.at] + d.bulk, ![External] = @ - d.bulk]
      /\ unit' = [u \in Units |-> IF u \in DOMAIN d.units
                                  THEN [node |-> d.at, box |-> d.units[u], site |-> d.site]
                                  ELSE unit[u]]
      /\ mark' = IF d.site = None THEN mark ELSE [mark EXCEPT ![d.site][d.at] = @ + d.bulk]
      /\ req' = req /\ stale' = stale
  BY Zenon DEF Receive
<1>4. box' = Filled(g)
  BY Zenon DEF Receive, Filled
<1>5. /\ d.at \in Inside /\ d.at # External /\ d.site \in Sites \cup {None} /\ d.bulk \in Nat
      /\ DOMAIN d.units \subseteq Units /\ Made(g) \subseteq Boxes /\ None \notin Boxes
      /\ \A u \in DOMAIN d.units : d.units[u] \in Made(g) \cup {None}
  BY WhatIsReceived
<1>6. External \in Outside /\ External \notin Inside /\ None \notin Sites
  BY ClaimsAssumption
<1>7. /\ box' \in [Boxes -> BoxRow]
      /\ \A b \in Made(g) : /\ box'[b].status = "OPEN" /\ box'[b].node = d.at
                            /\ box'[b].parent = d.boxes[b].parent
      /\ \A b \in Boxes : b \notin Made(g) => box'[b] = box[b]
  BY <1>1, <1>4, WhatIsFilled
<1> HIDE DEF d
<1>8. unit' \in [Units -> UnitRow]
  <2>1. \A u \in DOMAIN d.units : [node |-> d.at, box |-> d.units[u], site |-> d.site] \in UnitRow
    BY <1>5 DEF UnitRow
  <2> QED BY <1>1, <1>3, <2>1
<1>9. /\ balance' \in [Inside \cup Outside -> Int]
      /\ balance'[d.at] = balance[d.at] + d.bulk
      /\ \A n \in Inside : n # d.at => balance'[n] = balance[n]
  BY <1>1, <1>3, <1>5, <1>6
<1>10. Inventory(box', unit')
  <2>1. \A u \in Units : IF u \in DOMAIN d.units
                         THEN unit'[u].node = d.at /\ unit'[u].box = d.units[u]
                         ELSE unit'[u] = unit[u]
    BY <1>3
  <2> QED BY <1>1, <1>2, <1>3, <1>4, <2>1, FillingKeepsInventory DEF d
<1>11. \A n \in Inside : ClaimedAt(box', n) <= balance'[n]
  <2>1. /\ ClaimedAt(box', d.at) <= ClaimedAt(box, d.at) + d.bulk
        /\ \A n : n # d.at => ClaimedAt(box', n) = ClaimedAt(box, n)
    BY <1>1, <1>2, <1>3, <1>4, FillingClaims DEF d
  <2> TAKE n \in Inside
  <2>2. ClaimedAt(box, n) \in Nat /\ ClaimedAt(box', n) \in Nat /\ balance[n] \in Int /\ ClaimedAt(box, n) <= balance[n]
    BY <1>1, <1>7, ClaimedIsSum
  <2>3. CASE n = d.at
    BY <1>5, <1>9, <2>1, <2>2, <2>3
  <2>4. CASE n # d.at
    BY <1>9, <2>1, <2>2, <2>4
  <2> QED BY <2>3, <2>4
<1>12. mark' \in Marks /\ \A n \in Inside : Marked(mark, n) <= balance[n] => Marked(mark', n) <= balance'[n]
  <2>1. CASE d.site = None
    <3>1. mark' = mark
      BY <1>3, <2>1
    <3>2. \A n \in Inside : balance[n] <= balance'[n] /\ balance[n] \in Int /\ balance'[n] \in Int
      BY <1>1, <1>5, <1>9
    <3>3. \A n \in Inside : Marked(mark, n) <= balance[n] => Marked(mark', n) <= balance'[n]
      <4> TAKE n \in Inside
      <4>1. Marked(mark, n) \in Nat
        BY <1>1, MarkedIsSum
      <4> QED BY <3>1, <3>2, <4>1
    <3> QED BY <1>1, <3>1, <3>3
  <2>2. CASE d.site # None
    <3> DEFINE s == d.site
               f == KeptAt(mark, d.at)
               h == KeptAt(mark', d.at)
    <3>1. s \in Sites /\ mark' = [mark EXCEPT ![s][d.at] = @ + d.bulk]
      BY <1>3, <1>5, <2>2
    <3> HIDE DEF s
    <3>2. /\ mark' \in Marks
          /\ \A x \in Sites : \A n \in Inside :
                mark'[x][n] = IF x = s /\ n = d.at THEN mark[x][n] + d.bulk ELSE mark[x][n]
      BY <1>1, <1>5, <3>1 DEF Marks
    <3>3. ASSUME NEW n \in Inside, n # d.at PROVE Marked(mark', n) = Marked(mark, n)
      <4>1. \A x \in Sites : mark'[x][n] = mark[x][n]
        BY <3>2, <3>3
      <4> QED BY <1>1, <4>1, MarkedSame
    <3>4. Marked(mark', d.at) = Marked(mark, d.at) + d.bulk
      <4>1. /\ \A x \in Sites : f[x] \in Int /\ h[x] \in Int
            /\ \A x \in Sites \ {s} : h[x] = f[x]
            /\ h[s] = f[s] + d.bulk
        BY <1>1, <1>5, <3>1, <3>2 DEF KeptAt, Marks
      <4> HIDE DEF f, h
      <4>2. SumFun(h, Sites) = SumFun(f, Sites) + h[s] - f[s]
        BY <3>1, <4>1, BoxesAreFinite, SumChange
      <4>3. SumFun(f, Sites) \in Int /\ f[s] \in Int
        BY <3>1, <4>1, BoxesAreFinite, SumInt
      <4>4. SumFun(h, Sites) = SumFun(f, Sites) + d.bulk
        BY <1>5, <4>1, <4>2, <4>3
      <4> QED BY <4>4 DEF Marked, f, h
    <3>5. ASSUME NEW n \in Inside, Marked(mark, n) <= balance[n] PROVE Marked(mark', n) <= balance'[n]
      <4>1. Marked(mark, n) \in Nat /\ balance[n] \in Int
        BY <1>1, MarkedIsSum
      <4>2. CASE n = d.at
        BY <1>5, <1>9, <3>4, <3>5, <4>1, <4>2
      <4>3. CASE n # d.at
        BY <1>9, <3>3, <3>5, <4>3
      <4> QED BY <4>2, <4>3
    <3> QED BY <3>2, <3>5
  <2> QED BY <2>1, <2>2
<1>13. stale' \/ \A n \in Inside : Marked(mark', n) <= balance'[n]
  BY <1>1, <1>3, <1>12
<1>14. RowsAreRows'
  <2>1. gatein' \in [GateIns -> {"DRAFT", "POSTED", "VOID"}]
    BY <1>1, <1>3
  <2> QED BY <1>1, <1>3, <1>7, <1>8, <1>9, <1>12, <2>1 DEF RowsAreRows, Marks
<1>15. /\ \A b \in Made(g) : box[b].status = "NONE"
       /\ \A b \in Boxes : box[b].status # "NONE" => b \notin Made(g)
  BY <1>2, <1>3, NotThereYet
<1>16. BoxesAsReceived'
  <2>1. ASSUME NEW b \in Boxes, box'[b].status # "NONE"
        PROVE  /\ box'[b].node \in Inside
               /\ \E h \in GateIns :
                     /\ gatein'[h] # "DRAFT" /\ b \in DOMAIN Delivery[h].boxes
                     /\ box'[b].parent \in {None, Delivery[h].boxes[b].parent}
    <3>1. CASE b \in Made(g)
      <4>1. gatein'[g] # "DRAFT"
        BY <1>1, <1>3
      <4> QED BY <1>5, <1>7, <3>1, <4>1 DEF Made, d
    <3>2. CASE b \notin Made(g)
      <4>1. box'[b] = box[b] /\ box[b].status # "NONE"
        BY <1>7, <2>1, <3>2
      <4>2. PICK h \in GateIns : /\ gatein[h] # "DRAFT" /\ b \in DOMAIN Delivery[h].boxes
                                 /\ box[b].parent \in {None, Delivery[h].boxes[b].parent}
        BY <1>2, <4>1 DEF BoxesAsReceived
      <4>3. gatein'[h] # "DRAFT" /\ box[b].node \in Inside
        BY <1>1, <1>2, <1>3, <4>1, <4>2 DEF BoxesAsReceived
      <4> QED BY <4>1, <4>2, <4>3
    <3> QED BY <3>1, <3>2
  <2>2. ASSUME NEW h \in GateIns, gatein'[h] # "DRAFT", NEW b \in DOMAIN Delivery[h].boxes
        PROVE  box'[b].status # "NONE"
    <3>1. CASE b \in Made(g)
      BY <1>7, <3>1
    <3>2. CASE b \notin Made(g)
      <4>1. h # g
        BY <2>2, <3>2 DEF Made
      <4>2. gatein[h] # "DRAFT" /\ b \in Boxes
        BY <1>1, <1>3, <2>2, <4>1, ClaimsAssumption
      <4> QED BY <1>2, <1>7, <2>2, <3>2, <4>2 DEF BoxesAsReceived
    <3> QED BY <3>1, <3>2
  <2> QED BY <2>1, <2>2 DEF BoxesAsReceived
<1>17. RequestsSound'
  <2>1. ASSUME NEW p \in Workers PROVE (req[p] = NoRequest \/ MoveSound(req[p]) \/ VoidSound(req[p]))'
    <3>1. CASE MoveSound(req[p])
      <4> DEFINE r == req[p]
      <4>1. /\ r \in [op : {"MOVE"}, box : Boxes, from : Inside, to : Inside, tree : SUBSET Boxes]
            /\ box[r.box].status # "NONE" /\ r.from # r.to /\ OpenTree(box, r.box) \subseteq r.tree
        BY <3>1 DEF MoveSound
      <4>2. r.box \in Boxes
        BY <4>1
      <4> HIDE DEF r
      <4>3. OpenTree(box', r.box) \subseteq OpenTree(box, r.box)
        BY <1>1, <1>2, <1>3, <1>4, <4>1, <4>2, FillingKeepsTrees
      <4>4. box'[r.box].status # "NONE"
        BY <1>7, <1>15, <4>1, <4>2
      <4>5. req'[p] = r
        BY <1>3 DEF r
      <4> QED BY <4>1, <4>3, <4>4, <4>5 DEF MoveSound
    <3>2. CASE VoidSound(req[p])
      <4>1. \A h \in GateIns : gatein[h] # "DRAFT" => gatein'[h] # "DRAFT"
        BY <1>1, <1>3
      <4> QED BY <1>3, <3>2, <4>1 DEF VoidSound
    <3>3. CASE req[p] = NoRequest
      BY <1>3, <3>3
    <3> QED BY <1>2, <3>1, <3>2, <3>3 DEF RequestsSound
  <2> QED BY <2>1 DEF RequestsSound
<1> QED BY <1>10, <1>11, <1>13, <1>14, <1>16, <1>17, InvAgain

\* The boxes that a void closes.
Emptying(mine) ==
    [b \in Boxes |-> IF b \in mine THEN [box[b] EXCEPT !.status = "CLOSED", !.claim = 0] ELSE box[b]]

\* They claim nothing any more and are where they were.
LEMMA WhatIsVoided ==
    ASSUME box \in [Boxes -> BoxRow], NEW mine \in SUBSET Boxes
    PROVE  /\ Emptying(mine) \in [Boxes -> BoxRow]
           /\ \A b \in Boxes : LET r == Emptying(mine)[b] IN
                 /\ r.status = IF b \in mine THEN "CLOSED" ELSE box[b].status
                 /\ r.claim = IF b \in mine THEN 0 ELSE box[b].claim
                 /\ r.node = box[b].node /\ r.parent = box[b].parent /\ r.depth = box[b].depth
<1> DEFINE new(b) == [box[b] EXCEPT !.status = "CLOSED", !.claim = 0]
<1>1. Emptying(mine) = [b \in Boxes |-> IF b \in mine THEN new(b) ELSE box[b]]
  BY DEF Emptying
<1>2. \A b \in Boxes :
         /\ new(b) \in BoxRow /\ new(b).status = "CLOSED" /\ new(b).claim = 0
         /\ new(b).node = box[b].node /\ new(b).parent = box[b].parent /\ new(b).depth = box[b].depth
  <2> TAKE b \in Boxes
  <2>1. box[b] \in BoxRow
    OBVIOUS
  <2> QED BY <2>1 DEF BoxRow
<1> HIDE DEF new
<1> QED BY <1>1, <1>2

\* Emptying the boxes of a gate-in leaves an inventory: whatever is in them is of it too.
LEMMA EmptyingKeepsInventory ==
    ASSUME box \in [Boxes -> BoxRow], unit \in [Units -> UnitRow], Inventory(box, unit), BoxesAsReceived,
           NEW g \in GateIns, NEW mine, mine = {b \in Made(g) : box[b].status = "OPEN"},
           NEW un,
           \A u \in Units : IF unit[u].box \in mine THEN un[u].box = None
                            ELSE un[u].box = None \/ (un[u].box = unit[u].box /\ un[u].node = unit[u].node)
    PROVE  Inventory(Emptying(mine), un)
<1> DEFINE bx == Emptying(mine)
<1>1. Made(g) \subseteq Boxes /\ None \notin Boxes /\ mine \subseteq Boxes
  BY WhatIsReceived
<1>2. \A b \in Boxes :
         /\ bx[b].status = IF b \in mine THEN "CLOSED" ELSE box[b].status
         /\ bx[b].claim = IF b \in mine THEN 0 ELSE box[b].claim
         /\ bx[b].node = box[b].node /\ bx[b].parent = box[b].parent /\ bx[b].depth = box[b].depth
  BY <1>1, WhatIsVoided
<1>3. \A b \in Boxes : box[b].parent \in Boxes \cup {None}
  BY BoxFields
<1>4. \A u \in Units : unit[u].box \in Boxes \cup {None}
  BY UnitFields
<1>5. ASSUME NEW c \in Boxes, box[c].status = "OPEN", box[c].parent \in Made(g) PROVE c \in mine
  <2>1. PICK h \in GateIns : c \in Made(h) /\ box[c].parent \in {None, Delivery[h].boxes[c].parent}
    BY <1>5 DEF BoxesAsReceived, Made
  <2>2. box[c].parent \in Made(h)
    <3>1. Delivery[h].boxes[c].parent \in Made(h) \cup {None}
      BY <2>1, WhatIsReceived
    <3> QED BY <1>1, <1>5, <2>1, <3>1
  <2>3. h = g
    <3>1. h # g => Made(h) \cap Made(g) = {}
      BY WhatIsReceived
    <3> QED BY <1>5, <2>2, <3>1
  <2> QED BY <1>5, <2>1, <2>3
<1> HIDE DEF bx
<1>6. \A u \in Units : un[u].box # None => bx[un[u].box].status = "OPEN" /\ bx[un[u].box].node = un[u].node
  <2> TAKE u \in Units
  <2> HAVE un[u].box # None
  <2>1. unit[u].box \notin mine /\ un[u].box = unit[u].box /\ un[u].node = unit[u].node /\ unit[u].box \in Boxes
    BY <1>4
  <2>2. box[unit[u].box].status = "OPEN" /\ box[unit[u].box].node = unit[u].node
    BY <2>1 DEF Inventory
  <2> QED BY <1>2, <2>1, <2>2
<1>7. ASSUME NEW b \in Boxes, bx[b].status = "CLOSED" PROVE IsEmpty(bx, un, b)
  <2>1. CASE b \in mine
    <3>1. ~ \E u \in Units : un[u].box = b
      BY <1>1, <2>1
    <3>2. ~ \E c \in Boxes : bx[c].parent = b /\ bx[c].status = "OPEN"
      <4>1. b \in Made(g)
        BY <2>1
      <4> QED BY <1>2, <1>5, <4>1
    <3> QED BY <1>2, <2>1, <3>1, <3>2 DEF IsEmpty
  <2>2. CASE b \notin mine
    <3>1. IsEmpty(box, unit, b)
      BY <1>2, <1>7, <2>2 DEF Inventory
    <3>2. ~ \E u \in Units : un[u].box = b
      BY <1>1, <3>1 DEF IsEmpty
    <3>3. ~ \E c \in Boxes : bx[c].parent = b /\ bx[c].status = "OPEN"
      BY <1>2, <3>1 DEF IsEmpty
    <3> QED BY <1>2, <2>2, <3>1, <3>2, <3>3 DEF IsEmpty
  <2> QED BY <2>1, <2>2
<1>8. ASSUME NEW b \in Boxes, bx[b].status = "OPEN"
      PROVE  IF bx[b].parent = None THEN bx[b].depth = 1
             ELSE /\ bx[b].depth = bx[bx[b].parent].depth + 1
                  /\ bx[b].node = bx[bx[b].parent].node
  <2>1. box[b].status = "OPEN"
    BY <1>2, <1>8
  <2> QED BY <1>2, <1>3, <2>1 DEF Inventory
<1> QED BY <1>6, <1>7, <1>8 DEF Inventory, bx

\* Drawing on the earmarks by name, for what is not free.
LEMMA EarmarksGiveWay ==
    ASSUME NEW mk \in Marks, NEW at \in Inside, NEW qty \in Nat, NEW bal \in Int,
           NEW need, need = Above0(qty - Above0(bal - Marked(mk, at))),
           NEW cut, cut = Drawn(Sites, KeptAt(mk, at), NameOrder, need)
    PROVE  /\ \A s \in Sites : cut[s] \in Nat /\ cut[s] <= mk[s][at]
           /\ SumFun(cut, Sites) \in Nat
           /\ Marked(mk, at) <= bal /\ qty <= bal => Marked(mk, at) - SumFun(cut, Sites) <= bal - qty
<1> DEFINE kept == KeptAt(mk, at)
<1>1. /\ DOMAIN kept = Sites /\ Sites \in SUBSET Sites
      /\ \A s \in Sites : kept[s] \in Nat /\ kept[s] = mk[s][at]
      /\ Marked(mk, at) = SumFun(kept, Sites) /\ Marked(mk, at) \in Nat
  BY MarkedIsSum DEF KeptAt, Marked
<1>2. need \in Nat
  BY <1>1 DEF Above0
<1> HIDE DEF kept
<1>3. Takes(cut, kept, Sites, need)
  <2>1. cut = Drawn(Sites, kept, NameOrder, need)
    BY DEF kept
  <2> QED BY <1>1, <1>2, <2>1, DrawnTakes
<1>4. /\ SumFun(cut, Sites) = Lower(need, SumFun(kept, Sites))
      /\ \A s \in Sites : cut[s] \in Nat /\ cut[s] <= kept[s]
  <2>1. \A s \in Sites : kept[s] \in Nat
    BY <1>1
  <2>2. Sites \in SUBSET Sites
    OBVIOUS
  <2>3. SumFun(cut, Sites) = Lower(need, SumFun(kept, Sites))
    BY <1>3, <2>1, <2>2, TakenSum
  <2>4. \A s \in Sites : cut[s] \in Nat /\ cut[s] <= kept[s]
    BY <1>3 DEF Takes
  <2> QED BY <2>3, <2>4
<1> QED BY <1>1, <1>2, <1>4 DEF Lower, Above0

\* A void keeps the invariant, except that the earmark it read may have changed.
LEMMA EndVoidKeeps == ASSUME ClaimsInv, NEW p \in Workers, EndVoid(p) PROVE ClaimsInv'
<1> DEFINE r == req[p]
           g == r.gatein
           d == Delivery[g]
           at == d.at
           now == IF r.site # None /\ r.row THEN [mark EXCEPT ![r.site][r.at] = Cleared(r)] ELSE mark
           mine == {b \in Made(g) : box[b].status = "OPEN"}
           qty == IF gatein[g] = "POSTED" THEN d.bulk ELSE 0
           us == IF gatein[g] = "POSTED" THEN DOMAIN d.units ELSE {}
           m == [kind |-> "CORRECTION", from |-> at, to |-> External, qty |-> qty,
                 box |-> None, site |-> None, reason |-> FALSE]
           need == Above0(qty - Above0(balance[at] - Marked(now, at)))
           cut == Drawn(Sites, KeptAt(now, at), NameOrder, need)
<1>1. /\ box \in [Boxes -> BoxRow] /\ unit \in [Units -> UnitRow] /\ mark \in Marks
      /\ balance \in [Inside \cup Outside -> Int]
      /\ gatein \in [GateIns -> {"DRAFT", "POSTED", "VOID"}] /\ DOMAIN req = Workers
      /\ Inventory(box, unit)
      /\ \A n \in Inside : ClaimedAt(box, n) <= balance[n]
      /\ stale \/ \A n \in Inside : Marked(mark, n) <= balance[n]
  BY InvHolds
<1>2. BoxesAsReceived /\ RequestsSound
  BY DEF ClaimsInv
<1>3. VoidSound(r)
  <2>1. req[p] # NoRequest /\ req[p].op = "VOID"
    BY DEF EndVoid
  <2>2. ~ MoveSound(req[p])
    BY <2>1 DEF MoveSound
  <2> QED BY <1>2, <2>1, <2>2 DEF RequestsSound
<1>4. /\ g \in GateIns /\ gatein[g] # "DRAFT" /\ r.at = at /\ at \in Inside
      /\ r.site \in Sites \cup {None} /\ r.seen \in Nat
  BY <1>3 DEF VoidSound
<1>5. /\ at # External /\ d.bulk \in Nat /\ DOMAIN d.units \subseteq Units /\ External \in Outside /\ None \notin Sites
  BY <1>4, WhatIsReceived, ClaimsAssumption
<1>6. now \in Marks /\ \A s \in Sites : \A n \in Inside : ~ stale' => now[s][n] <= mark[s][n]
  <2>1. CASE r.site # None /\ r.row
    <3> DEFINE x == r.site
               v == Cleared(r)
    <3>1. x \in Sites /\ now = [mark EXCEPT ![x][at] = v]
      BY <1>4, <2>1
    <3>2. v \in Nat /\ v <= r.seen
      BY <1>4, <1>5 DEF Cleared, Above0
    <3>3. ~ stale' => r.seen = mark[x][at]
      <4>1. stale' = (stale \/ (r.site # None /\ r.seen # mark[r.site][r.at]))
        BY Zenon DEF EndVoid
      <4> QED BY <1>4, <2>1, <4>1
    <3> HIDE DEF x, v, now, at
    <3>4. \A s \in Sites : \A n \in Inside : now[s][n] = IF s = x /\ n = at THEN v ELSE mark[s][n]
      BY <1>1, <1>4, <3>1 DEF Marks
    <3>5. now \in Marks
      BY <1>1, <1>4, <3>1, <3>2 DEF Marks
    <3>6. \A s \in Sites : \A n \in Inside : mark[s][n] \in Nat
      BY <1>1 DEF Marks
    <3> QED BY <3>2, <3>3, <3>4, <3>5, <3>6
  <2>2. CASE ~ (r.site # None /\ r.row)
    <3>1. now = mark
      BY <2>2
    <3> HIDE DEF now
    <3>2. \A s \in Sites : \A n \in Inside : mark[s][n] \in Nat
      BY <1>1 DEF Marks
    <3> QED BY <1>1, <3>1, <3>2
  <2> QED BY <2>1, <2>2
<1>7. /\ unit' = [u \in Units |->
            IF u \in us THEN [node |-> External, box |-> None, site |-> None]
            ELSE [unit[u] EXCEPT !.box = IF @ \in mine THEN None ELSE @,
                                 !.site = IF u \in r.units THEN None ELSE @]]
      /\ box' = BoxesAfter(Emptying(mine), m)
      /\ balance' = Moved(balance, m)
  BY Zenon DEF EndVoid, Emptying, Made
<1>8. /\ gatein' = [gatein EXCEPT ![g] = "VOID"]
      /\ stale' = (stale \/ (r.site # None /\ r.seen # mark[r.site][r.at]))
      /\ req' = [RowsGone(mark') EXCEPT ![p] = NoRequest]
  BY Zenon DEF EndVoid
<1>9. /\ balance[at] >= qty
      /\ mark' = [s \in Sites |-> [now[s] EXCEPT ![at] = @ - cut[s]]]
  <2>1. LET kept(s) == now[s][at]
            free == Above0(balance[at] - MapThenSumSet(kept, Sites))
            gone == Drawn(Sites, [s \in Sites |-> kept(s)], NameOrder, Above0(qty - free))
        IN  /\ balance[at] >= qty
            /\ mark' = [s \in Sites |-> [now[s] EXCEPT ![at] = @ - gone[s]]]
    BY Zenon DEF EndVoid
  <2> HIDE DEF now, qty, at
  <2>2. MapThenSumSet(LAMBDA s : now[s][at], Sites) = Marked(now, at)
    BY <1>4, <1>6, MarkedIsSum
  <2> QED BY Zenon, <2>1, <2>2 DEF KeptAt
<1>10. m.from = at /\ m.to = External /\ m.qty = qty /\ m.box = None /\ m.kind = "CORRECTION"
  OBVIOUS
<1>11. qty \in Nat /\ us \subseteq Units /\ mine \subseteq Boxes
  <2>1. mine \subseteq Boxes
    BY <1>4, WhatIsReceived
  <2> QED BY <1>5, <2>1
<1>12. need = Above0(qty - Above0(balance[at] - Marked(now, at))) /\ cut = Drawn(Sites, KeptAt(now, at), NameOrder, need)
  OBVIOUS
<1>13. mine = {b \in Made(g) : box[b].status = "OPEN"}
  OBVIOUS
<1>14. /\ balance' \in [Inside \cup Outside -> Int]
       /\ balance'[at] = balance[at] - qty
       /\ \A n \in Inside : n # at => balance'[n] = balance[n]
       /\ balance[at] \in Int
  <2>1. Inside \cap Outside = {}
    BY ClaimsAssumption
  <2> HIDE DEF m, at, qty
  <2> QED BY <1>1, <1>4, <1>5, <1>7, <1>10, <1>11, <2>1, WhatMoves
<1> HIDE DEF r, g, at, now, mine, qty, us, m, need, cut
<1>15. /\ unit' \in [Units -> UnitRow]
       /\ \A u \in Units : IF unit[u].box \in mine THEN unit'[u].box = None
                           ELSE unit'[u].box = None
                                \/ (unit'[u].box = unit[u].box /\ unit'[u].node = unit[u].node)
  <2> DEFINE new(u) == [unit[u] EXCEPT !.box = IF unit[u].box \in mine THEN None ELSE unit[u].box,
                                       !.site = IF u \in r.units THEN None ELSE unit[u].site]
             gone == [node |-> External, box |-> None, site |-> None]
  <2>1. unit' = [u \in Units |-> IF u \in us THEN gone ELSE new(u)]
    BY Zenon, <1>7
  <2>2. gone \in UnitRow /\ gone.box = None
    BY <1>5 DEF UnitRow
  <2>3. \A u \in Units : /\ new(u) \in UnitRow /\ new(u).node = unit[u].node
                         /\ new(u).box = IF unit[u].box \in mine THEN None ELSE unit[u].box
    <3> TAKE u \in Units
    <3>1. unit[u] \in UnitRow
      BY <1>1
    <3> QED BY <3>1 DEF UnitRow
  <2> HIDE DEF new, gone
  <2> QED BY <2>1, <2>2, <2>3
<1>16. /\ Emptying(mine) \in [Boxes -> BoxRow]
       /\ \A b \in Boxes : LET e == Emptying(mine)[b] IN
             /\ e.status = IF b \in mine THEN "CLOSED" ELSE box[b].status
             /\ e.claim = IF b \in mine THEN 0 ELSE box[b].claim
             /\ e.node = box[b].node /\ e.parent = box[b].parent
  BY <1>1, <1>11, WhatIsVoided
<1>17. Inventory(Emptying(mine), unit')
  BY <1>1, <1>2, <1>4, <1>13, <1>15, EmptyingKeepsInventory
<1> DEFINE bx == Emptying(mine)
<1> HIDE DEF bx
<1>18. \A n \in Inside : ClaimedAt(bx, n) <= balance[n]
  <2> TAKE n \in Inside
  <2>1. \A c \in Boxes : ClaimThere(bx, n)[c] <= ClaimThere(box, n)[c]
    BY <1>1, <1>16, BoxFields DEF ClaimThere, bx
  <2>2. ClaimedAt(bx, n) <= ClaimedAt(box, n)
    BY <1>1, <1>16, <2>1, ClaimsShrink DEF bx
  <2>3. ClaimedAt(bx, n) \in Nat /\ ClaimedAt(box, n) \in Nat /\ balance[n] \in Int /\ ClaimedAt(box, n) <= balance[n]
    BY <1>1, <1>16, ClaimedIsSum DEF bx
  <2> QED BY <2>2, <2>3
<1>19. /\ box' \in [Boxes -> BoxRow]
       /\ \A b \in Boxes :
             /\ box'[b].status = bx[b].status \/ (bx[b].status = "OPEN" /\ box'[b].status = "CLOSED")
             /\ box'[b].node = bx[b].node /\ box'[b].parent = bx[b].parent
       /\ Inventory(box', unit')
       /\ ClaimedAt(box', at) <= balance[at] - qty
       /\ \A n : n # at => ClaimedAt(box', n) = ClaimedAt(bx, n)
  <2>1. m.qty \in Nat /\ balance[m.from] \in Int /\ Covered(bx, m)
    BY <1>10, <1>11, <1>14 DEF Covered
  <2>2. ClaimedAt(bx, m.from) <= balance[m.from] /\ m.qty <= balance[m.from]
    BY <1>4, <1>9, <1>10, <1>11, <1>14, <1>18
  <2>3. bx \in [Boxes -> BoxRow] /\ Inventory(bx, unit') /\ box' = BoxesAfter(bx, m)
    BY <1>7, <1>16, <1>17 DEF bx
  <2>4. \A u \in Units : unit'[u].box \in {None, unit[u].box}
    BY <1>15
  <2>5. /\ box' \in [Boxes -> BoxRow]
        /\ \A b \in Boxes :
              /\ box'[b].status = bx[b].status \/ (bx[b].status = "OPEN" /\ box'[b].status = "CLOSED")
              /\ box'[b].node = bx[b].node /\ box'[b].parent = bx[b].parent
        /\ Inventory(box', unit')
        /\ ClaimedAt(box', m.from) <= balance[m.from] - m.qty
        /\ \A n : n # m.from => ClaimedAt(box', n) = ClaimedAt(bx, n)
    BY <1>1, <2>1, <2>2, <2>3, <2>4, BoxesAfterAMovement
  <2> QED BY <1>10, <2>5
<1>20. \A n \in Inside : ClaimedAt(box', n) <= balance'[n]
  BY <1>14, <1>18, <1>19
<1>21. BoxesStay(box, box')
  <2>1. \A b \in Boxes : box[b].status # "NONE" => box[b].node \in Inside
    BY <1>2, BoxesAreInside
  <2>2. \A b \in mine : box[b].status = "OPEN"
    BY <1>13
  <2> QED BY <1>16, <1>19, <2>1, <2>2 DEF BoxesStay, bx
<1>22. /\ \A s \in Sites : cut[s] \in Nat /\ cut[s] <= now[s][at]
       /\ SumFun(cut, Sites) \in Nat
       /\ Marked(now, at) <= balance[at] /\ qty <= balance[at] =>
             Marked(now, at) - SumFun(cut, Sites) <= balance[at] - qty
  <2> DEFINE bal == balance[at]
  <2>1. bal \in Int /\ need = Above0(qty - Above0(bal - Marked(now, at)))
    BY <1>12, <1>14
  <2> HIDE DEF bal
  <2>2. /\ \A s \in Sites : cut[s] \in Nat /\ cut[s] <= now[s][at]
        /\ SumFun(cut, Sites) \in Nat
        /\ Marked(now, at) <= bal /\ qty <= bal => Marked(now, at) - SumFun(cut, Sites) <= bal - qty
    BY <1>4, <1>6, <1>11, <1>12, <2>1, EarmarksGiveWay
  <2> QED BY <2>2 DEF bal
<1>23. mark' = Follow(now, cut, at, External, FALSE)
  <2>1. \A s \in Sites : now[s] \in [Inside -> Nat]
    BY <1>6 DEF Marks
  <2>2. \A s \in Sites : [now[s] EXCEPT ![at] = @ - cut[s]] =
           [n \in Inside |-> IF n = at THEN now[s][n] - cut[s]
                             ELSE IF n = External /\ FALSE THEN now[s][n] + cut[s] ELSE now[s][n]]
    BY <2>1
  <2> QED BY <1>9, <2>2 DEF Follow
<1>24. /\ mark' \in Marks
       /\ Marked(mark', at) = Marked(now, at) - SumFun(cut, Sites)
       /\ \A n \in Inside : n # at => Marked(mark', n) = Marked(now, n)
  <2>1. External \notin Inside /\ External # at
    BY <1>5, ClaimsAssumption
  <2> DEFINE goes == FALSE
             nk == Follow(now, cut, at, External, goes)
  <2>2a. goes \in BOOLEAN /\ mark' = nk
    BY <1>23
  <2>2b. now \in Marks /\ at \in Inside /\ \A s \in Sites : cut[s] \in Nat /\ cut[s] <= now[s][at]
    BY <1>4, <1>6, <1>22
  <2> HIDE DEF goes
  <2>2c. /\ nk \in Marks
        /\ Marked(nk, at) = Marked(now, at) - SumFun(cut, Sites)
        /\ \A n \in Inside \ {at, External} : Marked(nk, n) = Marked(now, n)
    BY <2>2b, <2>2a, <2>1, EarmarksFollow
  <2> HIDE DEF nk
  <2>2. /\ mark' \in Marks
        /\ Marked(mark', at) = Marked(now, at) - SumFun(cut, Sites)
        /\ \A n \in Inside \ {at, External} : Marked(mark', n) = Marked(now, n)
    BY <2>2a, <2>2c
  <2> QED BY <2>1, <2>2
<1>25. stale' \/ \A n \in Inside : Marked(mark', n) <= balance'[n]
  <2>1. SUFFICES ASSUME ~ stale', NEW n \in Inside PROVE Marked(mark', n) <= balance'[n]
    OBVIOUS
  <2>2. Marked(mark, n) <= balance[n] /\ balance[n] \in Int
    BY <1>1, <1>8, <2>1
  <2>3. Marked(now, n) <= Marked(mark, n) /\ Marked(now, n) \in Nat /\ Marked(mark, n) \in Nat
    <3> DEFINE f == KeptAt(now, n)
               h == KeptAt(mark, n)
    <3>1. \A s \in Sites : f[s] \in Int /\ h[s] \in Int /\ f[s] <= h[s]
      BY <1>1, <1>6, <2>1 DEF KeptAt, Marks
    <3> HIDE DEF f, h
    <3>2. SumFun(f, Sites) <= SumFun(h, Sites)
      BY <3>1, BoxesAreFinite, SumMonotonic
    <3>3. Marked(now, n) \in Nat /\ Marked(mark, n) \in Nat
      BY <1>1, <1>6, MarkedIsSum
    <3> QED BY <3>2, <3>3 DEF Marked, f, h
  <2>4. CASE n = at
    BY <1>9, <1>11, <1>14, <1>22, <1>24, <2>2, <2>3, <2>4
  <2>5. CASE n # at
    BY <1>14, <1>24, <2>2, <2>3, <2>5
  <2> QED BY <2>4, <2>5
<1>26. /\ SameGateIns /\ gatein' \in [GateIns -> {"DRAFT", "POSTED", "VOID"}]
       /\ \A q \in Workers : GoesOn(req'[q], req[q])
       /\ DOMAIN req' = Workers
  <2>1. \A q \in Workers : req'[q] = NoRequest \/ req'[q] = RowsGone(mark')[q]
    BY <1>8 DEF RowsGone
  <2>2. \A q \in Workers : GoesOn(RowsGone(mark')[q], req[q])
    BY RowsGoneGoOn
  <2>3. \A q \in Workers : GoesOn(req'[q], req[q])
    BY <2>1, <2>2 DEF GoesOn
  <2>4. DOMAIN req' = Workers
    BY <1>8 DEF RowsGone
  <2> QED BY <1>1, <1>4, <1>8, <2>3, <2>4 DEF SameGateIns
<1> QED BY <1>15, <1>14, <1>19, <1>20, <1>21, <1>24, <1>25, <1>26, StepLeaves

\* Open boxes are in open boxes, of one tree and at one place.
LEMMA TreesStandTogether ==
    ASSUME ClaimsInv, NEW b \in Boxes, box[b].status = "OPEN", box[b].parent = None
    PROVE  /\ b \in OpenTree(box, b) /\ OpenTree(box, b) \subseteq Boxes
           /\ \A c \in OpenTree(box, b) : box[c].status = "OPEN" /\ box[c].node = box[b].node
           /\ \A c \in Boxes : box[c].status = "OPEN" /\ box[c].parent # None =>
                 (c \in OpenTree(box, b) <=> box[c].parent \in OpenTree(box, b))
<1> DEFINE tree == OpenTree(box, b)
<1>1. box \in [Boxes -> BoxRow] /\ Inventory(box, unit)
  BY InvHolds
<1>2. Nested(box)
  BY <1>1, BoxFields DEF Nested
<1>3. ASSUME NEW c \in Boxes, box[c].status = "OPEN", box[c].parent # None
      PROVE  /\ box[c].parent \in Boxes /\ box[box[c].parent].status = "OPEN"
             /\ box[box[c].parent].node = box[c].node
  <2> DEFINE x == box[c].parent
  <2>1. x \in Boxes /\ box[x].status \in {"NONE", "OPEN", "CLOSED"}
    BY <1>1, <1>3, BoxFields
  <2>2. box[x].status # "CLOSED"
    BY <1>1, <1>3, <2>1 DEF Inventory, IsEmpty
  <2>3. box[x].status # "NONE"
    <3>1. PICK h \in GateIns : /\ gatein[h] # "DRAFT" /\ c \in Made(h)
                               /\ x \in {None, Delivery[h].boxes[c].parent}
      BY <1>3 DEF ClaimsInv, BoxesAsReceived, Made
    <3>2. x \in Made(h)
      <4>1. Delivery[h].boxes[c].parent \in Made(h) \cup {None}
        BY <3>1, WhatIsReceived
      <4> QED BY <1>3, <3>1, <4>1
    <3> QED BY <3>1, <3>2 DEF ClaimsInv, BoxesAsReceived, Made
  <2>4. box[c].node = box[x].node
    BY <1>1, <1>3 DEF Inventory
  <2> QED BY <2>1, <2>2, <2>3, <2>4
<1>4. ASSUME NEW c \in Boxes, box[c].status = "OPEN", b \in Chain(box, c)
      PROVE  box[c].node = box[b].node
  <2> DEFINE C == Chain(box, c)
             S == {x \in C : box[x].status = "OPEN" /\ box[x].node = box[c].node}
  <2>1. c \in C /\ C \subseteq Boxes /\ \A x \in C : box[x].parent \in C \cup {None}
    BY <1>2, ChainHolds
  <2> HIDE DEF C
  <2>2. S \in SUBSET Boxes /\ c \in S /\ \A x \in S : box[x].parent \in S \cup {None}
    BY <1>3, <1>4, <2>1
  <2> HIDE DEF S
  <2>3. Chain(box, c) \subseteq S
    BY <2>2, ChainIsLeast
  <2> QED BY <1>4, <2>3 DEF S
<1>5. b \in Chain(box, b)
  BY <1>2, ChainHolds
<1>6. \A c : c \in tree <=> c \in Boxes /\ box[c].status = "OPEN" /\ b \in Chain(box, c)
  BY <1>5 DEF OpenTree
<1> HIDE DEF tree
<1>7. ASSUME NEW c \in Boxes, box[c].status = "OPEN", box[c].parent # None
      PROVE  c \in tree <=> box[c].parent \in tree
  <2>1. Chain(box, c) = {c} \cup Chain(box, box[c].parent)
    BY <1>2, ChainGoesOn
  <2>2. c # b
    BY <1>7
  <2> QED BY <1>3, <1>6, <1>7, <2>1, <2>2
<1> QED BY <1>4, <1>5, <1>6, <1>7 DEF tree

\* Boxes that were somewhere, and what became of them when those of a tree went elsewhere.
GoAlong(bx, by, tree, from, to) ==
    /\ \A c \in tree : bx[c].status = "OPEN" /\ bx[c].node = from
    /\ \A c \in Boxes :
          /\ by[c].claim = bx[c].claim
          /\ by[c].status = bx[c].status \/ (bx[c].status = "OPEN" /\ bx[c].claim = 0 /\ by[c].status = "CLOSED")
          /\ by[c].node = IF c \in tree THEN to ELSE bx[c].node

\* What goes with a box is claimed where it comes from before, and where it goes to after.
LEMMA ClaimsGoAlong ==
    ASSUME NEW bx \in [Boxes -> BoxRow], NEW by \in [Boxes -> BoxRow], NEW tree \in SUBSET Boxes,
           NEW from, NEW to, from # to,
           GoAlong(bx, by, tree, from, to),
           NEW qty, qty = SumFun(ClaimOf(bx), tree)
    PROVE  /\ qty \in Nat
           /\ ClaimedAt(by, from) = ClaimedAt(bx, from) - qty
           /\ ClaimedAt(by, to) = ClaimedAt(bx, to) + qty
           /\ \A n : n \notin {from, to} => ClaimedAt(by, n) = ClaimedAt(bx, n)
<1> DEFINE some == ClaimOf(bx)
           more == [c \in Boxes |-> IF c \in tree THEN bx[c].claim ELSE 0]
<1>1. qty = SumFun(some, tree)
  OBVIOUS
<1>2. /\ \A c \in Boxes : bx[c].claim \in Nat /\ more[c] \in Nat /\ more[c] \in Int
      /\ \A c \in tree : some[c] \in Int /\ more[c] = some[c] /\ more[c] = bx[c].claim
      /\ \A c \in Boxes : c \notin tree => more[c] = 0
  BY BoxFields DEF ClaimOf
<1>3. qty = SumFun(more, Boxes) /\ qty \in Nat
  <2> HIDE DEF some, more
  <2>1. SumFun(some, tree) = SumFun(more, Boxes)
    BY <1>2, BoxesAreFinite, SumPart
  <2>2. SumFun(more, Boxes) \in Nat
    BY <1>2, BoxesAreFinite, SumNonNegative
  <2> QED BY <1>1, <2>1, <2>2
<1> HIDE DEF some, more
<1>a. /\ \A c \in tree : bx[c].status = "OPEN" /\ bx[c].node = from
      /\ \A c \in Boxes :
            /\ by[c].claim = bx[c].claim
            /\ by[c].status = bx[c].status \/ (bx[c].status = "OPEN" /\ bx[c].claim = 0 /\ by[c].status = "CLOSED")
            /\ by[c].node = IF c \in tree THEN to ELSE bx[c].node
  BY DEF GoAlong
<1>4. ClaimedAt(bx, from) = ClaimedAt(by, from) + qty
  <2> DEFINE f == ClaimThere(by, from)
             h == ClaimThere(bx, from)
  <2>1. \A c \in Boxes : h[c] = f[c] + more[c]
    <3> TAKE c \in Boxes
    <3>1. bx[c].claim \in Nat /\ by[c].claim = bx[c].claim
      BY <1>2, <1>a
    <3>2. CASE c \in tree
      <4>1. f[c] = 0 /\ h[c] = bx[c].claim
        BY <1>a, <3>2 DEF ClaimThere
      <4> QED BY <1>2, <3>1, <3>2, <4>1
    <3>3. CASE c \notin tree
      <4>1. f[c] = h[c] /\ h[c] \in Nat
        BY <1>a, <3>1, <3>3 DEF ClaimThere
      <4> QED BY <1>2, <3>3, <4>1
    <3> QED BY <3>2, <3>3
  <2>2. /\ ClaimedAt(bx, from) = SumFun(h, Boxes) /\ ClaimedAt(by, from) = SumFun(f, Boxes)
        /\ \A c \in Boxes : f[c] \in Nat /\ h[c] \in Nat
    BY ClaimedIsSum
  <2> HIDE DEF f, h
  <2>3. \A c \in Boxes : f[c] \in Int /\ more[c] \in Int /\ h[c] = f[c] + more[c]
    BY <1>2, <2>1, <2>2
  <2>4. SumFun(h, Boxes) = SumFun(f, Boxes) + SumFun(more, Boxes)
    BY <2>3, BoxesAreFinite, SumPlus
  <2> QED BY <1>3, <2>2, <2>4
<1>5. ClaimedAt(by, to) = ClaimedAt(bx, to) + qty
  <2> DEFINE f == ClaimThere(bx, to)
             h == ClaimThere(by, to)
  <2>1. \A c \in Boxes : h[c] = f[c] + more[c]
    <3> TAKE c \in Boxes
    <3>1. bx[c].claim \in Nat /\ by[c].claim = bx[c].claim
      BY <1>2, <1>a
    <3>2. CASE c \in tree
      <4>1. f[c] = 0 /\ h[c] = bx[c].claim
        BY <1>a, <3>1, <3>2 DEF ClaimThere
      <4> QED BY <1>2, <3>1, <3>2, <4>1
    <3>3. CASE c \notin tree
      <4>1. f[c] = h[c] /\ h[c] \in Nat
        BY <1>a, <3>1, <3>3 DEF ClaimThere
      <4> QED BY <1>2, <3>3, <4>1
    <3> QED BY <3>2, <3>3
  <2>2. /\ ClaimedAt(bx, to) = SumFun(f, Boxes) /\ ClaimedAt(by, to) = SumFun(h, Boxes)
        /\ \A c \in Boxes : f[c] \in Nat /\ h[c] \in Nat
    BY ClaimedIsSum
  <2> HIDE DEF f, h
  <2>3. \A c \in Boxes : f[c] \in Int /\ more[c] \in Int /\ h[c] = f[c] + more[c]
    BY <1>2, <2>1, <2>2
  <2>4. SumFun(h, Boxes) = SumFun(f, Boxes) + SumFun(more, Boxes)
    BY <2>3, BoxesAreFinite, SumPlus
  <2> QED BY <1>3, <2>2, <2>4
<1>6. ASSUME NEW n, n \notin {from, to} PROVE ClaimedAt(by, n) = ClaimedAt(bx, n)
  <2>1. \A c \in Boxes : ClaimThere(by, n)[c] = ClaimThere(bx, n)[c]
    BY <1>a, <1>6 DEF ClaimThere
  <2> QED BY <2>1, SameClaims
<1>7. ClaimedAt(by, from) \in Nat
  BY ClaimedIsSum
<1> QED BY <1>3, <1>4, <1>5, <1>6, <1>7

\* Moving a tree of boxes keeps the invariant: the claims and the stock go together.
LEMMA EndMoveKeeps == ASSUME ClaimsInv, NEW p \in Workers, EndMove(p) PROVE ClaimsInv'
<1> DEFINE r == req[p]
           b == r.box
           tree == OpenTree(box, b)
           us == {u \in Units : unit[u].box \in r.tree}
           lost == {unit[u].box : u \in {u \in us : ~Carried(box, u, b)}}
           after == CloseIfEmpty(box, unit', lost)
           qty == MapThenSumSet(LAMBDA c : box[c].claim, tree)
           m == [kind |-> "TRANSFER", from |-> r.from, to |-> r.to, box |-> None,
                 site |-> None, reason |-> FALSE, qty |-> qty]
<1>1. /\ box \in [Boxes -> BoxRow] /\ unit \in [Units -> UnitRow] /\ mark \in Marks
      /\ balance \in [Inside \cup Outside -> Int]
      /\ gatein \in [GateIns -> {"DRAFT", "POSTED", "VOID"}] /\ DOMAIN req = Workers
      /\ Inventory(box, unit)
      /\ \A n \in Inside : ClaimedAt(box, n) <= balance[n]
      /\ stale \/ \A n \in Inside : Marked(mark, n) <= balance[n]
  BY InvHolds
<1>2. BoxesAsReceived /\ RequestsSound
  BY DEF ClaimsInv
<1>3. MoveSound(r)
  <2>1. req[p] # NoRequest /\ req[p].op = "MOVE"
    BY DEF EndMove
  <2>2. ~ VoidSound(req[p])
    BY <2>1 DEF VoidSound
  <2> QED BY <1>2, <2>1, <2>2 DEF RequestsSound
<1>4. /\ b \in Boxes /\ r.from \in Inside /\ r.to \in Inside /\ r.from # r.to
      /\ tree \subseteq r.tree
  BY <1>3 DEF MoveSound
<1>5. /\ box[b].status = "OPEN" /\ box[b].parent = None /\ box[b].node = r.from
      /\ \A u \in us : unit[u].node = r.from
      /\ balance[r.from] >= m.qty
      /\ unit' = [u \in Units |-> IF u \in us THEN UnitTo(u, r.to, b, unit[u].site) ELSE unit[u]]
      /\ box' = [c \in Boxes |-> [after[c] EXCEPT !.node = IF c \in tree THEN r.to ELSE @]]
      /\ balance' = Moved(balance, m)
      /\ mark' = MarksAfter(m)
  BY Zenon DEF EndMove
<1>6. req' = [RowsGone(mark') EXCEPT ![p] = NoRequest] /\ gatein' = gatein /\ stale' = stale
  BY Zenon DEF EndMove
<1>7. m.from = r.from /\ m.to = r.to /\ m.qty = qty /\ m.box = None /\ m.kind = "TRANSFER"
  OBVIOUS
<1>8. qty = MapThenSumSet(LAMBDA c : box[c].claim, tree) /\ us = {u \in Units : unit[u].box \in r.tree}
  OBVIOUS
<1>9. after = CloseIfEmpty(box, unit', lost)
  OBVIOUS
<1> DEFINE from == r.from
           to == r.to
<1> HIDE DEF r, b, tree, us, lost, after, qty, m, from, to
<1>10. /\ tree \subseteq Boxes /\ b \in tree
       /\ \A c \in tree : box[c].status = "OPEN" /\ box[c].node = from
       /\ \A c \in Boxes : box[c].status = "OPEN" /\ box[c].parent # None =>
             (c \in tree <=> box[c].parent \in tree)
  BY <1>4, <1>5, TreesStandTogether DEF tree, from
<1>11. \A u \in Units : Carried(box, u, b) /\ unit[u].box # None => unit[u].box \in tree
  <2> TAKE u \in Units
  <2> HAVE Carried(box, u, b) /\ unit[u].box # None
  <2>1. unit[u].box \in Boxes
    BY <1>1, UnitFields
  <2>2. box[unit[u].box].status = "OPEN"
    BY <1>1 DEF Inventory
  <2> QED BY <2>1, <2>2 DEF Carried, OpenTree, tree
<1>12. /\ unit' \in [Units -> UnitRow]
       /\ \A u \in Units :
             /\ u \in us => unit'[u].node = to /\ unit'[u].box = IF Carried(box, u, b) THEN unit[u].box ELSE None
             /\ u \notin us => unit'[u] = unit[u]
  <2> DEFINE new(u) == UnitTo(u, to, b, unit[u].site)
  <2>1. \A u \in Units : /\ new(u) \in UnitRow /\ new(u).node = to
                         /\ new(u).box = IF Carried(box, u, b) THEN unit[u].box ELSE None
    <3> TAKE u \in Units
    <3>1. unit[u].box \in Boxes \cup {None} /\ unit[u].site \in Sites \cup {None} /\ to \in Inside
      BY <1>1, <1>4, UnitFields DEF to
    <3> QED BY <3>1 DEF UnitTo, UnitRow
  <2>2. unit' = [u \in Units |-> IF u \in us THEN new(u) ELSE unit[u]]
    BY <1>5 DEF to
  <2> HIDE DEF new
  <2> QED BY <1>1, <2>1, <2>2
<1> DEFINE un == [u \in Units |-> [unit[u] EXCEPT !.box = unit'[u].box]]
<1>13. \A u \in Units : un[u].box = unit'[u].box /\ un[u].node = unit[u].node
  <2> TAKE u \in Units
  <2>1. unit[u] \in UnitRow
    BY <1>1
  <2> QED BY <2>1 DEF UnitRow
<1> HIDE DEF un
<1>14. Inventory(box, un)
  <2>1. \A u \in Units : un[u].box = None \/ (un[u].box = unit[u].box /\ un[u].node = unit[u].node)
    BY <1>12, <1>13
  <2> QED BY <1>1, <2>1, UnitsOutKeepInventory
<1>15. /\ after \in [Boxes -> BoxRow]
       /\ \A c \in Boxes :
             /\ after[c].node = box[c].node /\ after[c].parent = box[c].parent
             /\ after[c].depth = box[c].depth /\ after[c].claim = box[c].claim
             /\ after[c].status = IF c \in Emptied(box, unit', lost) THEN "CLOSED" ELSE box[c].status
  BY <1>1, <1>9, WhatClosingDoes
<1>16. \A c \in Emptied(box, unit', lost) : box[c].status = "OPEN" /\ box[c].claim = 0
  BY WhatIsEmptied
<1>17. Inventory(after, un)
  <2>1. \A u \in Units : un[u].box \in {None, unit'[u].box} /\ un[u].box \in Boxes \cup {None}
    BY <1>12, <1>13, UnitFields
  <2> QED BY <1>1, <1>9, <1>14, <2>1, ClosingKeepsInventory
<1>18. /\ box' \in [Boxes -> BoxRow]
       /\ \A c \in Boxes :
             /\ box'[c].status = after[c].status /\ box'[c].parent = after[c].parent
             /\ box'[c].depth = after[c].depth /\ box'[c].claim = after[c].claim
             /\ box'[c].node = IF c \in tree THEN to ELSE after[c].node
  <2> DEFINE new(c) == [after[c] EXCEPT !.node = IF c \in tree THEN to ELSE after[c].node]
  <2>1. box' = [c \in Boxes |-> new(c)]
    BY <1>5 DEF to
  <2>2. \A c \in Boxes : /\ new(c) \in BoxRow /\ new(c).status = after[c].status /\ new(c).parent = after[c].parent
                         /\ new(c).depth = after[c].depth /\ new(c).claim = after[c].claim
                         /\ new(c).node = IF c \in tree THEN to ELSE after[c].node
    <3> TAKE c \in Boxes
    <3>1. after[c] \in BoxRow /\ to \in Inside
      BY <1>4, <1>15 DEF to
    <3> QED BY <3>1 DEF BoxRow
  <2> HIDE DEF new
  <2> QED BY <2>1, <2>2
<1>19. Inventory(box', unit')
  <2>1. ASSUME NEW u \in Units, unit'[u].box # None
        PROVE  box'[unit'[u].box].status = "OPEN" /\ box'[unit'[u].box].node = unit'[u].node
    <3> DEFINE c == unit'[u].box
    <3>1. c \in Boxes /\ c = unit[u].box
      BY <1>12, <2>1, UnitFields
    <3>2. after[c].status = "OPEN" /\ after[c].node = unit[u].node
      BY <1>13, <1>17, <2>1 DEF Inventory
    <3>3. CASE u \in us
      <4>1. c \in tree
        BY <1>11, <1>12, <2>1, <3>1, <3>3
      <4> QED BY <1>12, <1>18, <3>1, <3>2, <3>3, <4>1
    <3>4. CASE u \notin us
      <4>1. c \notin tree
        BY <1>4, <1>8, <3>1, <3>4
      <4>2. unit'[u].node = unit[u].node
        BY <1>12, <3>4
      <4> QED BY <1>18, <3>1, <3>2, <4>1, <4>2
    <3> QED BY <3>3, <3>4
  <2>2. ASSUME NEW c \in Boxes, box'[c].status = "CLOSED" PROVE IsEmpty(box', unit', c)
    <3>1. IsEmpty(after, un, c)
      BY <1>17, <1>18, <2>2 DEF Inventory
    <3> QED BY <1>13, <1>18, <3>1 DEF IsEmpty
  <2>3. ASSUME NEW c \in Boxes, box'[c].status = "OPEN"
        PROVE  IF box'[c].parent = None THEN box'[c].depth = 1
               ELSE /\ box'[c].depth = box'[box'[c].parent].depth + 1
                    /\ box'[c].node = box'[box'[c].parent].node
    <3> DEFINE x == box[c].parent
    <3>1. /\ after[c].status = "OPEN" /\ box[c].status = "OPEN" /\ after[c].parent = x /\ box'[c].parent = x
          /\ x \in Boxes \cup {None}
      BY <1>1, <1>15, <1>18, <2>3, BoxFields
    <3>2. CASE x = None
      BY <1>17, <1>18, <3>1, <3>2 DEF Inventory
    <3>3. CASE x # None
      <4>1. /\ after[c].depth = after[x].depth + 1 /\ after[c].node = after[x].node /\ x \in Boxes
            /\ (c \in tree <=> x \in tree)
        BY <1>10, <1>17, <3>1, <3>3 DEF Inventory
      <4> QED BY <1>18, <3>1, <3>3, <4>1
    <3> QED BY <3>1, <3>2, <3>3
  <2> QED BY <2>1, <2>2, <2>3 DEF Inventory
<1>20. /\ qty \in Nat
       /\ ClaimedAt(box', from) = ClaimedAt(box, from) - qty
       /\ ClaimedAt(box', to) = ClaimedAt(box, to) + qty
       /\ \A n : n \notin {from, to} => ClaimedAt(box', n) = ClaimedAt(box, n)
  <2>1. tree \in SUBSET Boxes /\ from # to
    BY <1>4, <1>10 DEF from, to
  <2> DEFINE some == [c \in tree |-> box[c].claim]
  <2>a. qty = SumFun(some, tree)
    BY Zenon, <1>8, SumOfClaims
  <2>b. \A c \in tree : some[c] \in Int /\ ClaimOf(box)[c] = some[c]
    BY <1>1, <2>1, BoxFields DEF ClaimOf
  <2>c. IsFiniteSet(tree)
    BY <2>1, BoxesAreFinite, FS_Subset
  <2> HIDE DEF some
  <2>d. qty = SumFun(ClaimOf(box), tree)
    BY <2>a, <2>b, <2>c, SumSame
  <2>2. \A c \in Boxes :
           /\ box'[c].claim = box[c].claim
           /\ box'[c].status = box[c].status
              \/ (box[c].status = "OPEN" /\ box[c].claim = 0 /\ box'[c].status = "CLOSED")
           /\ box'[c].node = IF c \in tree THEN to ELSE box[c].node
    BY <1>15, <1>16, <1>18
  <2>3. \A c \in tree : box[c].status = "OPEN" /\ box[c].node = from
    BY <1>10
  <2>4. GoAlong(box, box', tree, from, to)
    BY <2>2, <2>3 DEF GoAlong
  <2> QED BY <1>1, <1>18, <2>1, <2>d, <2>4, ClaimsGoAlong
<1>21. /\ m.from \in Inside \cup Outside /\ m.to \in Inside \cup Outside /\ m.from # m.to /\ m.qty \in Nat
       /\ m.from \in Inside /\ m.from = from /\ m.to = to /\ m.qty = qty /\ to \in Inside
  BY <1>4, <1>7, <1>20 DEF from, to
<1>22. /\ balance' \in [Inside \cup Outside -> Int]
       /\ balance'[from] = balance[from] - qty
       /\ balance'[to] = balance[to] + qty
       /\ \A n \in Inside \cup Outside : n \notin {from, to} => balance'[n] = balance[n]
  BY <1>1, <1>5, <1>21, WhatMoves
<1>23. \A n \in Inside : ClaimedAt(box', n) <= balance'[n]
  <2> TAKE n \in Inside
  <2>1. ClaimedAt(box, n) <= balance[n] /\ balance[n] \in Int /\ ClaimedAt(box, n) \in Nat
    BY <1>1, ClaimedIsSum
  <2>2. CASE n = from
    BY <1>20, <1>22, <2>1, <2>2
  <2>3. CASE n = to
    BY <1>20, <1>22, <2>1, <2>3
  <2>4. CASE n \notin {from, to}
    BY <1>20, <1>22, <2>1, <2>4
  <2> QED BY <2>2, <2>3, <2>4
<1>24. mark' \in Marks /\ \A n \in Inside : Marked(mark, n) <= balance[n] => Marked(mark', n) <= balance'[n]
  <2>1. mark' = MarksAfter(m) /\ balance' = Moved(balance, m) /\ m.qty <= balance[m.from]
    <3>1. balance[from] >= m.qty /\ balance[from] \in Int
      BY <1>1, <1>4, <1>5 DEF from
    <3> QED BY <1>5, <1>21, <3>1
  <2> QED BY <1>1, <1>21, <2>1, MarksAfterAMovement
<1>25. BoxesStay(box, box')
  <2>1. \A c \in Boxes : box[c].status # "NONE" => box[c].node \in Inside
    BY <1>2, BoxesAreInside
  <2>2. to \in Inside
    BY <1>4 DEF to
  <2> QED BY <1>15, <1>16, <1>18, <2>1, <2>2 DEF BoxesStay
<1>26. /\ SameGateIns /\ gatein' \in [GateIns -> {"DRAFT", "POSTED", "VOID"}]
       /\ \A q \in Workers : GoesOn(req'[q], req[q])
       /\ DOMAIN req' = Workers
  <2>1. \A q \in Workers : req'[q] = NoRequest \/ req'[q] = RowsGone(mark')[q]
    BY <1>6 DEF RowsGone
  <2>2. \A q \in Workers : GoesOn(RowsGone(mark')[q], req[q])
    BY RowsGoneGoOn
  <2>3. \A q \in Workers : GoesOn(req'[q], req[q])
    BY <2>1, <2>2 DEF GoesOn
  <2>4. DOMAIN req' = Workers
    BY <1>6 DEF RowsGone
  <2> QED BY <1>1, <1>6, <2>3, <2>4 DEF SameGateIns
<1>27. stale' \/ \A n \in Inside : Marked(mark', n) <= balance'[n]
  BY <1>1, <1>6, <1>24
<1> QED BY <1>12, <1>18, <1>19, <1>22, <1>23, <1>24, <1>25, <1>26, <1>27, StepLeaves

-----------------------------------------------------------------------------
(* The theorems.                                                           *)

\* An empty yard satisfies the invariant.
LEMMA ClaimsInitInv == ASSUME ClaimsInit PROVE ClaimsInv
<1>1. /\ box = [b \in Boxes |-> NoBox]
      /\ unit = [u \in Units |-> [node |-> External, box |-> None, site |-> None]]
      /\ balance = [n \in Inside \cup Outside |-> 0]
      /\ mark = [s \in Sites |-> [n \in Inside |-> 0]]
      /\ gatein = [g \in GateIns |-> "DRAFT"] /\ req = [p \in Workers |-> NoRequest]
  BY DEF ClaimsInit
<1>2. NoBox \in BoxRow /\ NoBox.status = "NONE"
  BY DEF NoBox, BoxRow
<1>3. External \in Outside /\ None \notin Boxes
  BY ClaimsAssumption
<1>4. RowsAreRows
  BY <1>1, <1>2, <1>3 DEF RowsAreRows, UnitRow
<1>5. \A b \in Boxes : box[b].status = "NONE"
  BY <1>1, <1>2
<1>6. BoxesAsReceived
  <2>1. \A g \in GateIns : gatein[g] = "DRAFT"
    BY <1>1
  <2> QED BY <1>5, <2>1 DEF BoxesAsReceived
<1>7. RequestsSound
  BY <1>1 DEF RequestsSound
<1>8. ContentsAreWithTheirBox
  <2>1. \A u \in Units : unit[u].box = None
    BY <1>1
  <2> QED BY <1>5, <2>1 DEF ContentsAreWithTheirBox
<1>9. BoxClaimsAreBacked
  <2> SUFFICES ASSUME NEW n \in Inside PROVE ClaimedAt(box, n) <= balance[n]
    BY DEF BoxClaimsAreBacked
  <2> DEFINE f == ClaimThere(box, n)
  <2>1. ClaimedAt(box, n) = SumFun(f, Boxes)
    BY <1>4, ClaimedIsSum DEF RowsAreRows
  <2>2. \A b \in Boxes : f[b] = 0
    BY <1>5 DEF ClaimThere
  <2> HIDE DEF f
  <2>3. SumFun(f, Boxes) = 0
    BY <2>2, BoxesAreFinite, SumZero
  <2> QED BY <1>1, <2>1, <2>3
<1>10. EarmarksAreBacked
  <2> SUFFICES ASSUME NEW n \in Inside PROVE Marked(mark, n) <= balance[n]
    BY DEF EarmarksAreBacked
  <2> DEFINE f == KeptAt(mark, n)
  <2>1. \A s \in Sites : f[s] = 0
    BY <1>1 DEF KeptAt
  <2> HIDE DEF f
  <2>2. SumFun(f, Sites) = 0
    BY <2>1, BoxesAreFinite, SumZero
  <2> QED BY <1>1, <2>2 DEF Marked, f
<1>11. EarmarksBackedUnlessStale
  BY <1>4, <1>10, EarmarksReadTheSame
<1> QED BY <1>4, <1>6, <1>7, <1>8, <1>9, <1>11 DEF ClaimsInv

\* Every step keeps the invariant.
LEMMA ClaimsNextInv == ASSUME ClaimsInv, [ClaimsNext]_claimsVars PROVE ClaimsInv'
<1>1. ASSUME NEW g \in GateIns, Receive(g) PROVE ClaimsInv'
  BY <1>1, ReceiveKeeps
<1>2. ASSUME NEW m \in Movements, Move(m) PROVE ClaimsInv'
  BY <1>2, MoveKeeps
<1>3. ASSUME NEW u \in Units, NEW n \in (Inside \cup Outside) \ {External}, NEW s \in Sites \cup {None},
             NEW r \in BOOLEAN, MoveUnit(u, n, s, r)
      PROVE  ClaimsInv'
  BY <1>3, MoveUnitKeeps
<1>4. ASSUME NEW b \in Boxes, EmptyBox(b) PROVE ClaimsInv'
  BY <1>4, EmptyBoxKeeps
<1>5. ASSUME NEW b \in Boxes, NEW us \in SUBSET Units, NEW q \in Quantities \cup {0}, NEW cs \in SUBSET Boxes,
             TakeOut(b, us, q, cs)
      PROVE  ClaimsInv'
  <2>1. q \in Nat
    BY ClaimsAssumption
  <2> QED BY <1>5, <2>1, TakeOutKeeps
<1>6. ASSUME NEW n \in Inside, NEW f \in Sites \cup {None}, NEW t \in Sites \cup {None}, NEW q \in Quantities,
             ChangeEarmark(n, f, t, q)
      PROVE  ClaimsInv'
  BY <1>6, ChangeEarmarkKeeps
<1>7. ASSUME NEW u \in Units, NEW t \in Sites \cup {None}, ChangeUnitEarmark(u, t) PROVE ClaimsInv'
  BY <1>7, ChangeUnitEarmarkKeeps
<1>8. ASSUME NEW p \in Workers, NEW b \in Boxes, NEW n \in Inside, BeginMove(p, b, n) PROVE ClaimsInv'
  BY <1>8, BeginMoveKeeps
<1>9. ASSUME NEW p \in Workers, NEW g \in GateIns, BeginVoid(p, g) PROVE ClaimsInv'
  BY <1>9, BeginVoidKeeps
<1>10. ASSUME NEW p \in Workers, EndMove(p) \/ EndVoid(p) \/ Abort(p) PROVE ClaimsInv'
  BY <1>10, EndMoveKeeps, EndVoidKeeps, AbortKeeps
<1>11. ASSUME UNCHANGED claimsVars PROVE ClaimsInv'
  <2>1. /\ box' = box /\ unit' = unit /\ balance' = balance /\ mark' = mark /\ gatein' = gatein
        /\ req' = req /\ stale' = stale
    BY <1>11 DEF claimsVars
  <2>2. SameGateIns /\ \A p \in Workers : GoesOn(req'[p], req[p])
    BY <2>1 DEF SameGateIns, GoesOn
  <2>3. BoxesStay(box, box')
    BY <2>1, BoxesAsTheyWere
  <2>4. /\ box \in [Boxes -> BoxRow] /\ unit \in [Units -> UnitRow] /\ mark \in Marks
        /\ balance \in [Inside \cup Outside -> Int]
        /\ gatein \in [GateIns -> {"DRAFT", "POSTED", "VOID"}] /\ DOMAIN req = Workers
        /\ Inventory(box, unit)
        /\ \A n \in Inside : ClaimedAt(box, n) <= balance[n]
        /\ stale \/ \A n \in Inside : Marked(mark, n) <= balance[n]
    BY InvHolds
  <2> QED BY <2>1, <2>2, <2>3, <2>4, StepLeaves
<1> QED BY <1>1, <1>2, <1>3, <1>4, <1>5, <1>6, <1>7, <1>8, <1>9, <1>10, <1>11 DEF ClaimsNext

\* The inductive invariant.
THEOREM ClaimsAreSound == ClaimsSpec => []ClaimsInv
<1>1. ClaimsInit => ClaimsInv
  BY ClaimsInitInv
<1>2. ClaimsInv /\ [ClaimsNext]_claimsVars => ClaimsInv'
  BY ClaimsNextInv
<1> QED BY <1>1, <1>2, PTL DEF ClaimsSpec

\* What is in an open box is where the box is, a closed one holds nothing, and every box is
\* as deep as it lies, through moves, releases, voids and boxes taken apart.
THEOREM ContentsStay == ClaimsSpec => []ContentsAreWithTheirBox
<1>1. ClaimsInv => ContentsAreWithTheirBox
  BY DEF ClaimsInv
<1> QED BY <1>1, ClaimsAreSound, PTL

\* P9: the open boxes at a node never claim more than it holds.
THEOREM ClaimsAreBacked == ClaimsSpec => []BoxClaimsAreBacked
<1>1. ClaimsInv => BoxClaimsAreBacked
  BY DEF ClaimsInv
<1> QED BY <1>1, ClaimsAreSound, PTL

\* No more is kept for sites than there is, unless a void wrote an earmark that had changed
\* since it was read.
THEOREM EarmarksAreCovered == ClaimsSpec => []EarmarksBackedUnlessStale
<1>1. ClaimsInv => EarmarksBackedUnlessStale
  BY DEF ClaimsInv
<1> QED BY <1>1, ClaimsAreSound, PTL

\* What is kept for a site, as a sum over the yard.
KeptIsSum == \A s \in Sites : KeptFor(s) = SumFun(mark[s], Inside)

\* The model sums it in the same way.
LEMMA KeptForIsASum == KeptIsSum
BY Zenon DEF KeptIsSum, KeptFor, SumFun

\* Earmarks with the same sums are kept for the same sites.
LEMMA KeptStays ==
    ASSUME \A s \in Sites : SumFun(mark'[s], Inside) = SumFun(mark[s], Inside)
    PROVE  \A s \in Sites : KeptFor(s)' = KeptFor(s)
<1>1. KeptIsSum'
  BY KeptForIsASum, PTL
<1> QED BY <1>1, KeptForIsASum DEF KeptIsSum

\* A step that moves stock within the yard keeps as much of it for each site.
LEMMA CarryingKeeps ==
    ASSUME ClaimsInv, ClaimsNext, \A n \in Outside : balance[n] = balance'[n], balance # balance'
    PROVE  \A s \in Sites : KeptFor(s)' = KeptFor(s)
<1>1. /\ mark \in Marks /\ balance \in [Inside \cup Outside -> Int] /\ RequestsSound
  BY InvHolds DEF ClaimsInv
<1>2. External \in Outside
  BY ClaimsAssumption
<1>3. ASSUME NEW m, m.from \in Inside \cup Outside, m.to \in Inside \cup Outside, m.from # m.to,
             m.qty \in Nat, balance' = Moved(balance, m)
      PROVE  m.qty > 0 /\ m.from \notin Outside /\ m.to \notin Outside
  <2>1. /\ balance' \in [Inside \cup Outside -> Int]
        /\ balance'[m.from] = balance[m.from] - m.qty
        /\ balance'[m.to] = balance[m.to] + m.qty
        /\ \A n \in Inside \cup Outside : n \notin {m.from, m.to} => balance'[n] = balance[n]
    BY <1>1, <1>3, WhatMoves
  <2>2. m.qty > 0
    <3>1. ASSUME m.qty = 0 PROVE balance' = balance
      <4>1. \A n \in Inside \cup Outside : balance'[n] = balance[n]
        BY <1>1, <1>3, <2>1, <3>1
      <4> QED BY <1>1, <2>1, <4>1
    <3> QED BY <1>3, <3>1
  <2>3. balance[m.from] \in Int /\ balance[m.to] \in Int
    BY <1>1, <1>3
  <2> QED BY <1>3, <2>1, <2>2, <2>3
<1>4. ASSUME NEW m, m.from \in Inside, m.to \in Inside, m.from # m.to, m.qty \in Nat, m.qty <= balance[m.from],
             m.kind # "CORRECTION", mark' = MarksAfter(m)
      PROVE  \A s \in Sites : KeptFor(s)' = KeptFor(s)
  <2>1. m.to \in Inside \cup Outside
    BY <1>4
  <2>2. \A s \in Sites : SumFun(mark'[s], Inside) = SumFun(mark[s], Inside)
    BY <1>1, <1>4, <2>1, MarksAfterAMovement
  <2> QED BY <2>2, KeptStays
<1>5. ASSUME NEW m \in Movements, Move(m) PROVE \A s \in Sites : KeptFor(s)' = KeptFor(s)
  <2>1. /\ m.from # m.to /\ balance[m.from] >= m.qty
        /\ mark' = IF m.from \in Inside THEN MarksAfter(m) ELSE mark
        /\ balance' = Moved(balance, m)
    BY Zenon, <1>5 DEF Move
  <2>2. /\ m.from \in Inside \cup Outside /\ m.to \in Inside \cup Outside /\ m.qty \in Nat
        /\ m.kind = "CORRECTION" => m.to = External
    BY MovementFields
  <2>3. m.from \notin Outside /\ m.to \notin Outside
    BY <1>3, <2>1, <2>2
  <2>4. m.from \in Inside /\ m.to \in Inside /\ m.kind # "CORRECTION" /\ mark' = MarksAfter(m)
    BY <1>2, <2>1, <2>2, <2>3
  <2>5. m.qty <= balance[m.from]
    BY <1>1, <2>1, <2>2
  <2> QED BY <1>4, <2>1, <2>2, <2>4, <2>5
<1>6. ASSUME NEW g \in GateIns, Receive(g) PROVE FALSE
  <2> DEFINE d == Delivery[g]
  <2>1. balance' = [balance EXCEPT ![d.at] = balance[d.at] + d.bulk, ![External] = @ - d.bulk]
    BY Zenon, <1>6 DEF Receive
  <2>2. d.at \in Inside /\ d.at # External /\ d.bulk \in Nat
    BY WhatIsReceived
  <2> HIDE DEF d
  <2>3. balance'[External] = balance[External] - d.bulk /\ balance[External] \in Int
    BY <1>1, <1>2, <2>1, <2>2
  <2>4. d.bulk = 0
    BY <1>2, <2>2, <2>3
  <2>5. balance' = balance
    BY <1>1, <1>2, <2>1, <2>2, <2>4
  <2> QED BY <2>5
<1>7. ASSUME NEW p \in Workers, EndMove(p) PROVE \A s \in Sites : KeptFor(s)' = KeptFor(s)
  <2> DEFINE r == req[p]
             m == [kind |-> "TRANSFER", from |-> r.from, to |-> r.to, box |-> None,
                   site |-> None, reason |-> FALSE,
                   qty |-> MapThenSumSet(LAMBDA c : box[c].claim, OpenTree(box, r.box))]
  <2>1. r.op = "MOVE" /\ balance[r.from] >= m.qty /\ balance' = Moved(balance, m) /\ mark' = MarksAfter(m)
    BY Zenon, <1>7 DEF EndMove
  <2>2. r.from \in Inside /\ r.to \in Inside /\ r.from # r.to /\ r.box \in Boxes
    <3>1. req[p] # NoRequest
      BY <1>7 DEF EndMove
    <3>2. MoveSound(r)
      BY <1>1, <2>1, <3>1 DEF RequestsSound, VoidSound
    <3> QED BY <3>2 DEF MoveSound
  <2>3. m.qty \in Nat
    <3> DEFINE tree == OpenTree(box, r.box)
               some == [c \in tree |-> box[c].claim]
    <3>1. m.qty = SumFun(some, tree)
      BY Zenon, SumOfClaims
    <3>2. tree \subseteq Boxes /\ box \in [Boxes -> BoxRow]
      BY <2>2, InvHolds DEF OpenTree
    <3>3. IsFiniteSet(tree) /\ \A c \in tree : some[c] \in Nat
      BY <3>2, BoxesAreFinite, FS_Subset, BoxFields
    <3> HIDE DEF some, tree
    <3>4. SumFun(some, tree) \in Nat
      BY <3>3, SumNonNegative
    <3> QED BY <3>1, <3>4
  <2>4. m.from = r.from /\ m.to = r.to /\ m.kind = "TRANSFER"
    OBVIOUS
  <2> HIDE DEF r, m
  <2>5. m.qty <= balance[m.from]
    BY <1>1, <2>1, <2>2, <2>3, <2>4
  <2> QED BY <1>4, <2>1, <2>2, <2>3, <2>4, <2>5
<1>8. ASSUME NEW p \in Workers, EndVoid(p) PROVE FALSE
  <2> DEFINE r == req[p]
             d == Delivery[r.gatein]
             qty == IF gatein[r.gatein] = "POSTED" THEN d.bulk ELSE 0
             m == [kind |-> "CORRECTION", from |-> d.at, to |-> External, qty |-> qty,
                   box |-> None, site |-> None, reason |-> FALSE]
  <2>1. r.op = "VOID" /\ balance' = Moved(balance, m)
    BY Zenon, <1>8 DEF EndVoid
  <2>2. r.gatein \in GateIns
    <3>1. req[p] # NoRequest
      BY <1>8 DEF EndVoid
    <3>2. VoidSound(r)
      BY <1>1, <2>1, <3>1 DEF RequestsSound, MoveSound
    <3> QED BY <3>2 DEF VoidSound
  <2>3. d.at \in Inside /\ d.at # External /\ d.bulk \in Nat
    BY <2>2, WhatIsReceived
  <2>4. m.from = d.at /\ m.to = External /\ m.qty \in Nat
    BY <2>3
  <2> HIDE DEF m, d
  <2> QED BY <1>2, <1>3, <2>1, <2>3, <2>4
<1>9. ASSUME UNCHANGED balance PROVE FALSE
  BY <1>9
<1>10. \/ \E g \in GateIns : Receive(g)
       \/ \E m \in Movements : Move(m)
       \/ \E p \in Workers : EndMove(p) \/ EndVoid(p)
       \/ UNCHANGED balance
  BY Zenon DEF ClaimsNext, MoveUnit, EmptyBox, TakeOut, ChangeEarmark, ChangeUnitEarmark, BeginMove,
        BeginVoid, Abort
<1> QED BY <1>5, <1>6, <1>7, <1>8, <1>9, <1>10

\* Moving stock about the yard, loose or in boxes, changes where it is kept for a site and
\* never how much.
THEOREM EarmarksAreCarried == ClaimsSpec => CarriedEarmarksSurvive
<1>1. ClaimsInv /\ [ClaimsNext]_claimsVars =>
         [(\A n \in Outside : balance[n] = balance'[n]) /\ balance # balance'
             => \A s \in Sites : KeptFor(s)' = KeptFor(s)]_claimsVars
  BY CarryingKeeps DEF claimsVars
<1> QED BY <1>1, ClaimsAreSound, PTL DEF ClaimsSpec, CarriedEarmarksSurvive

-----------------------------------------------------------------------------
(* Gate passes.                                                            *)


Fields == {"status", "deadline", "head", "gone", "reqs", "settled"}

Typed ==
    /\ DOMAIN doc = Passes
    /\ \A g \in Passes : Fields \subseteq DOMAIN doc[g]
    /\ overtaken \in [Passes -> BOOLEAN]
    /\ DOMAIN left = Passes

\* No request is of a later round than the last one.
InRounds(reqs) ==
    /\ reqs \in Seq(ApprovalRequest)
    /\ \A k \in DOMAIN reqs : reqs[k].round <= Round(reqs)

Unanswered(reqs) == {k \in DOMAIN reqs : reqs[k].status = "PENDING"}

\* What its status says of the requests of a pass.
Sound(d) ==
    /\ d.status \in Statuses
    /\ d.gone \in 0 .. Requested
    /\ InRounds(d.reqs)
    /\ Unanswered(d.reqs) # {} => d.status = "PENDING_APPROVAL"
    /\ d.status = "PENDING_APPROVAL" =>
          /\ OpenOf(d.reqs) # {}
          /\ \A k \in LastRound(d.reqs) : d.reqs[k].status \in Open \cup {"APPROVED"}
    /\ d.status \in Releasable =>
          /\ LastRound(d.reqs) # {}
          /\ \A k \in LastRound(d.reqs) : d.reqs[k].status = "APPROVED"

SoundPass(g) == Sound(doc[g]) /\ left[g] = doc[g].gone

IInv == Typed /\ \A g \in Passes : ~overtaken[g] => SoundPass(g)

USE NumbersAssumption

-----------------------------------------------------------------------------
(* The requests of a pass.                                                 *)

\* Whatever only changes the status of requests leaves their rounds alone.
LEMMA Relabelled ==
  ASSUME NEW reqs, InRounds(reqs), NEW new,
         new = [k \in DOMAIN reqs |-> new[k]],
         \A k \in DOMAIN reqs : new[k] \in ApprovalRequest /\ new[k].round = reqs[k].round
  PROVE  InRounds(new) /\ DOMAIN new = DOMAIN reqs /\ LastRound(new) = LastRound(reqs)
<1>1. reqs \in Seq(ApprovalRequest) /\ DOMAIN reqs = 1 .. Len(reqs) /\ Len(reqs) \in Nat
  BY DEF InRounds
<1>2. new \in [1 .. Len(reqs) -> ApprovalRequest]
  BY <1>1
<1>3. new \in Seq(ApprovalRequest)
  BY <1>1, <1>2, SeqDef
<1>4. DOMAIN new = DOMAIN reqs
  BY <1>1
<1>5. Len(new) = Len(reqs)
  BY <1>1, <1>3, <1>4, LenProperties
<1>6. Round(new) = Round(reqs)
  <2>1. CASE reqs = << >>
    <3>1. new = << >>
      BY <1>3, <1>5, <2>1
    <3> QED BY <2>1, <3>1 DEF Round
  <2>2. CASE reqs # << >>
    <3>1. Len(reqs) \in DOMAIN reqs /\ new # << >>
      BY <1>1, <1>3, <1>5, <2>2, EmptySeq
    <3> QED BY <1>5, <2>2, <3>1 DEF Round
  <2> QED BY <2>1, <2>2
<1> QED BY <1>3, <1>4, <1>6 DEF InRounds, LastRound

\* Superseding takes the requests of some statuses out of play.
LEMMA SupersedeMeans ==
  ASSUME NEW reqs, InRounds(reqs), NEW which
  PROVE  LET new == Supersede(reqs, which)
         IN  /\ InRounds(new) /\ DOMAIN new = DOMAIN reqs /\ LastRound(new) = LastRound(reqs)
             /\ \A k \in DOMAIN reqs :
                   new[k].status = IF reqs[k].status \in which THEN "SUPERSEDED"
                                                               ELSE reqs[k].status
<1> DEFINE new == Supersede(reqs, which)
<1>1. \A k \in DOMAIN reqs : reqs[k] \in ApprovalRequest
  BY DEF InRounds
<1>2. new = [k \in DOMAIN reqs |-> new[k]] /\ DOMAIN new = DOMAIN reqs
  BY DEF Supersede
<1>3. \A k \in DOMAIN reqs : new[k] = IF reqs[k].status \in which
                                      THEN [reqs[k] EXCEPT !.status = "SUPERSEDED"] ELSE reqs[k]
  BY DEF Supersede
<1> HIDE DEF new
<1>4. ASSUME NEW k \in DOMAIN reqs
      PROVE  /\ new[k] \in ApprovalRequest /\ new[k].round = reqs[k].round
             /\ new[k].status = IF reqs[k].status \in which THEN "SUPERSEDED"
                                                            ELSE reqs[k].status
  BY <1>1, <1>3 DEF ApprovalRequest, RequestStatuses
<1>5. InRounds(new) /\ LastRound(new) = LastRound(reqs)
  BY <1>2, <1>4, Relabelled
<1> QED BY <1>2, <1>4, <1>5 DEF new

\* An answer is given to one request.
LEMMA AnswerMeans ==
  ASSUME NEW reqs, InRounds(reqs), NEW k, NEW status \in RequestStatuses
  PROVE  LET new == Answer(reqs, k, status)
         IN  /\ InRounds(new) /\ DOMAIN new = DOMAIN reqs /\ LastRound(new) = LastRound(reqs)
             /\ \A m \in DOMAIN reqs : new[m].status = IF m = k THEN status ELSE reqs[m].status
<1> DEFINE new == Answer(reqs, k, status)
<1>1. \A m \in DOMAIN reqs : reqs[m] \in ApprovalRequest
  BY DEF InRounds
<1>2. new = [m \in DOMAIN reqs |-> new[m]] /\ DOMAIN new = DOMAIN reqs
  BY DEF Answer
<1>3. \A m \in DOMAIN reqs : new[m] = IF m = k THEN [reqs[m] EXCEPT !.status = status]
                                               ELSE reqs[m]
  BY DEF Answer
<1> HIDE DEF new
<1>4. ASSUME NEW m \in DOMAIN reqs
      PROVE  /\ new[m] \in ApprovalRequest /\ new[m].round = reqs[m].round
             /\ new[m].status = IF m = k THEN status ELSE reqs[m].status
  BY <1>1, <1>3 DEF ApprovalRequest
<1>5. InRounds(new) /\ LastRound(new) = LastRound(reqs)
  BY <1>2, <1>4, Relabelled
<1> QED BY <1>2, <1>4, <1>5 DEF new

\* Routing opens a round of its own after all others.
LEMMA RoutedMeans ==
  ASSUME NEW reqs, InRounds(reqs), NEW n \in Nat
  PROVE  LET new == Routed(reqs, n)
         IN  /\ InRounds(new) /\ DOMAIN reqs \subseteq DOMAIN new
             /\ \A k \in DOMAIN reqs : new[k] = reqs[k]
             /\ LastRound(new) = DOMAIN new \ DOMAIN reqs
             /\ LastRound(new) # {}
             /\ \A k \in LastRound(new) :
                   new[k].status = IF n = 0 THEN "APPROVED" ELSE "PENDING"
<1> DEFINE r == Round(reqs) + 1
           more == IF n = 0 THEN <<[level |-> 0, round |-> r, status |-> "APPROVED"]>>
                   ELSE [k \in 1 .. n |-> [level |-> k, round |-> r, status |-> "PENDING"]]
           count == IF n = 0 THEN 1 ELSE n
           new == reqs \o more
<1>1. reqs \in Seq(ApprovalRequest) /\ DOMAIN reqs = 1 .. Len(reqs) /\ Len(reqs) \in Nat
  BY DEF InRounds
<1>2. Round(reqs) \in Nat
  <2>1. CASE reqs = << >>
    BY <2>1 DEF Round
  <2>2. CASE reqs # << >>
    <3>1. reqs[Len(reqs)] \in ApprovalRequest
      BY <1>1, <2>2, EmptySeq
    <3> QED BY <2>2, <3>1 DEF Round, ApprovalRequest
  <2> QED BY <2>1, <2>2
<1>3. r \in Nat
  BY <1>2
<1>4. /\ more \in Seq(ApprovalRequest) /\ Len(more) = count /\ count \in Nat /\ count >= 1
      /\ \A k \in 1 .. count : /\ more[k].round = r
                               /\ more[k].status = IF n = 0 THEN "APPROVED" ELSE "PENDING"
  <2>1. CASE n = 0
    <3>1. [level |-> 0, round |-> r, status |-> "APPROVED"] \in ApprovalRequest
      BY <1>3 DEF ApprovalRequest, RequestStatuses
    <3> QED BY <2>1, <3>1
  <2>2. CASE n # 0
    <3>1. \A k \in 1 .. n : [level |-> k, round |-> r, status |-> "PENDING"] \in ApprovalRequest
      BY <1>3 DEF ApprovalRequest, RequestStatuses
    <3>2. more \in [1 .. n -> ApprovalRequest]
      BY <2>2, <3>1
    <3>3. more \in Seq(ApprovalRequest)
      BY <3>2, SeqDef
    <3>4. Len(more) = n
      BY <3>2, <3>3, LenProperties
    <3> QED BY <2>2, <3>3, <3>4
  <2> QED BY <2>1, <2>2
<1> HIDE DEF more, count, r
<1>5. /\ new \in Seq(ApprovalRequest) /\ Len(new) = Len(reqs) + count
      /\ \A k \in 1 .. Len(reqs) : new[k] = reqs[k]
      /\ \A k \in Len(reqs) + 1 .. Len(reqs) + count : new[k] = more[k - Len(reqs)]
  <2>1. /\ new \in Seq(ApprovalRequest) /\ Len(new) = Len(reqs) + Len(more)
        /\ \A i \in 1 .. Len(reqs) + Len(more) :
              new[i] = IF i <= Len(reqs) THEN reqs[i] ELSE more[i - Len(reqs)]
    BY <1>1, <1>4, ConcatProperties
  <2>2. \A k \in 1 .. Len(reqs) : k \in 1 .. Len(reqs) + Len(more) /\ k <= Len(reqs)
    BY <1>1, <1>4
  <2>3. \A k \in Len(reqs) + 1 .. Len(reqs) + count :
           k \in 1 .. Len(reqs) + Len(more) /\ ~ (k <= Len(reqs))
    BY <1>1, <1>4
  <2> QED BY <1>4, <2>1, <2>2, <2>3
<1>6. DOMAIN new = 1 .. Len(reqs) + count
  BY <1>4, <1>5
<1> HIDE DEF new
<1>7. ASSUME NEW k \in Len(reqs) + 1 .. Len(reqs) + count
      PROVE  new[k].round = r /\ new[k].status = IF n = 0 THEN "APPROVED" ELSE "PENDING"
  <2>1. k - Len(reqs) \in 1 .. count
    BY <1>1, <1>4
  <2> QED BY <1>4, <1>5, <2>1
<1>8. Round(new) = r
  <2>1. Len(new) \in Len(reqs) + 1 .. Len(reqs) + count /\ new # << >>
    BY <1>1, <1>4, <1>5
  <2> QED BY <1>7, <2>1 DEF Round
<1>9. \A k \in 1 .. Len(reqs) : new[k].round < r
  <2> TAKE k \in 1 .. Len(reqs)
  <2>1. reqs[k].round <= Round(reqs) /\ reqs[k].round \in Nat
    <3>1. reqs[k] \in ApprovalRequest /\ k \in DOMAIN reqs
      BY <1>1
    <3> QED BY <3>1 DEF InRounds, ApprovalRequest
  <2> QED BY <1>2, <1>5, <2>1 DEF r
<1>10. LastRound(new) = Len(reqs) + 1 .. Len(reqs) + count
  BY <1>1, <1>3, <1>4, <1>6, <1>7, <1>8, <1>9 DEF LastRound
<1>11. InRounds(new)
  <2> SUFFICES ASSUME NEW k \in DOMAIN new PROVE new[k].round <= r
    BY <1>5, <1>8 DEF InRounds
  <2>1. new[k].round \in Nat
    <3>1. new[k] \in ApprovalRequest
      BY <1>5
    <3> QED BY <3>1 DEF ApprovalRequest
  <2> QED BY <1>1, <1>3, <1>4, <1>6, <1>7, <1>9, <2>1
<1>12. LastRound(new) = DOMAIN new \ DOMAIN reqs /\ LastRound(new) # {}
  <2>1. Len(reqs) + 1 \in LastRound(new)
    BY <1>1, <1>4, <1>10
  <2>2. \A k : k \in LastRound(new) <=> k \in DOMAIN new /\ k \notin DOMAIN reqs
    BY <1>1, <1>4, <1>6, <1>10
  <2> QED BY <2>1, <2>2
<1>13. Routed(reqs, n) = new
  BY DEF Routed, new, more, r
<1> QED BY <1>1, <1>4, <1>5, <1>6, <1>7, <1>10, <1>11, <1>12, <1>13

-----------------------------------------------------------------------------
(* The handlers.                                                           *)

Moves(s, t) ==
    s # t => \/ t \in AllowedTransitions[s]
             \/ "PENDING_APPROVAL" \in AllowedTransitions[s] /\ t = "APPROVED"

\* What a step does to a pass it has read in time.
GoodStep(g) ==
    /\ SoundPass(g)'
    /\ Moves(doc[g].status, doc'[g].status)
    /\ left'[g] # left[g] => doc[g].status \in Releasable

\* The parts of the map that the arguments need.
LEMMA TheMap ==
  /\ \A s \in {"DRAFT", "REJECTED", "EXPIRED", "APPROVED"} :
        "PENDING_APPROVAL" \in AllowedTransitions[s]
  /\ "EXPIRED" \in AllowedTransitions["APPROVED"]
  /\ "APPROVED" \in AllowedTransitions["PENDING_APPROVAL"]
  /\ \A s \in Statuses : "APPROVED" \in AllowedTransitions[s] => s = "PENDING_APPROVAL"
  /\ \A s \in Statuses : "CLOSED" \in AllowedTransitions[s] => s # "PENDING_APPROVAL"
BY DEF AllowedTransitions, Statuses

\* A handler touches its pass alone, and knows when it is late.
LEMMA Framed ==
  ASSUME Typed, NEW p \in Procs, NEW g \in Passes, Handler(p, g)
  PROVE  /\ Typed'
         /\ \A h \in Passes \ {g} : /\ doc'[h] = doc[h] /\ left'[h] = left[h]
                                    /\ overtaken'[h] = overtaken[h]
         /\ ~overtaken'[g] => ~overtaken[g] /\ doc[g] = Copy(p)
<1>1. Commit(p, g)
  BY DEF Handler, Submit, Approve, Reject, Amend, Cancel, Release, Close, Edit
<1>2. /\ overtaken' \in [Passes -> BOOLEAN]
      /\ \A h \in Passes \ {g} : overtaken'[h] = overtaken[h]
      /\ ~overtaken'[g] => ~overtaken[g] /\ doc[g] = Copy(p)
  BY <1>1 DEF Commit, Typed
<1>3. /\ DOMAIN doc' = Passes
      /\ \A h \in Passes \ {g} : doc'[h] = doc[h]
      /\ DOMAIN doc'[g] = DOMAIN doc[g]
  <2>1. CASE Submit(p, g) \/ Amend(p, g)
    BY <2>1 DEF Submit, Amend, Route, Typed
  <2>2. CASE Approve(p, g)
    BY <2>2 DEF Approve, Typed
  <2>3. CASE Reject(p, g) \/ Cancel(p, g) \/ Close(p, g)
    BY <2>3 DEF Reject, Cancel, Close, Typed
  <2>4. CASE Release(p, g)
    BY <2>4 DEF Release, Typed
  <2>5. CASE Edit(p, g)
    BY <2>5 DEF Edit, Typed
  <2> QED BY <2>1, <2>2, <2>3, <2>4, <2>5 DEF Handler
<1>4. DOMAIN left' = Passes /\ \A h \in Passes \ {g} : left'[h] = left[h]
  BY DEF Handler, Submit, Approve, Reject, Amend, Cancel, Release, Close, Edit, Typed
<1> QED BY <1>2, <1>3, <1>4 DEF Typed

\* Submitting and amending ask again.
LEMMA RouteIsGood ==
  ASSUME Typed, NEW g \in Passes, SoundPass(g), NEW c, NEW reqs, NEW n \in LevelCounts,
         InRounds(reqs), Unanswered(reqs) = {}, Route(g, c, reqs, n),
         "PENDING_APPROVAL" \in AllowedTransitions[doc[g].status]
            \/ doc[g].status = "PENDING_APPROVAL",
         left' = left
  PROVE  GoodStep(g)
<1>1. n \in Nat
  OBVIOUS
<1> DEFINE new == Routed(reqs, n)
<1>2. /\ doc'[g].reqs = new
      /\ doc'[g].status = IF n = 0 THEN "APPROVED" ELSE "PENDING_APPROVAL"
      /\ doc'[g].gone = doc[g].gone
  BY DEF Route, Typed, Fields
<1>3. /\ InRounds(new) /\ DOMAIN reqs \subseteq DOMAIN new
      /\ \A k \in DOMAIN reqs : new[k] = reqs[k]
      /\ LastRound(new) = DOMAIN new \ DOMAIN reqs
      /\ LastRound(new) # {}
      /\ \A k \in LastRound(new) : new[k].status = IF n = 0 THEN "APPROVED" ELSE "PENDING"
  BY <1>1, RoutedMeans
<1> HIDE DEF new
<1>4. n # 0 => OpenOf(new) # {}
  BY <1>3 DEF OpenOf, Open, LastRound
<1>5. n = 0 => Unanswered(new) = {}
  BY <1>3 DEF Unanswered
<1>6. Sound(doc'[g])
  BY <1>2, <1>3, <1>4, <1>5 DEF Sound, SoundPass, Statuses, Releasable, Open
<1>7. Moves(doc[g].status, doc'[g].status)
  BY <1>2, TheMap DEF Moves
<1> QED BY <1>2, <1>6, <1>7 DEF GoodStep, SoundPass

\* submit_gate_out starts from a status in which nobody is asked.
LEMMA SubmitIsGood ==
  ASSUME Typed, NEW p \in Procs, NEW g \in Passes, SoundPass(g), doc[g] = Copy(p), Submit(p, g)
  PROVE  GoodStep(g)
<1>1. PICK n \in LevelCounts : Route(g, Copy(p), doc[g].reqs, n)
  BY DEF Submit
<1>2. doc[g].status \in {"DRAFT", "REJECTED", "EXPIRED"} /\ left' = left
  BY DEF Submit
<1>3. InRounds(doc[g].reqs) /\ Unanswered(doc[g].reqs) = {}
  BY <1>2 DEF SoundPass, Sound
<1> QED BY <1>1, <1>2, <1>3, TheMap, RouteIsGood

\* amend_gate_out withdraws every question first.
LEMMA AmendIsGood ==
  ASSUME Typed, NEW p \in Procs, NEW g \in Passes, SoundPass(g), doc[g] = Copy(p), Amend(p, g)
  PROVE  GoodStep(g)
<1>1. PICK n \in LevelCounts :
         Route(g, [Copy(p) EXCEPT !.deadline = FALSE], Voided(doc[g].reqs), n)
  BY DEF Amend
<1>2. doc[g].status \in {"REJECTED", "APPROVED", "PENDING_APPROVAL", "EXPIRED"} /\ left' = left
  BY DEF Amend
<1>3. InRounds(Voided(doc[g].reqs)) /\ Unanswered(Voided(doc[g].reqs)) = {}
  BY SupersedeMeans DEF SoundPass, Sound, Voided, Unanswered, Open
<1> QED BY <1>1, <1>2, <1>3, TheMap, RouteIsGood

\* approve_gate_out: when nobody is left to ask, the whole last round has approved.
LEMMA ApproveIsGood ==
  ASSUME Typed, NEW p \in Procs, NEW g \in Passes, SoundPass(g), doc[g] = Copy(p), Approve(p, g)
  PROVE  GoodStep(g)
<1> DEFINE old == doc[g].reqs
           k == NextPending(Copy(p).reqs)
           new == Answer(old, k, "APPROVED")
<1>1. InRounds(old)
  BY DEF SoundPass, Sound
<1>2. /\ InRounds(new) /\ DOMAIN new = DOMAIN old /\ LastRound(new) = LastRound(old)
      /\ \A m \in DOMAIN old : new[m].status = IF m = k THEN "APPROVED" ELSE old[m].status
  BY <1>1, AnswerMeans DEF RequestStatuses
<1>3. doc'[g].reqs = new /\ doc'[g].gone = doc[g].gone /\ left' = left
  BY DEF Approve, Typed, Fields
<1>4. \/ /\ OpenOf(new) = {} /\ doc'[g].status = "APPROVED"
         /\ "APPROVED" \in AllowedTransitions[doc[g].status]
      \/ OpenOf(new) # {} /\ doc'[g].status = doc[g].status
  BY DEF Approve, Approves, MayBecome, Typed, Fields
<1> HIDE DEF k, new
<1>5. LastRound(new) \subseteq DOMAIN new
  BY DEF LastRound
<1>6. Unanswered(new) \subseteq Unanswered(old)
  BY <1>2 DEF Unanswered
<1>7. CASE OpenOf(new) = {} /\ doc'[g].status = "APPROVED"
           /\ "APPROVED" \in AllowedTransitions[doc[g].status]
  <2>1. doc[g].status = "PENDING_APPROVAL"
    BY <1>7, TheMap DEF SoundPass, Sound
  <2>2. Unanswered(new) = {}
    BY <1>7 DEF OpenOf, Unanswered, Open
  <2>3. LastRound(new) # {}
    <3>1. PICK m \in DOMAIN old : TRUE
      BY <2>1 DEF SoundPass, Sound, OpenOf
    <3>2. old \in Seq(ApprovalRequest) /\ old # << >>
      BY <1>1, <3>1 DEF InRounds
    <3>3. Len(old) \in DOMAIN old
      BY <3>2, EmptySeq, LenProperties
    <3> QED BY <1>2, <3>2, <3>3 DEF LastRound, Round
  <2>4. \A m \in LastRound(new) : new[m].status = "APPROVED"
    <3> TAKE m \in LastRound(new)
    <3>1. old[m].status \in Open \cup {"APPROVED"}
      BY <1>2, <2>1 DEF SoundPass, Sound
    <3>2. new[m].status \notin Open
      BY <1>5, <1>7 DEF OpenOf
    <3> QED BY <1>2, <1>5, <3>1, <3>2
  <2>5. Sound(doc'[g])
    BY <1>2, <1>3, <1>7, <2>2, <2>3, <2>4 DEF Sound, SoundPass, Statuses
  <2> QED BY <1>3, <1>7, <2>5 DEF GoodStep, SoundPass, Moves
<1>8. CASE OpenOf(new) # {} /\ doc'[g].status = doc[g].status
  <2>1. Sound(doc'[g])
    BY <1>2, <1>3, <1>5, <1>6, <1>8 DEF Sound, SoundPass, Open
  <2> QED BY <1>3, <1>8, <2>1 DEF GoodStep, SoundPass, Moves
<1> QED BY <1>4, <1>7, <1>8

\* reject_gate_out: what is left open is not PENDING.
LEMMA RejectIsGood ==
  ASSUME Typed, NEW p \in Procs, NEW g \in Passes, SoundPass(g), doc[g] = Copy(p), Reject(p, g)
  PROVE  GoodStep(g)
<1> DEFINE k == NextPending(Copy(p).reqs)
           mid == Answer(doc[g].reqs, k, "REJECTED")
           new == Moot(mid)
<1>1. /\ doc'[g].reqs = new /\ doc'[g].status = "REJECTED" /\ doc'[g].gone = doc[g].gone
      /\ left' = left /\ "REJECTED" \in AllowedTransitions[doc[g].status]
  BY DEF Reject, MayBecome, Typed, Fields
<1>2. InRounds(mid)
  BY AnswerMeans DEF SoundPass, Sound, RequestStatuses
<1> HIDE DEF mid
<1>3. InRounds(new) /\ Unanswered(new) = {}
  BY <1>2, SupersedeMeans DEF Moot, Unanswered
<1> HIDE DEF new
<1>4. Sound(doc'[g])
  BY <1>1, <1>3 DEF Sound, SoundPass, Statuses, Releasable
<1> QED BY <1>1, <1>4 DEF GoodStep, SoundPass, Moves

\* cancel_gate_out asks nobody any more.
LEMMA CancelIsGood ==
  ASSUME Typed, NEW p \in Procs, NEW g \in Passes, SoundPass(g), doc[g] = Copy(p), Cancel(p, g)
  PROVE  GoodStep(g)
<1> DEFINE new == Supersede(doc[g].reqs, Open)
<1>1. /\ doc'[g].reqs = new /\ doc'[g].status = "CANCELLED" /\ doc'[g].gone = doc[g].gone
      /\ left' = left /\ "CANCELLED" \in AllowedTransitions[doc[g].status]
  BY DEF Cancel, MayBecome, Typed, Fields
<1>2. InRounds(new) /\ Unanswered(new) = {}
  BY SupersedeMeans DEF SoundPass, Sound, Unanswered, Open
<1> HIDE DEF new
<1>3. Sound(doc'[g])
  BY <1>1, <1>2 DEF Sound, SoundPass, Statuses, Releasable
<1> QED BY <1>1, <1>3 DEF GoodStep, SoundPass, Moves

\* release_gate_out: what leaves is what is still outstanding, or less.
LEMMA ReleaseIsGood ==
  ASSUME Typed, NEW p \in Procs, NEW g \in Passes, SoundPass(g), doc[g] = Copy(p), Release(p, g)
  PROVE  GoodStep(g)
<1>1. PICK q \in LoadsOf(Copy(p)) :
         LET total == Total(Copy(p), q)
             status == IF total >= Requested THEN "RELEASED" ELSE "PARTIALLY_RELEASED"
         IN  /\ MayBecome(Copy(p), status)
             /\ left' = [left EXCEPT ![g] = @ + q]
             /\ doc' = [doc EXCEPT ![g].status = status, ![g].gone = IF q = 0 THEN @ ELSE total]
  BY DEF Release
<1>2. /\ q \in 0 .. (Requested - doc[g].gone)
      /\ left' = [left EXCEPT ![g] = @ + q]
      /\ doc'[g].status \in {"RELEASED", "PARTIALLY_RELEASED"}
      /\ doc'[g].status \in AllowedTransitions[doc[g].status]
      /\ doc'[g].gone = IF q = 0 THEN doc[g].gone ELSE doc[g].gone + q
      /\ doc'[g].reqs = doc[g].reqs
  BY <1>1 DEF LoadsOf, Total, MayBecome, Typed, Fields
<1>3. doc[g].status \in Releasable
  BY DEF Release, IsReleasable, Copy
<1>4. doc'[g].gone \in 0 .. Requested /\ left'[g] = doc'[g].gone
  BY <1>2 DEF SoundPass, Sound, Typed
<1>5. Sound(doc'[g])
  BY <1>2, <1>3, <1>4 DEF Sound, SoundPass, Statuses, Releasable
<1> QED BY <1>2, <1>3, <1>4, <1>5 DEF GoodStep, SoundPass, Moves

\* close_gate_out closes what nobody is asked about.
LEMMA CloseIsGood ==
  ASSUME Typed, NEW p \in Procs, NEW g \in Passes, SoundPass(g), doc[g] = Copy(p), Close(p, g)
  PROVE  GoodStep(g)
<1>1. /\ doc'[g].reqs = doc[g].reqs /\ doc'[g].status = "CLOSED" /\ doc'[g].gone = doc[g].gone
      /\ left' = left /\ "CLOSED" \in AllowedTransitions[doc[g].status]
  BY DEF Close, MayBecome, Typed, Fields
<1>2. Sound(doc'[g])
  BY <1>1, TheMap DEF Sound, SoundPass, Statuses, Releasable
<1> QED BY <1>1, <1>2 DEF GoodStep, SoundPass, Moves

\* A PATCH writes back the status it has read.
LEMMA EditIsGood ==
  ASSUME Typed, NEW p \in Procs, NEW g \in Passes, SoundPass(g), doc[g] = Copy(p), Edit(p, g)
  PROVE  GoodStep(g)
<1>1. /\ doc'[g].reqs = doc[g].reqs /\ doc'[g].status = doc[g].status
      /\ doc'[g].gone = doc[g].gone /\ left' = left
  BY DEF Edit, Typed, Fields
<1> QED BY <1>1 DEF GoodStep, SoundPass, Sound, Moves

\* The nightly expiry of a pass that is still approved and late.
LEMMA SweepIsGood ==
  ASSUME Typed, NEW g \in Passes, SoundPass(g), Sweep, ~overtaken'[g]
  PROVE  GoodStep(g)
<1>1. CASE g \in Reached(sweep)
  <2>1. doc[g].status = "APPROVED"
    BY <1>1 DEF Sweep, Stale
  <2>2. /\ doc'[g].reqs = doc[g].reqs /\ doc'[g].status = "EXPIRED"
        /\ doc'[g].gone = doc[g].gone /\ left' = left
    BY <1>1 DEF Sweep, Typed, Fields
  <2>3. Sound(doc'[g])
    BY <2>1, <2>2 DEF Sound, SoundPass, Statuses, Releasable
  <2> QED BY <2>1, <2>2, <2>3, TheMap DEF GoodStep, SoundPass, Moves
<1>2. CASE g \notin Reached(sweep)
  <2>1. doc'[g] = doc[g] /\ left' = left
    BY <1>2 DEF Sweep
  <2> QED BY <2>1 DEF GoodStep, SoundPass, Moves
<1> QED BY <1>1, <1>2

\* Escalation of requests that nobody has answered meanwhile.
LEMMA EscalateIsGood ==
  ASSUME Typed, NEW g \in Passes, SoundPass(g), Escalate(g), ~overtaken'[g]
  PROVE  GoodStep(g)
<1> DEFINE old == doc[g].reqs
           new == doc'[g].reqs
<1>1. /\ new = [k \in DOMAIN old |-> IF k \in unanswered[g]
                                     THEN [old[k] EXCEPT !.status = "ESCALATED"] ELSE old[k]]
      /\ doc'[g].status = doc[g].status /\ doc'[g].gone = doc[g].gone /\ left' = left
  BY DEF Escalate, Typed, Fields
<1>2. \A k \in unanswered[g] : old[k].status = "PENDING"
  BY DEF Escalate, Typed
<1>3. InRounds(old) /\ \A k \in DOMAIN old : old[k] \in ApprovalRequest
  BY DEF SoundPass, Sound, InRounds
<1> HIDE DEF new, old
<1>4. ASSUME NEW k \in DOMAIN old
      PROVE  /\ new[k] \in ApprovalRequest /\ new[k].round = old[k].round
             /\ \/ new[k].status = old[k].status
                \/ /\ old[k].status = "PENDING"
                   /\ new[k].status = "ESCALATED"
  <2>1. old[k] \in ApprovalRequest
    BY <1>3
  <2>2. CASE k \in unanswered[g]
    <3>1. new[k] = [old[k] EXCEPT !.status = "ESCALATED"]
      BY <1>1, <2>2
    <3> QED BY <1>2, <2>1, <2>2, <3>1 DEF ApprovalRequest, RequestStatuses
  <2>3. CASE k \notin unanswered[g]
    <3>1. new[k] = old[k]
      BY <1>1, <2>3
    <3> QED BY <2>1, <3>1
  <2> QED BY <2>2, <2>3
<1>5. new = [k \in DOMAIN old |-> new[k]]
  BY <1>1
<1>6. InRounds(new) /\ DOMAIN new = DOMAIN old /\ LastRound(new) = LastRound(old)
  BY <1>3, <1>4, <1>5, Relabelled
<1>7. /\ Unanswered(new) \subseteq Unanswered(old)
      /\ OpenOf(old) \subseteq OpenOf(new)
      /\ LastRound(old) \subseteq DOMAIN old
  BY <1>4, <1>6 DEF Unanswered, OpenOf, Open, LastRound
<1>8. Sound(doc'[g])
  <2>1. Unanswered(new) # {} => doc'[g].status = "PENDING_APPROVAL"
    BY <1>1, <1>7 DEF SoundPass, Sound, old
  <2>2. doc'[g].status = "PENDING_APPROVAL" =>
           /\ OpenOf(new) # {}
           /\ \A k \in LastRound(new) : new[k].status \in Open \cup {"APPROVED"}
    <3>1. doc[g].status = "PENDING_APPROVAL" =>
             /\ OpenOf(old) # {}
             /\ \A k \in LastRound(old) : old[k].status \in Open \cup {"APPROVED"}
      BY DEF SoundPass, Sound, old
    <3> QED BY <1>1, <1>4, <1>6, <1>7, <3>1 DEF Open
  <2>3. doc'[g].status \in Releasable =>
           /\ LastRound(new) # {}
           /\ \A k \in LastRound(new) : new[k].status = "APPROVED"
    <3>1. doc[g].status \in Releasable =>
             /\ LastRound(old) # {}
             /\ \A k \in LastRound(old) : old[k].status = "APPROVED"
      BY DEF SoundPass, Sound, old
    <3> QED BY <1>1, <1>4, <1>6, <1>7, <3>1
  <2> QED BY <1>1, <1>6, <2>1, <2>2, <2>3 DEF Sound, SoundPass, new
<1> QED BY <1>1, <1>8 DEF GoodStep, SoundPass, Moves

-----------------------------------------------------------------------------
(* The theorems.                                                           *)

\* A pass is written when nothing has left.
LEMMA IInvInit == Init => IInv
<1> SUFFICES ASSUME Init PROVE IInv
  OBVIOUS
<1>1. Typed
  BY DEF Init, Typed, Fields, Draft
<1>2. InRounds(Draft.reqs) /\ Unanswered(Draft.reqs) = {}
  BY DEF Draft, InRounds, Unanswered
<1>3. Sound(Draft)
  BY <1>2 DEF Sound, Draft, Statuses, Releasable
<1>4. \A g \in Passes : doc[g] = Draft /\ left[g] = Draft.gone
  BY DEF Init, Draft
<1> QED BY <1>1, <1>3, <1>4 DEF IInv, SoundPass

\* A handler that is not late takes a good step.
LEMMA HandlerIsGood ==
  ASSUME IInv, NEW p \in Procs, NEW g \in Passes, Handler(p, g), ~overtaken'[g]
  PROVE  GoodStep(g)
<1>1. Typed /\ SoundPass(g) /\ doc[g] = Copy(p)
  BY Framed DEF IInv
<1> QED BY <1>1, SubmitIsGood, ApproveIsGood, RejectIsGood, AmendIsGood, CancelIsGood,
           ReleaseIsGood, CloseIsGood, EditIsGood DEF Handler

\* Every step is good for every pass that is not overtaken.
LEMMA StepIsGood ==
  ASSUME IInv, [Next]_vars
  PROVE  Typed' /\ \A g \in Passes : ~overtaken'[g] => ~overtaken[g] /\ GoodStep(g)
<1>1. CASE \E p \in Procs, g \in Passes : Handler(p, g)
  <2>1. PICK p \in Procs, g \in Passes : Handler(p, g)
    BY <1>1
  <2>2. ASSUME NEW h \in Passes, ~overtaken'[h]
        PROVE  ~overtaken[h] /\ GoodStep(h)
    <3>1. CASE h = g
      BY <2>1, <2>2, <3>1, Framed, HandlerIsGood DEF IInv
    <3>2. CASE h # g
      <4>1. doc'[h] = doc[h] /\ left'[h] = left[h] /\ ~overtaken[h]
        BY <2>1, <2>2, <3>2, Framed DEF IInv
      <4> QED BY <4>1 DEF IInv, GoodStep, SoundPass, Moves
    <3> QED BY <3>1, <3>2
  <2> QED BY <2>1, <2>2, Framed DEF IInv
<1>2. CASE Sweep
  <2>1. Typed'
    BY <1>2 DEF Sweep, IInv, Typed
  <2>2. \A g \in Passes : ~overtaken'[g] => ~overtaken[g]
    BY <1>2 DEF Sweep, IInv, Typed
  <2> QED BY <1>2, <2>1, <2>2, SweepIsGood DEF IInv
<1>3. CASE \E g \in Passes : Escalate(g)
  <2>1. PICK g \in Passes : Escalate(g)
    BY <1>3
  <2>2. Typed'
    BY <2>1 DEF Escalate, IInv, Typed
  <2>3. \A h \in Passes : /\ ~overtaken'[h] => ~overtaken[h]
                          /\ h # g => doc'[h] = doc[h]
                          /\ left'[h] = left[h]
    BY <2>1 DEF Escalate, IInv, Typed
  <2>4. ASSUME NEW h \in Passes, ~overtaken'[h]
        PROVE  GoodStep(h)
    <3>1. CASE h = g
      BY <2>1, <2>3, <2>4, <3>1, EscalateIsGood DEF IInv
    <3>2. CASE h # g
      BY <2>3, <2>4, <3>2 DEF IInv, GoodStep, SoundPass, Moves
    <3> QED BY <3>1, <3>2
  <2> QED BY <2>2, <2>3, <2>4
<1>4. CASE \E g \in Passes : JobCloses(g)
  <2>1. PICK g \in Passes : JobCloses(g)
    BY <1>4
  <2>2. Typed'
    BY <2>1 DEF JobCloses, IInv, Typed
  <2>3. \A h \in Passes : /\ doc'[h].status = doc[h].status /\ doc'[h].gone = doc[h].gone
                          /\ doc'[h].reqs = doc[h].reqs
                          /\ left'[h] = left[h] /\ overtaken'[h] = overtaken[h]
    BY <2>1 DEF JobCloses, IInv, Typed, Fields
  <2> QED BY <2>2, <2>3 DEF IInv, GoodStep, SoundPass, Sound, Moves
<1>5. CASE \/ \E p \in Procs : Load(p) \/ Abandon(p)
           \/ \E g \in Passes : EscalateLoad(g) \/ TimePasses(g)
           \/ SweepLoad \/ UNCHANGED vars
  <2>1. UNCHANGED <<doc, left, overtaken>>
    BY <1>5 DEF Load, Abandon, EscalateLoad, TimePasses, SweepLoad, vars
  <2> QED BY <2>1 DEF IInv, Typed, GoodStep, SoundPass, Moves
<1> QED BY <1>1, <1>2, <1>3, <1>4, <1>5 DEF Next

\* The invariant is inductive.
LEMMA IInvNext == IInv /\ [Next]_vars => IInv'
BY StepIsGood DEF IInv, GoodStep

\* F7: never more than was asked for leaves (release_gate_out, dispatch/services.py).
THEOREM NeverOverTheRequest == Spec => []NeverOverUnlessOvertaken
<1>1. IInv => NeverOverUnlessOvertaken
  BY DEF IInv, SoundPass, Sound, NeverOverUnlessOvertaken
<1> QED BY <1>1, IInvInit, IInvNext, PTL DEF Spec

\* A pass waits exactly while there is somebody to ask (approvals/engine.py).
THEOREM WaitsWhileAsked == Spec => []WaitsForSomebody
<1>1. IInv => WaitsForSomebody
  BY DEF IInv, SoundPass, Sound, Unanswered, WaitsForSomebody
<1> QED BY <1>1, IInvInit, IInvNext, PTL DEF Spec

\* G1, F3, F6: what leaves has been approved at every level (dispatch/services.py).
THEOREM LeavesWhenApproved == Spec => LeavesApproved
<1>1. IInv /\ [Next]_vars
        => [\A g \in Passes : left'[g] # left[g] /\ ~overtaken'[g] =>
              /\ LastRound(doc[g].reqs) # {}
              /\ \A k \in LastRound(doc[g].reqs) : doc[g].reqs[k].status = "APPROVED"]_vars
  BY StepIsGood DEF IInv, GoodStep, SoundPass, Sound
<1> QED BY <1>1, IInvInit, IInvNext, PTL DEF Spec, LeavesApproved

\* The status follows ALLOWED_TRANSITIONS (dispatch/models.py).
THEOREM StaysOnTheMap == Spec => FollowsTheMap
<1>1. IInv /\ [Next]_vars
        => [\A g \in Passes :
              LET s == doc[g].status
                  t == doc'[g].status
              IN  ~overtaken'[g] /\ s # t =>
                    \/ t \in AllowedTransitions[s]
                    \/ /\ "PENDING_APPROVAL" \in AllowedTransitions[s]
                       /\ t = "APPROVED"]_vars
  BY StepIsGood DEF GoodStep, Moves
<1> QED BY <1>1, IInvInit, IInvNext, PTL DEF Spec, FollowsTheMap
=============================================================================
