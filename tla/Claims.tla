------------------------------- MODULE Claims -------------------------------
(***************************************************************************)
(* Boxes and earmarks (stock): what is claimed of the stock that lies in   *)
(* the yard.  A box holds tagged units and a claim on untagged stock; an   *)
(* earmark keeps stock for a site.  Neither is stock: both are projections *)
(* kept beside the ledger by the hooks of post_movement, by move_box,      *)
(* take_out, change_earmark and by the posting and voiding of gate-ins,    *)
(* which is the only place that makes boxes or puts anything in one.       *)
(*                                                                         *)
(* A transaction that decides under the locks it writes under is a single  *)
(* step.  move_box and void_gate_in read before they lock, and are two.    *)
(* One lot of untagged stock, and units that need no balance of their own. *)
(*                                                                         *)
(* Faulty variants of an operator (used by no action) stand just before it *)
(* and are marked F.                                                       *)
(***************************************************************************)
EXTENDS Integers, Sequences, FiniteSets, SequencesExt, FiniteSetsExt

CONSTANTS
    Inside, Outside,    \* nodes within the perimeter, and all others
    External,           \* the node deliveries come from
    Boxes, CodeOrder,   \* every box, and their codes in order
    Units,
    Sites, NameOrder,   \* every site, and their names in order
    None,               \* no box, no site, no node
    GateIns, Delivery,  \* each gate-in: what it receives, where, for whom, in which boxes
    Workers, NoRequest, \* web workers; one with nothing to do
    Quantities,         \* what a request asks for of the lot
    MaxRequests         \* how many requests a behaviour has

\* Codes and names are unique; each gate-in makes boxes of its own, as trees, and puts no
\* more in them than it receives (_check_boxes).
Ordered(order, S) == order \in Seq(S) /\ ToSet(order) = S /\ IsInjective(order)
Boxed(d) ==
    /\ \A u \in DOMAIN d.units : d.units[u] \in DOMAIN d.boxes \cup {None}
    /\ \A b \in DOMAIN d.boxes : LET in == d.boxes[b].parent IN
          /\ d.boxes[b].claim \in Nat /\ d.boxes[b].depth \in Nat
          /\ in \in DOMAIN d.boxes \cup {None}
          /\ d.boxes[b].depth = IF in = None THEN 1 ELSE d.boxes[in].depth + 1
    /\ MapThenSumSet(LAMBDA b : d.boxes[b].claim, DOMAIN d.boxes) <= d.bulk

ASSUME ClaimsAssumption ==
    /\ External \in Outside /\ Inside \cap Outside = {} /\ IsFiniteSet(Inside)
    /\ Ordered(CodeOrder, Boxes) /\ Ordered(NameOrder, Sites)
    /\ None \notin Boxes \cup Sites /\ Quantities \subseteq Nat \ {0}
    /\ \A g \in GateIns :
          /\ Delivery[g].at \in Inside /\ Delivery[g].site \in Sites \cup {None}
          /\ Delivery[g].bulk \in Nat
          /\ DOMAIN Delivery[g].units \subseteq Units
          /\ DOMAIN Delivery[g].boxes \subseteq Boxes /\ Boxed(Delivery[g])
          /\ \A h \in GateIns \ {g} : DOMAIN Delivery[g].boxes \cap DOMAIN Delivery[h].boxes = {}

VARIABLES
    box,        \* of each box: status, node, parent, depth, and its claim
    unit,       \* of each unit: its node, its box, and the site it is kept for
    balance,    \* the lot's balance at each node
    mark,       \* how much of it is kept for a site, at a node
    gatein,     \* the status of each gate-in
    req,        \* of each web worker: the request it is in
    stale,      \* history: a void wrote an earmark it had read too early
    coming      \* requests that may still come

claimsVars == <<box, unit, balance, mark, gatein, req, stale, coming>>

NoBox == [status |-> "NONE", node |-> None, parent |-> None, depth |-> 0, claim |-> 0]

ClaimsInit ==
    /\ box = [b \in Boxes |-> NoBox]
    /\ unit = [u \in Units |-> [node |-> External, box |-> None, site |-> None]]
    /\ balance = [n \in Inside \cup Outside |-> 0]
    /\ mark = [s \in Sites |-> [n \in Inside |-> 0]]
    /\ gatein = [g \in GateIns |-> "DRAFT"]
    /\ req = [p \in Workers |-> NoRequest]
    /\ stale = FALSE
    /\ coming = MaxRequests

Spend == coming > 0 /\ coming' = coming - 1

Lower(x, y) == IF x < y THEN x ELSE y
Above0(x) == IF x < 0 THEN 0 ELSE x

\* What each of the claims c[x], x \in S, loses when they are drawn on in order.
Drawn(S, c, order, need) ==
    LET ahead(x) == {y \in S : \E i, j \in DOMAIN order :
                                  order[i] = y /\ order[j] = x /\ i < j}
    IN  [x \in DOMAIN c |->
           IF x \in S THEN Lower(c[x], Above0(need - MapThenSumSet(LAMBDA y : c[y], ahead(x))))
                      ELSE 0]

-----------------------------------------------------------------------------
(* Boxes.                                                                  *)

\* lock_chain: a box and everything it is inside, which is in every set that holds the box
\* and what each of its members is inside.
Chain(bx, b) ==
    LET outward(S) == \A c \in S : bx[c].parent = None \/ bx[c].parent \in S
        around == {S \in SUBSET Boxes : b \in S /\ outward(S)}
    IN  IF b = None THEN {} ELSE {c \in Boxes : \A S \in around : c \in S}

\* F: only what lies directly in it.
OpenTreeOneLevel(bx, b) == {b} \cup {c \in Boxes : bx[c].parent = b /\ bx[c].status = "OPEN"}
\* _subtree, open boxes only.
OpenTree(bx, b) == {b} \cup {c \in Boxes : b \in Chain(bx, c) /\ bx[c].status = "OPEN"}

IsEmpty(bx, un, b) ==
    /\ bx[b].claim = 0
    /\ ~\E u \in Units : un[u].box = b
    /\ ~\E c \in Boxes : bx[c].parent = b /\ bx[c].status = "OPEN"

\* What close_if_empty closes when it is called for the boxes of "from", in any order: a
\* box of "from", or one around a box that has closed, with nothing left in it.
Emptied(bx, un, from) ==
    LET bare == {b \in Boxes : bx[b].status = "OPEN" /\ bx[b].claim = 0 /\ ~\E u \in Units : un[u].box = b}
        empties(b, S) ==
           /\ \A c \in Boxes : bx[c].parent = b /\ bx[c].status = "OPEN" => c \in S
           /\ b \in from \/ \E c \in S : bx[c].parent = b
        closed == {S \in SUBSET bare : \A b \in bare : empties(b, S) => b \in S}
    IN  {b \in bare : \A S \in closed : b \in S}

\* close_if_empty.
CloseIfEmpty(bx, un, from) ==
    LET closed == Emptied(bx, un, from)
    IN  [b \in Boxes |-> [bx[b] EXCEPT !.status = IF b \in closed THEN "CLOSED" ELSE @]]

OpenAt(bx, n) == {b \in Boxes : bx[b].status = "OPEN" /\ bx[b].node = n}
ClaimOf(bx) == [b \in Boxes |-> bx[b].claim]
ClaimedAt(bx, n) == MapThenSumSet(LAMBDA b : bx[b].claim, OpenAt(bx, n))
Loose(n) == balance[n] - ClaimedAt(box, n)

\* F: loose stock is whatever is there.
BoxesAllowAll(m) == IF m.box = None THEN TRUE ELSE box[m.box].claim >= m.qty
\* Rule 2, before the movement is written: a box's claim covers it, or loose stock does.
BoxesAllow(m) ==
    IF m.box # None
    THEN box[m.box].status = "OPEN" /\ box[m.box].node = m.from /\ box[m.box].claim >= m.qty
    ELSE m.kind = "CORRECTION" \/ ClaimedAt(box, m.from) = 0 \/ m.qty <= Loose(m.from)

\* Rule 2, what becomes of the boxes: the one that is drawn on shrinks, and for a
\* correction those at the node do, in code order, by what loose stock does not cover.
BoxesAfter(bx, m) ==
    LET cut == IF m.box # None THEN [b \in Boxes |-> IF b = m.box THEN m.qty ELSE 0]
               ELSE IF m.kind # "CORRECTION" THEN [b \in Boxes |-> 0]
               ELSE Drawn(OpenAt(bx, m.from), ClaimOf(bx), CodeOrder,
                          Above0(m.qty - Above0(balance[m.from] - ClaimedAt(bx, m.from))))
    IN  CloseIfEmpty([b \in Boxes |-> [bx[b] EXCEPT !.claim = @ - cut[b]]], unit,
                     {b \in Boxes : cut[b] > 0})

-----------------------------------------------------------------------------
(* Earmarks of untagged stock.                                             *)

MarkedAt(n) == MapThenSumSet(LAMBDA s : mark[s][n], Sites)
\* F: what is kept is free as well.
AllIsFree(n) == balance[n]
Free(n) == Above0(balance[n] - MarkedAt(n))

\* What a movement takes of each site's earmark: of its own first, then of what is free,
\* then of the others' by name; a correction takes what is free first.
Draws(m) ==
    LET own == IF m.kind = "CORRECTION" THEN {} ELSE Sites \cap {m.site}
        kept == [s \in Sites |-> mark[s][m.from]]
        mine == Drawn(own, kept, NameOrder, m.qty)
        rest == m.qty - MapThenSumSet(LAMBDA s : mine[s], Sites)
        theirs == Drawn(Sites \ own, kept, NameOrder, Above0(rest - Free(m.from)))
    IN  [s \in Sites |-> mine[s] + theirs[s]]

\* Leaving the perimeter on another site's stock needs a reason, except for a correction.
EarmarksAllow(m) ==
    \/ m.kind = "CORRECTION" \/ m.to \in Inside \/ m.reason
    \/ \A s \in Sites \ {m.site} : Draws(m)[s] = 0

\* F: what is kept does not follow the stock.
MarksStayBehind(m) ==
    [s \in Sites |-> [n \in Inside |-> IF n = m.from THEN mark[s][n] - Draws(m)[s] ELSE mark[s][n]]]
\* Inside the perimeter an earmark moves with its stock; outside it is used up.
MarksAfter(m) ==
    [s \in Sites |-> [n \in Inside |->
        IF n = m.from THEN mark[s][n] - Draws(m)[s]
        ELSE IF n = m.to /\ m.kind # "CORRECTION" THEN mark[s][n] + Draws(m)[s]
        ELSE mark[s][n]]]

-----------------------------------------------------------------------------
(* The ledger's movements.                                                 *)

Moved(bal, m) == [bal EXCEPT ![m.from] = @ - m.qty, ![m.to] = @ + m.qty]

\* Whoever is voiding a gate-in has read the row of an earmark: is it still there?
RowsGone(mk) ==
    [p \in Workers |-> IF req[p] # NoRequest /\ req[p].op = "VOID" /\ req[p].site # None
                        /\ mk[req[p].site][req[p].at] = 0
                     THEN [req[p] EXCEPT !.row = FALSE] ELSE req[p]]

\* post_movement of untagged stock: a release (perhaps from a box) or a consumption, a
\* transfer, the shortfall of a count.  From outside the yard no rule applies.
Move(m) ==
    /\ Spend
    /\ m.from # m.to /\ balance[m.from] >= m.qty
    /\ m.from \in Inside => BoxesAllow(m) /\ EarmarksAllow(m)
    /\ box' = IF m.from \in Inside THEN BoxesAfter(box, m) ELSE box
    /\ mark' = IF m.from \in Inside THEN MarksAfter(m) ELSE mark
    /\ balance' = Moved(balance, m)
    /\ req' = RowsGone(mark')
    /\ UNCHANGED <<unit, gatein, stale>>

\* The movements there are: only a release names a box, a site or a reason, and only a
\* count's shortfall is a correction.
Movements ==
    {[kind |-> "ISSUE", from |-> n, to |-> o, qty |-> q, box |-> b, site |-> s, reason |-> r] :
        n \in Inside, o \in Outside \ {External}, q \in Quantities, b \in Boxes \cup {None},
        s \in Sites \cup {None}, r \in BOOLEAN}
    \cup {[kind |-> "TRANSFER", from |-> n, to |-> o, qty |-> q, box |-> None, site |-> None,
           reason |-> FALSE] : n \in (Inside \cup Outside) \ {External}, o \in Inside, q \in Quantities}
    \cup {[kind |-> "CORRECTION", from |-> n, to |-> External, qty |-> q, box |-> None,
           site |-> None, reason |-> FALSE] : n \in Inside, q \in Quantities}

\* Rule 1: a unit that moves leaves its box, unless that box or one around it moves.
Carried(bx, u, root) == root # None /\ root \in Chain(bx, unit[u].box)
UnitTo(u, n, root, site) ==
    [node |-> n, box |-> IF Carried(box, u, root) THEN unit[u].box ELSE None, site |-> site]

\* post_movement of a unit.  An earmark stays inside the perimeter; to leave with one that
\* is for another site takes a reason.
MoveUnit(u, n, site, reason) ==
    /\ Spend
    /\ unit[u].node \notin {n, External}
    /\ LET kept == unit[u].site
           leaves == unit[u].node \in Inside /\ n \notin Inside
       IN  /\ leaves => kept \in {None, site} \/ reason
           /\ unit' = [unit EXCEPT ![u] = UnitTo(u, n, None, IF leaves THEN None ELSE kept)]
    /\ box' = CloseIfEmpty(box, unit', {unit[u].box})
    /\ UNCHANGED <<balance, mark, gatein, req, stale>>

-----------------------------------------------------------------------------
(* Receiving: the only place where boxes are made and filled.              *)

\* post_gate_in: the stock comes in, then its boxes are created top-down where it landed
\* and filled, then what is for a site is kept for it.
Receive(g) ==
    LET d == Delivery[g] IN
    /\ gatein[g] = "DRAFT"
    /\ gatein' = [gatein EXCEPT ![g] = "POSTED"]
    /\ balance' = [balance EXCEPT ![d.at] = @ + d.bulk, ![External] = @ - d.bulk]
    /\ unit' = [u \in Units |-> IF u \in DOMAIN d.units
                               THEN [node |-> d.at, box |-> d.units[u], site |-> d.site]
                               ELSE unit[u]]
    /\ box' = [b \in Boxes |->
          IF b \in DOMAIN d.boxes
          THEN [status |-> "OPEN", node |-> d.at, parent |-> d.boxes[b].parent,
                depth |-> d.boxes[b].depth, claim |-> d.boxes[b].claim]
          ELSE box[b]]
    /\ mark' = IF d.site = None THEN mark ELSE [mark EXCEPT ![d.site][d.at] = @ + d.bulk]
    /\ UNCHANGED <<req, stale, coming>>

-----------------------------------------------------------------------------
(* Boxes that are handled.                                                 *)

\* take_out: units of the box, some of its claim, open boxes in it, which become boxes of
\* their own with all that is in them.
TakeOut(b, us, qty, cs) ==
    /\ Spend
    /\ box[b].status = "OPEN"
    /\ us # {} \/ qty > 0 \/ cs # {}
    /\ \A u \in us : unit[u].box = b
    /\ qty <= box[b].claim
    /\ \A c \in cs : box[c].parent = b /\ box[c].status = "OPEN"
    /\ unit' = [u \in Units |-> IF u \in us THEN [unit[u] EXCEPT !.box = None] ELSE unit[u]]
    /\ LET out(c) == \E r \in cs : r \in Chain(box, c)
           bx == [c \in Boxes |->
                    [box[c] EXCEPT !.parent = IF c \in cs THEN None ELSE @,
                                   !.depth = IF out(c) THEN @ - box[b].depth ELSE @,
                                   !.claim = IF c = b THEN @ - qty ELSE @]]
       IN  box' = CloseIfEmpty(bx, unit', {b})
    /\ UNCHANGED <<balance, mark, gatein, req, stale>>

\* empty_box reads what is in the box before it locks anything; if that has changed the
\* request is refused.  An empty box cannot be named to take_out, but closes here.
EmptyBox(b) ==
    TakeOut(b, {u \in Units : unit[u].box = b}, box[b].claim,
            {c \in Boxes : box[c].parent = b /\ box[c].status = "OPEN"})

\* move_box, before any lock: the box as it is now, and the boxes in it.
BeginMove(p, b, n) ==
    /\ Spend
    /\ req[p] = NoRequest
    /\ box[b].status # "NONE" /\ box[b].node # n
    /\ req' = [req EXCEPT ![p] = [op |-> "MOVE", box |-> b, from |-> box[b].node, to |-> n,
                                  tree |-> OpenTree(box, b)]]
    /\ UNCHANGED <<box, unit, balance, mark, gatein, stale>>

\* move_box, under its locks: an open outermost box that is still where it was.  The
\* units of the tree that was READ are moved, one by one, each under rule 1; then the
\* claims are, and the boxes that are in it NOW follow.
EndMove(p) ==
    /\ req[p] # NoRequest /\ req[p].op = "MOVE"
    /\ LET r == req[p]
           b == r.box
           tree == OpenTree(box, b)
           us == {u \in Units : unit[u].box \in r.tree}
           lost == {unit[u].box : u \in {u \in us : ~Carried(box, u, b)}}
           after == CloseIfEmpty(box, unit', lost)
           m == [kind |-> "TRANSFER", from |-> r.from, to |-> r.to, box |-> None,
                 site |-> None, reason |-> FALSE,
                 qty |-> MapThenSumSet(LAMBDA c : box[c].claim, tree)]
       IN  /\ box[b].status = "OPEN" /\ box[b].parent = None /\ box[b].node = r.from
           /\ \A u \in us : unit[u].node = r.from
           /\ balance[r.from] >= m.qty
           /\ unit' = [u \in Units |-> IF u \in us THEN UnitTo(u, r.to, b, unit[u].site)
                                                  ELSE unit[u]]
           /\ box' = [c \in Boxes |-> [after[c] EXCEPT !.node = IF c \in tree THEN r.to ELSE @]]
           /\ balance' = Moved(balance, m)
           /\ mark' = MarksAfter(m)
    /\ req' = [RowsGone(mark') EXCEPT ![p] = NoRequest]
    /\ UNCHANGED <<gatein, stale, coming>>

-----------------------------------------------------------------------------
(* Earmarks that are changed.                                              *)

\* change_earmark of a lot, under its balance row: part of a site's, or of what is free,
\* to another site, or to none.
ChangeEarmark(n, from, to, qty) ==
    /\ Spend
    /\ from # to
    /\ IF from = None THEN qty <= Free(n) ELSE qty <= mark[from][n]
    /\ mark' = [s \in Sites |->
          [mark[s] EXCEPT ![n] = @ + (IF s = to THEN qty ELSE 0) - (IF s = from THEN qty ELSE 0)]]
    /\ req' = RowsGone(mark')
    /\ UNCHANGED <<box, unit, balance, gatein, stale>>

\* change_earmark of a unit, under its row.
ChangeUnitEarmark(u, to) ==
    /\ Spend
    /\ unit[u].node \in Inside /\ unit[u].site # to
    /\ unit' = [unit EXCEPT ![u].site = to]
    /\ UNCHANGED <<box, balance, mark, gatein, req, stale>>

\* void_gate_in, _clear_earmarks: the claim of its site and the units still kept for it
\* are read, and no row is locked.
BeginVoid(p, g) ==
    LET d == Delivery[g] IN
    /\ Spend
    /\ req[p] = NoRequest /\ gatein[g] = "POSTED"
    /\ req' = [req EXCEPT ![p] =
          [op |-> "VOID", gatein |-> g, at |-> d.at,
           site |-> IF d.site # None /\ mark[d.site][d.at] > 0 THEN d.site ELSE None,
           seen |-> IF d.site # None THEN mark[d.site][d.at] ELSE 0,
           units |-> {u \in DOMAIN d.units : d.site # None /\ unit[u].site = d.site},
           row |-> TRUE]]
    /\ UNCHANGED <<box, unit, balance, mark, gatein, stale>>

\* What is written is computed from what was read.
Cleared(r) == Above0(r.seen - Delivery[r.gatein].bulk)

\* The rest of void_gate_in: the earmark is deleted or saved, the boxes of this gate-in
\* are emptied and closed, and the movements that nobody has reversed yet are, as
\* corrections.
EndVoid(p) ==
    /\ req[p] # NoRequest /\ req[p].op = "VOID"
    /\ LET r == req[p]
           g == r.gatein
           d == Delivery[g]
           now == IF r.site # None /\ r.row THEN [mark EXCEPT ![r.site][r.at] = Cleared(r)] ELSE mark
           mine == {b \in DOMAIN d.boxes : box[b].status = "OPEN"}
           bx == [b \in Boxes |-> IF b \in mine THEN [box[b] EXCEPT !.status = "CLOSED", !.claim = 0]
                                                ELSE box[b]]
           qty == IF gatein[g] = "POSTED" THEN d.bulk ELSE 0
           us == IF gatein[g] = "POSTED" THEN DOMAIN d.units ELSE {}
           m == [kind |-> "CORRECTION", from |-> d.at, to |-> External, qty |-> qty,
                 box |-> None, site |-> None, reason |-> FALSE]
           kept(s) == now[s][d.at]
           free == Above0(balance[d.at] - MapThenSumSet(kept, Sites))
           cut == Drawn(Sites, [s \in Sites |-> kept(s)], NameOrder, Above0(qty - free))
       IN  /\ (Cleared(r) > 0 /\ r.site # None) => r.row
           /\ balance[d.at] >= qty
           /\ \A u \in us : unit[u].node = d.at /\ (u \in r.units \/ unit[u].site = None)
           /\ mark' = [s \in Sites |-> [now[s] EXCEPT ![d.at] = @ - cut[s]]]
           /\ unit' = [u \in Units |->
                 IF u \in us THEN [node |-> External, box |-> None, site |-> None]
                 ELSE [unit[u] EXCEPT !.box = IF @ \in mine THEN None ELSE @,
                                      !.site = IF u \in r.units THEN None ELSE @]]
           /\ box' = BoxesAfter(bx, m)
           /\ balance' = Moved(balance, m)
           /\ gatein' = [gatein EXCEPT ![g] = "VOID"]
           /\ stale' = (stale \/ (r.site # None /\ r.seen # mark[r.site][r.at]))
           /\ req' = [RowsGone(mark') EXCEPT ![p] = NoRequest]
    /\ UNCHANGED coming

\* A request is refused, or its worker dies: everything it did is rolled back.
Abort(p) ==
    /\ req[p] # NoRequest
    /\ req' = [req EXCEPT ![p] = NoRequest]
    /\ UNCHANGED <<box, unit, balance, mark, gatein, stale, coming>>

-----------------------------------------------------------------------------

ClaimsNext ==
    \/ \E g \in GateIns : Receive(g)
    \/ \E m \in Movements : Move(m)
    \/ \E u \in Units, n \in (Inside \cup Outside) \ {External}, s \in Sites \cup {None},
          r \in BOOLEAN : MoveUnit(u, n, s, r)
    \/ \E b \in Boxes : EmptyBox(b)
    \/ \E b \in Boxes, us \in SUBSET Units, q \in Quantities \cup {0}, cs \in SUBSET Boxes : TakeOut(b, us, q, cs)
    \/ \E n \in Inside, f, t \in Sites \cup {None}, q \in Quantities : ChangeEarmark(n, f, t, q)
    \/ \E u \in Units, t \in Sites \cup {None} : ChangeUnitEarmark(u, t)
    \/ \E p \in Workers :
          \/ \E b \in Boxes, n \in Inside : BeginMove(p, b, n)
          \/ \E g \in GateIns : BeginVoid(p, g)
          \/ EndMove(p) \/ EndVoid(p) \/ Abort(p)

ClaimsSpec == ClaimsInit /\ [][ClaimsNext]_claimsVars

-----------------------------------------------------------------------------
(* Properties.                                                             *)

\* verify_ledger's box checks 1, 3 and 4: what is in an open box is where the box is, and
\* a closed one holds nothing, through moves, releases, voids and boxes taken apart.
ContentsAreWithTheirBox ==
    /\ \A u \in Units : unit[u].box # None =>
          box[unit[u].box].status = "OPEN" /\ box[unit[u].box].node = unit[u].node
    /\ \A b \in Boxes : box[b].status = "CLOSED" => IsEmpty(box, unit, b)
    /\ \A b \in Boxes : box[b].status = "OPEN" =>
          IF box[b].parent = None THEN box[b].depth = 1
          ELSE /\ box[b].depth = box[box[b].parent].depth + 1
               /\ box[b].node = box[box[b].parent].node

\* Box check 2 (P9): the open boxes at a node never claim more than it holds.
BoxClaimsAreBacked == \A n \in Inside : ClaimedAt(box, n) <= balance[n]

\* Its earmark check: no more is kept for sites than there is, unless a void wrote an
\* earmark that had changed since it was read.
EarmarksBackedUnlessStale == stale \/ \A n \in Inside : MarkedAt(n) <= balance[n]

KeptFor(s) == MapThenSumSet(LAMBDA n : mark[s][n], Inside)

\* Moving stock about the yard, loose or in boxes, changes where it is kept for a site and
\* never how much.
CarriedEarmarksSurvive ==
    [][(\A n \in Outside : balance[n] = balance'[n]) /\ balance # balance'
          => \A s \in Sites : KeptFor(s)' = KeptFor(s)]_claimsVars

\* stock/boxes.py:618: nothing leaves its box when it is carried, and what is carried is in
\* it.
NothingLeavesItsBox ==
    [][\A p \in Workers : EndMove(p) =>
          \A u \in Units : unit'[u].node # unit[u].node => unit'[u].box = unit[u].box]_claimsVars

\* stock/verification.py:176: a child is where its parent is, whatever its status.
ChildIsWhereItsParentIs ==
    \A b \in Boxes : box[b].parent # None => box[b].node = box[box[b].parent].node
=============================================================================
