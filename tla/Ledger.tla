------------------------------- MODULE Ledger -------------------------------
(***************************************************************************)
(* The stock ledger: stock/services.py.  post_movement is the only code    *)
(* that may write a balance; every document of the system (receipts, gate  *)
(* passes, closeouts, handovers, write-offs, voids) reaches it.            *)
(*                                                                         *)
(* A transaction is two steps here, because it is two in the database:     *)
(*   Ask   the caller reads the objects it will name, WITHOUT a lock: its  *)
(*         copy of a drum, or the fact that a movement is not yet reversed *)
(*   Post  post_movement locks the balance rows and then the unit, checks, *)
(*         and writes everything up to the commit.                         *)
(* Post is one step because the row locks are kept to the commit and what  *)
(* it checks is read under them -- except the caller's copy of the drum,   *)
(* which is used as it was read at Ask.                                    *)
(*                                                                         *)
(* Left out: the owner of the stock (one more coordinate of a balance row),*)
(* valuation, and the box and earmark rules (they can only refuse, or      *)
(* write rows of their own).                                               *)
(*                                                                         *)
(* Faulty variants of an operator (used by no action) stand just before it *)
(* and are marked F; the README says which property notices each.          *)
(***************************************************************************)
EXTENDS Integers, Sequences, FiniteSets, FiniteSetsExt

CONSTANTS
    Nodes,          \* stock nodes: stores, sites, people, the outside world
    External,       \* the EXTERNAL node, the only one that may go negative
    Consuming,      \* REEL_CONSUMING_NODE_TYPES: sites and the consumed node
    Items,          \* item types
    DefaultMode,    \* ItemType.default_tracking_mode, fixed once there are movements
    Conds,          \* stock conditions
    Units,          \* serialized units
    Drums,          \* cable drums
    ItemOf,         \* the item type of each unit and drum
    Length,         \* initial_length of each drum
    NoOne,          \* no unit, or no drum, is named
    Idle,           \* a process has no transaction open
    Procs,          \* concurrent requests of the web workers
    Requests,       \* what the documents may ask post_movement to do
    MaxMovements    \* bound on the length of the ledger

Types == {"RECEIPT", "ISSUE", "TRANSFER", "INSTALL", "RESTORE", "ADJUST", "REVERSAL"}
Modes == {"SERIALIZED", "REEL", "BULK"}

\* MovementRequest: held is `from_condition or condition`, of the number of
\* the movement it reverses (0: none).
Request == [type: Types, mode: Modes, item: Items, qty: Nat,
            from: Nodes, to: Nodes, held: Conds, cond: Conds,
            unit: Units \cup {NoOne}, drum: Drums \cup {NoOne}, of: Nat]

ASSUME NodesAssumption == External \in Nodes /\ Consuming \subseteq Nodes \ {External}
ASSUME NamesAssumption == NoOne \notin Units \cup Drums
ASSUME ItemsAssumption == ItemOf \in [Units \cup Drums -> Items]
ASSUME ModesAssumption == DefaultMode \in [Items -> Modes]
ASSUME LengthAssumption == Length \in [Drums -> Nat \ {0}]
ASSUME DrumsAssumption == IsFiniteSet(Drums)
ASSUME CondsAssumption == Conds # {}
ASSUME BoundAssumption == MaxMovements \in Nat
\* Documents never post a REVERSAL themselves, and a line that names a unit
\* or a drum carries that unit's or drum's item type.  An ADJUST comes from a stock
\* count only (post_stock_count): it goes to or from the outside world, names neither
\* unit nor drum, reclassifies nothing and leaves the mode to the item type.
ASSUME RequestsAssumption ==
    /\ Requests \subseteq Request
    /\ \A r \in Requests : /\ r.type # "REVERSAL" /\ r.of = 0
                           /\ r.unit # NoOne => r.item = ItemOf[r.unit]
                           /\ r.drum # NoOne => r.item = ItemOf[r.drum]
                           /\ r.type = "ADJUST" =>
                                 /\ r.mode = DefaultMode[r.item]
                                 /\ r.unit = NoOne /\ r.drum = NoOne
                                 /\ External \in {r.from, r.to} /\ r.held = r.cond

VARIABLES
    bal,        \* StockBalance.quantity, by node, item type and condition
    unit,       \* SerialUnit.current_node and .condition
    drum,       \* Reel.current_node, .condition and .remaining_length
    ledger,     \* StockMovement, in the order of the primary key
    txn,        \* the open transaction of each process
    askew       \* history: what was wrong with the drums that movements named

vars == <<bal, unit, drum, ledger, txn, askew>>

Movements == DOMAIN ledger
Place     == [node: Nodes, cond: Conds]
Drum      == [node: Nodes, cond: Conds, left: Nat]

AnyCond == CHOOSE c \in Conds : TRUE

-----------------------------------------------------------------------------
(* Nothing has been received.  A unit and a drum are created at the source *)
(* of their receipt, in the receipt's transaction (_create_serial_unit,    *)
(* _create_reel).                                                          *)
Init ==
    /\ bal = [n \in Nodes |-> [i \in Items |-> [c \in Conds |-> 0]]]
    /\ unit = [u \in Units |-> [node |-> External, cond |-> AnyCond]]
    /\ drum = [d \in Drums |-> [node |-> External, cond |-> AnyCond, left |-> Length[d]]]
    /\ ledger = << >>
    /\ txn = [p \in Procs |-> Idle]
    /\ askew = {}

\* _validate_tracking: what a line of each tracking mode has to name.
Tracked(r) ==
    /\ r.mode = "SERIALIZED" => r.unit # NoOne /\ r.qty = 1
    /\ r.mode = "REEL" => r.drum # NoOne
    /\ r.mode = "BULK" => r.unit = NoOne /\ r.drum = NoOne

\* The first checks of post_movement.
WellFormed(r) == r.qty > 0 /\ r.from # r.to /\ Tracked(r)

\* _assert_reel_has_length, on the copy of the drum the caller read.
HasLength(r, copy) == r.drum # NoOne /\ r.to \in Consuming => r.qty <= copy.left

\* InsufficientStock: the outbound row, read under its lock.  It is the row of
\* the condition the material was held in.
\* F: a void is exempt, as it is from D10.
InStockUnlessReversal(r) ==
    r.from # External /\ r.type # "REVERSAL" => bal[r.from][r.item][r.held] >= r.qty
InStock(r) == r.from # External => bal[r.from][r.item][r.held] >= r.qty

\* _assert_unit_at_origin: the unit, read under its own lock.
\* F: a void trusts the receipt it reverses.
AtOriginUnlessReversal(r) ==
    r.unit # NoOne /\ r.type # "REVERSAL" => unit[r.unit].node = r.from
AtOrigin(r) == r.unit # NoOne => unit[r.unit].node = r.from

OnDrums(n, i, c) ==
    MapThenSumSet(LAMBDA d : drum[d].left,
                  {d \in Drums : /\ ItemOf[d] = i
                                 /\ drum[d].node = n
                                 /\ drum[d].cond = c})

\* _assert_loose_length (D10): length without a drum may draw only on metres
\* that are on no drum.  It is asked of item types kept on drums by default, and
\* neither of a count nor of a void.
\* F: D10 left out.
LooseUnchecked(r) == TRUE
LooseFits(r) ==
    LET on == OnDrums(r.from, r.item, r.held)
    IN  (/\ r.mode = "BULK" /\ DefaultMode[r.item] = "REEL"
         /\ r.from # External /\ r.type \notin {"ADJUST", "REVERSAL"}
         /\ on > 0)
            => r.qty <= bal[r.from][r.item][r.held] - on

\* A receipt creates the drum it names (_create_reel), and drum numbers are unique.
Received(d) == \E k \in Movements : ledger[k].drum = d
DrumIsNew(r) == r.drum # NoOne /\ r.from = External => ~Received(r.drum)

Accepted(r, copy) ==
    /\ WellFormed(r) /\ DrumIsNew(r) /\ HasLength(r, copy)
    /\ InStock(r) /\ AtOrigin(r) /\ LooseFits(r)

-----------------------------------------------------------------------------
(* What a posted movement writes.                                          *)

\* Both cached balances.  The two rows differ because the nodes do.
\* F: from_condition is forgotten.
BalancesReclassified(r) ==
    LET out == [bal EXCEPT ![r.from][r.item][r.cond] = @ - r.qty]
    IN  [out EXCEPT ![r.to][r.item][r.cond] = @ + r.qty]
BalancesAfter(r) ==
    LET out == [bal EXCEPT ![r.from][r.item][r.held] = @ - r.qty]
    IN  [out EXCEPT ![r.to][r.item][r.cond] = @ + r.qty]

\* _move_serial_unit
UnitAfter(r) ==
    IF r.unit = NoOne THEN unit
    ELSE [unit EXCEPT ![r.unit] = [node |-> r.to, cond |-> r.cond]]

\* _move_or_consume_reel and _consume_reel.  A cut leaves the drum where the
\* caller's copy says it was; the last metres to a consuming node take the drum
\* along; otherwise the whole drum changes hands and its length is not written.
\* (A drum with nothing left is CLOSED: the two always coincide.)
\* F: a handover is treated as a cut.
DrumLeftBehind(r, copy) ==
    IF r.drum = NoOne THEN drum
    ELSE [drum EXCEPT ![r.drum] = [copy EXCEPT !.left = IF r.qty <= @ THEN @ - r.qty ELSE 0]]
DrumRow(r, copy, row) ==
    IF r.qty < copy.left
    THEN [node |-> copy.node, cond |-> r.cond, left |-> copy.left - r.qty]
    ELSE IF r.to \in Consuming
    THEN [node |-> r.to, cond |-> r.cond, left |-> copy.left - r.qty]
    ELSE [row EXCEPT !.node = r.to, !.cond = r.cond]

DrumAfter(r, copy) ==
    IF r.drum = NoOne THEN drum
    ELSE [drum EXCEPT ![r.drum] = DrumRow(r, copy, @)]

\* History only: the movement names a drum that is not (whole) at the place the
\* metres leave, or a cut whose metres change condition.
Mismatched(r) ==
    \/ drum[r.drum].node # r.from
    \/ drum[r.drum].cond # r.held
    \/ r.qty > drum[r.drum].left
    \/ r.qty < drum[r.drum].left /\ r.cond # r.held
\* History only: or one that has changed since the caller read it.
Askew(r, copy) ==
    IF r.drum = NoOne THEN {}
    ELSE {why \in {"place", "copy"} :
            \/ why = "place" /\ r.from # External /\ Mismatched(r)
            \/ why = "copy" /\ copy # drum[r.drum]}

-----------------------------------------------------------------------------
(* The steps of a transaction.                                             *)

\* A document asks for a movement: its caller has loaded the drum it names, so the
\* drum has been received, or the receipt is about to create it.
Ask(p) ==
    /\ txn[p] = Idle
    /\ \E r \in Requests :
          /\ r.drum # NoOne /\ r.from # External => Received(r.drum)
          /\ txn' = [txn EXCEPT ![p] =
                     [req |-> r, copy |-> IF r.drum = NoOne THEN NoOne ELSE drum[r.drum]]]
    /\ UNCHANGED <<bal, unit, drum, ledger, askew>>

Reversed(i) == \E j \in Movements : ledger[j].of = i

\* The inverse of movement i as void_gate_in builds it: the condition it was
\* held in before is not passed on.
InverseOf(i) ==
    [ledger[i] EXCEPT !.type = "REVERSAL", !.from = ledger[i].to, !.to = ledger[i].from,
                      !.held = ledger[i].cond, !.of = i]

\* void_gate_in (and reverse_movement): `movement.reversals.exists()` is read
\* before the lock.  Only receipts belong to a gate-in.
AskReversal(p) ==
    /\ txn[p] = Idle
    /\ \E i \in Movements :
          /\ ledger[i].type = "RECEIPT"
          /\ ~Reversed(i)
          /\ txn' = [txn EXCEPT ![p] =
                       [req  |-> InverseOf(i),
                        copy |-> IF ledger[i].drum = NoOne THEN NoOne
                                                           ELSE drum[ledger[i].drum]]]
    /\ UNCHANGED <<bal, unit, drum, ledger, askew>>

\* post_movement, from the locks to the commit.
Post(p) ==
    /\ txn[p] # Idle
    /\ Len(ledger) < MaxMovements
    /\ LET r == txn[p].req
           copy == txn[p].copy
       IN  /\ Accepted(r, copy)
           /\ ledger' = Append(ledger, r)
           /\ bal' = BalancesAfter(r)
           /\ unit' = UnitAfter(r)
           /\ drum' = DrumAfter(r, copy)
           /\ askew' = askew \cup Askew(r, copy)
    /\ txn' = [txn EXCEPT ![p] = Idle]

\* A rule refuses it: the exception rolls the whole transaction back.
Refuse(p) ==
    /\ txn[p] # Idle
    /\ ~Accepted(txn[p].req, txn[p].copy)
    /\ txn' = [txn EXCEPT ![p] = Idle]
    /\ UNCHANGED <<bal, unit, drum, ledger, askew>>

\* The client goes away or the worker dies before the commit.
Abort(p) ==
    /\ txn[p] # Idle
    /\ txn' = [txn EXCEPT ![p] = Idle]
    /\ UNCHANGED <<bal, unit, drum, ledger, askew>>

Next == \E p \in Procs : Ask(p) \/ AskReversal(p) \/ Post(p) \/ Refuse(p) \/ Abort(p)

Spec == Init /\ [][Next]_vars

-----------------------------------------------------------------------------
(* Properties.                                                             *)

Txn == [req: Request, copy: Drum \cup {NoOne}]

\* Every variable has its type, and a drum never holds more than it started with
\* (the constraints reel_remainder_* of stock/models.py).
TypeOK ==
    /\ bal \in [Nodes -> [Items -> [Conds -> Int]]]
    /\ unit \in [Units -> Place]
    /\ drum \in [Drums -> Drum]
    /\ \A d \in Drums : drum[d].left <= Length[d]
    /\ ledger \in Seq(Request)
    /\ txn \in [Procs -> Txn \cup {Idle}]
    /\ askew \subseteq {"place", "copy"}

\* No node but the outside world ever holds less than nothing, whatever requests
\* run together: the stock check is made on the row that is decremented, under
\* its lock (post_movement step 2b).
NonNegative ==
    \A n \in Nodes \ {External}, i \in Items, c \in Conds : bal[n][i][c] >= 0

Inbound(n, i, c) ==
    MapThenSumSet(LAMBDA k : ledger[k].qty,
        {k \in Movements : ledger[k].to = n /\ ledger[k].item = i /\ ledger[k].cond = c})
Outbound(n, i, c) ==
    MapThenSumSet(LAMBDA k : ledger[k].qty,
        {k \in Movements : ledger[k].from = n /\ ledger[k].item = i /\ ledger[k].held = c})

\* The cache is the ledger: recompute_balance finds every row as it is stored,
\* the rows touched by reclassifying movements and by reversals included (02-design
\* section 3.3: "for any node and item, inbound minus outbound movements equals
\* the cached balance").
RecomputeAgrees ==
    \A n \in Nodes, i \in Items, c \in Conds :
        bal[n][i][c] = Inbound(n, i, c) - Outbound(n, i, c)

\* A unit stands where the last movement that names it left it, in the condition
\* that movement gave it; before any, it has not been received.
UnitAtLastMovement ==
    \A u \in Units :
        \/ /\ unit[u].node = External
           /\ \A k \in Movements : ledger[k].unit # u
        \/ \E k \in Movements :
              /\ ledger[k].unit = u
              /\ \A m \in Movements : m > k => ledger[m].unit # u
              /\ unit[u] = [node |-> ledger[k].to, cond |-> ledger[k].cond]

\* The movements of one unit form a path: each starts where the one before it ended,
\* and the first starts outside (post_movement step 2c, the lock on the unit).
UnitPath ==
    \A k \in Movements : ledger[k].unit # NoOne =>
        \/ /\ ledger[k].from = External
           /\ \A j \in Movements : j < k => ledger[j].unit # ledger[k].unit
        \/ \E j \in Movements :
              /\ j < k
              /\ ledger[j].unit = ledger[k].unit
              /\ ledger[j].to = ledger[k].from
              /\ \A m \in Movements : j < m /\ m < k => ledger[m].unit # ledger[k].unit

\* Item types kept on drums by default and never tagged piece by piece: a receipt line
\* may track an item in a mode of its own, and D10 asks nothing of a tagged piece.
Metered == {i \in Items : DefaultMode[i] = "REEL"} \ {ItemOf[u] : u \in Units}

\* Metres on drums are metres in stock: at any node and condition, the open drums of
\* such an item hold no more than the balance, so loose length is never negative
\* (D10), through counts too: one that finds such length missing is refused, for it
\* would have to name the drum.  It needs every cut and handover to name the drum where
\* it stands, for no more than it holds, on no outdated reading of it (askew:
\* _assert_reel_has_length is asked of the caller's copy), and no void of a loose
\* receipt, which is exempt from the rule.
DrumsBacked ==
    (askew = {} /\ \A k \in Movements : ledger[k].of # 0 => ledger[k].mode # "BULK") =>
        \A n \in Nodes \ {External}, i \in Metered, c \in Conds :
            OnDrums(n, i, c) <= bal[n][i][c]
=============================================================================
