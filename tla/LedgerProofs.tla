---------------------------- MODULE LedgerProofs ----------------------------
(***************************************************************************)
(* Proofs about Ledger, for any nodes, items, units, drums, requests and   *)
(* number of processes.                                                    *)
(*                                                                         *)
(* IInv adds to the type invariant what a transaction remembers: a request *)
(* that names a drum carries a copy of a drum that was never longer than   *)
(* that drum's initial length.                                             *)
(*                                                                         *)
(* What balances and drums come to is a sum over the ledger or over the    *)
(* drums; one movement more adds its quantity to the sums it belongs to    *)
(* (SumsPosted), or changes the part of one drum (OneDrumChanges).         *)
(***************************************************************************)
EXTENDS Verification, SumTheorems, TLAPS

CopiesBounded ==
    \A p \in Procs : txn[p] # Idle =>
        LET d == txn[p].req.drum
        IN  d # NoOne => txn[p].copy \in Drum /\ txn[p].copy.left <= Length[d]

IInv == TypeOK /\ CopiesBounded

-----------------------------------------------------------------------------
\* What post_movement leaves in one balance row.
LEMMA BalanceRow ==
    ASSUME TypeOK, NEW r \in Request, r.from # r.to,
           NEW n \in Nodes, NEW i \in Items, NEW c \in Conds
    PROVE  BalancesAfter(r)[n][i][c] =
             IF n = r.from /\ i = r.item /\ c = r.held THEN bal[n][i][c] - r.qty
             ELSE IF n = r.to /\ i = r.item /\ c = r.cond THEN bal[n][i][c] + r.qty
             ELSE bal[n][i][c]
<1>1. bal \in [Nodes -> [Items -> [Conds -> Int]]]
  BY DEF TypeOK
<1>2. /\ r.from \in Nodes /\ r.to \in Nodes /\ r.item \in Items
      /\ r.held \in Conds /\ r.cond \in Conds /\ r.qty \in Nat
  BY DEF Request
<1>3. CASE n = r.from
  <2>1. BalancesAfter(r)[n] = [bal[n] EXCEPT ![r.item][r.held] = @ - r.qty]
    BY <1>1, <1>2, <1>3 DEF BalancesAfter
  <2> QED BY <1>1, <1>2, <1>3, <2>1
<1>4. CASE n = r.to
  <2>1. BalancesAfter(r)[n] = [bal[n] EXCEPT ![r.item][r.cond] = @ + r.qty]
    BY <1>1, <1>2, <1>4 DEF BalancesAfter
  <2> QED BY <1>1, <1>2, <1>4, <2>1
<1>5. CASE n # r.from /\ n # r.to
  <2>1. BalancesAfter(r)[n] = bal[n]
    BY <1>1, <1>2, <1>5 DEF BalancesAfter
  <2> QED BY <1>5, <2>1
<1> QED BY <1>3, <1>4, <1>5

\* post_movement leaves whole numbers in the balances.
LEMMA BalancesTyped ==
    ASSUME TypeOK, NEW r \in Request
    PROVE  BalancesAfter(r) \in [Nodes -> [Items -> [Conds -> Int]]]
<1> DEFINE Row == [Items -> [Conds -> Int]]
           out == [bal EXCEPT ![r.from][r.item][r.held] = @ - r.qty]
<1>1. bal \in [Nodes -> Row]
  BY DEF TypeOK
<1>2. /\ r.from \in Nodes /\ r.to \in Nodes /\ r.item \in Items
      /\ r.held \in Conds /\ r.cond \in Conds /\ r.qty \in Nat
  BY DEF Request
<1>3. out \in [Nodes -> Row]
  <2>1. [bal[r.from] EXCEPT ![r.item][r.held] = @ - r.qty] \in Row
    BY <1>1, <1>2
  <2> QED BY <1>1, <1>2, <2>1
<1>4. [out EXCEPT ![r.to][r.item][r.cond] = @ + r.qty] \in [Nodes -> Row]
  <2> HIDE DEF out
  <2>1. [out[r.to] EXCEPT ![r.item][r.cond] = @ + r.qty] \in Row
    BY <1>2, <1>3
  <2> QED BY <1>2, <1>3, <2>1
<1> QED BY <1>4 DEF BalancesAfter

\* A drum row written by post_movement is a drum, and not a longer one.
LEMMA DrumsTyped ==
    ASSUME TypeOK, NEW r \in Request, NEW copy,
           r.drum # NoOne => copy \in Drum /\ copy.left <= Length[r.drum],
           HasLength(r, copy)
    PROVE  /\ DrumAfter(r, copy) \in [Drums -> Drum]
           /\ \A d \in Drums : DrumAfter(r, copy)[d].left <= Length[d]
<1>1. CASE r.drum = NoOne
  BY <1>1 DEF TypeOK, DrumAfter
<1>2. CASE r.drum # NoOne
  <2> DEFINE row == DrumRow(r, copy, drum[r.drum])
  <2>1. r.drum \in Drums /\ copy \in Drum /\ copy.left <= Length[r.drum]
    BY <1>2 DEF Request
  <2>2. r.qty \in Nat /\ r.to \in Nodes /\ r.cond \in Conds
    BY DEF Request
  <2>3. drum \in [Drums -> Drum] /\ \A d \in Drums : drum[d].left <= Length[d]
    BY DEF TypeOK
  <2>4. row \in Drum /\ row.left <= Length[r.drum]
    <3>1. Length[r.drum] \in Nat
      BY <2>1, LengthAssumption
    <3>2. CASE r.qty < copy.left
      BY <2>1, <2>2, <3>1, <3>2 DEF DrumRow, Drum
    <3>3. CASE ~(r.qty < copy.left) /\ r.to \in Consuming
      <4>1. copy.left - r.qty = 0
        BY <1>2, <2>1, <2>2, <3>3 DEF HasLength, Drum
      <4>2. row = [node |-> r.to, cond |-> r.cond, left |-> 0]
        BY <3>3, <4>1 DEF DrumRow
      <4> QED BY <2>2, <3>1, <4>2 DEF Drum
    <3>4. CASE ~(r.qty < copy.left) /\ r.to \notin Consuming
      <4>1. row = [drum[r.drum] EXCEPT !.node = r.to, !.cond = r.cond]
        BY <3>4 DEF DrumRow
      <4> QED BY <2>1, <2>2, <2>3, <4>1 DEF Drum
    <3> QED BY <3>2, <3>3, <3>4
  <2>5. DrumAfter(r, copy) = [drum EXCEPT ![r.drum] = row]
    BY <1>2 DEF DrumAfter
  <2> HIDE DEF row
  <2> QED BY <2>1, <2>3, <2>4, <2>5
<1> QED BY <1>1, <1>2

\* A unit stands at a node after every movement.
LEMMA UnitsTyped ==
    ASSUME TypeOK, NEW r \in Request
    PROVE  UnitAfter(r) \in [Units -> Place]
  BY DEF TypeOK, Request, UnitAfter, Place

\* The inverse of a movement is a request, for the same drum.
LEMMA InverseTyped ==
    ASSUME TypeOK, NEW i \in Movements
    PROVE  InverseOf(i) \in Request /\ InverseOf(i).drum = ledger[i].drum
<1>1. ledger[i] \in Request /\ i \in Nat
  BY DEF TypeOK, Movements
<1> QED BY <1>1 DEF InverseOf, Request, Types

-----------------------------------------------------------------------------
\* What the step that posts works with: a well-formed request of the process
\* and a copy of its drum that is not too long.
LEMMA Posting ==
    ASSUME IInv, NEW p \in Procs, Post(p)
    PROVE  LET r == txn[p].req
               copy == txn[p].copy
           IN  /\ r \in Request
               /\ r.drum # NoOne => copy \in Drum /\ copy.left <= Length[r.drum]
               /\ Accepted(r, copy)
               /\ r.from # r.to
               /\ ledger' = Append(ledger, r)
               /\ bal' = BalancesAfter(r)
               /\ unit' = UnitAfter(r)
               /\ drum' = DrumAfter(r, copy)
<1>1. txn[p] \in Txn
  BY DEF IInv, TypeOK, Post
<1> QED BY <1>1 DEF IInv, CopiesBounded, Post, Accepted, WellFormed, Txn

\* Both kinds of Ask give the process a request and, if it names a drum, that drum
\* as it is now.
LEMMA Asking ==
    ASSUME IInv, NEW p \in Procs, NEW r \in Request,
           txn' = [txn EXCEPT ![p] =
                     [req |-> r, copy |-> IF r.drum = NoOne THEN NoOne ELSE drum[r.drum]]],
           UNCHANGED <<bal, unit, drum, ledger, askew>>
    PROVE  IInv'
<1> DEFINE t == [req |-> r, copy |-> IF r.drum = NoOne THEN NoOne ELSE drum[r.drum]]
<1>1. r.drum # NoOne => drum[r.drum] \in Drum /\ drum[r.drum].left <= Length[r.drum]
  BY DEF IInv, TypeOK, Request
<1>2. t \in Txn
  BY <1>1 DEF Txn
<1>3. txn' \in [Procs -> Txn \cup {Idle}]
  BY <1>2 DEF IInv, TypeOK
<1>4. TypeOK'
  BY <1>3 DEF IInv, TypeOK
<1>5. CopiesBounded'
  <2> SUFFICES ASSUME NEW q \in Procs, (txn[q] # Idle)', (txn[q].req.drum # NoOne)'
               PROVE  (/\ txn[q].copy \in Drum
                       /\ txn[q].copy.left <= Length[txn[q].req.drum])'
    BY DEF CopiesBounded
  <2>1. CASE q = p
    <3>1. txn'[q] = t
      BY <2>1 DEF IInv, TypeOK
    <3> QED BY <1>1, <3>1
  <2>2. CASE q # p
    <3>1. txn'[q] = txn[q]
      BY <2>2 DEF IInv, TypeOK
    <3> QED BY <3>1 DEF IInv, CopiesBounded
  <2> QED BY <2>1, <2>2
<1> QED BY <1>4, <1>5 DEF IInv

\* A process that ends its transaction leaves the other copies as they were.
LEMMA Ending ==
    ASSUME IInv, NEW p \in Procs, txn' = [txn EXCEPT ![p] = Idle]
    PROVE  txn' \in [Procs -> Txn \cup {Idle}] /\ CopiesBounded'
<1>1. txn' \in [Procs -> Txn \cup {Idle}]
  BY DEF IInv, TypeOK
<1>2. \A q \in Procs : txn'[q] # Idle => txn'[q] = txn[q]
  BY DEF IInv, TypeOK
<1> QED BY <1>1, <1>2 DEF IInv, CopiesBounded

\* The invariant holds of an empty ledger.
LEMMA IInvInit == Init => IInv
<1> SUFFICES ASSUME Init PROVE IInv
  OBVIOUS
<1>1. AnyCond \in Conds
  BY CondsAssumption DEF AnyCond
<1>2. bal \in [Nodes -> [Items -> [Conds -> Int]]]
  BY DEF Init
<1>3. unit \in [Units -> Place]
  BY <1>1, NodesAssumption DEF Init, Place
<1>4. drum \in [Drums -> Drum] /\ \A d \in Drums : drum[d].left <= Length[d]
  BY <1>1, NodesAssumption, LengthAssumption DEF Init, Drum
<1>5. ledger \in Seq(Request) /\ txn \in [Procs -> Txn \cup {Idle}]
  BY DEF Init
<1>7. askew \subseteq {"place", "copy"}
  BY DEF Init
<1>6. CopiesBounded
  BY DEF Init, CopiesBounded
<1> QED BY <1>2, <1>3, <1>4, <1>5, <1>6, <1>7 DEF IInv, TypeOK

\* Every step keeps the invariant.
LEMMA IInvStep == IInv /\ [Next]_vars => IInv'
<1> SUFFICES ASSUME IInv, [Next]_vars PROVE IInv'
  OBVIOUS
<1>1. ASSUME NEW p \in Procs, Ask(p) PROVE IInv'
  <2>1. PICK r \in Requests :
          txn' = [txn EXCEPT ![p] =
                    [req |-> r, copy |-> IF r.drum = NoOne THEN NoOne ELSE drum[r.drum]]]
    BY <1>1 DEF Ask
  <2> QED BY <1>1, <2>1, Asking, RequestsAssumption DEF Ask
<1>2. ASSUME NEW p \in Procs, AskReversal(p) PROVE IInv'
  <2>1. PICK i \in Movements :
          txn' = [txn EXCEPT ![p] =
                    [req  |-> InverseOf(i),
                     copy |-> IF ledger[i].drum = NoOne THEN NoOne
                                                        ELSE drum[ledger[i].drum]]]
    BY <1>2 DEF AskReversal
  <2>2. InverseOf(i) \in Request /\ InverseOf(i).drum = ledger[i].drum
    BY InverseTyped DEF IInv
  <2> QED BY <1>2, <2>1, <2>2, Asking DEF AskReversal
<1>3. ASSUME NEW p \in Procs, Post(p) PROVE IInv'
  <2> DEFINE r == txn[p].req
             copy == txn[p].copy
  <2>1. /\ r \in Request
        /\ r.drum # NoOne => copy \in Drum /\ copy.left <= Length[r.drum]
        /\ HasLength(r, copy)
        /\ ledger' = Append(ledger, r) /\ bal' = BalancesAfter(r)
        /\ unit' = UnitAfter(r) /\ drum' = DrumAfter(r, copy)
    BY <1>3, Posting DEF Accepted
  <2> HIDE DEF r, copy
  <2>2. bal' \in [Nodes -> [Items -> [Conds -> Int]]]
    BY <2>1, BalancesTyped DEF IInv
  <2>3. unit' \in [Units -> Place]
    BY <2>1, UnitsTyped DEF IInv
  <2>4. drum' \in [Drums -> Drum] /\ \A d \in Drums : drum'[d].left <= Length[d]
    BY <2>1, DrumsTyped DEF IInv
  <2>5. ledger' \in Seq(Request)
    BY <2>1 DEF IInv, TypeOK
  <2>6. askew' \subseteq {"place", "copy"}
    BY <1>3 DEF Post, IInv, TypeOK, Askew
  <2>7. txn' \in [Procs -> Txn \cup {Idle}] /\ CopiesBounded'
    BY <1>3, Ending DEF Post
  <2> QED BY <2>2, <2>3, <2>4, <2>5, <2>6, <2>7 DEF IInv, TypeOK
<1>4. ASSUME NEW p \in Procs, Refuse(p) \/ Abort(p) PROVE IInv'
  <2>1. txn' = [txn EXCEPT ![p] = Idle] /\ UNCHANGED <<bal, unit, drum, ledger, askew>>
    BY <1>4 DEF Refuse, Abort
  <2>2. txn' \in [Procs -> Txn \cup {Idle}] /\ CopiesBounded'
    BY <2>1, Ending
  <2> QED BY <2>1, <2>2 DEF IInv, TypeOK
<1>5. CASE UNCHANGED vars
  BY <1>5 DEF vars, IInv, TypeOK, CopiesBounded
<1> QED BY <1>1, <1>2, <1>3, <1>4, <1>5 DEF Next

\* Every row keeps its type and no drum grows past its initial length, although the
\* length is written from a copy that may be stale.
THEOREM TypeCorrect == Spec => []TypeOK
<1>1. IInv => TypeOK
  BY DEF IInv
<1> QED BY <1>1, IInvInit, IInvStep, PTL DEF Spec

\* The invariant of the ledger.
LEMMA IInvAlways == Spec => []IInv
  BY IInvInit, IInvStep, PTL DEF Spec

-----------------------------------------------------------------------------
\* No interleaving of requests makes a node but the outside world owe stock.
THEOREM NeverNegative == Spec => []NonNegative
<1>1. Init => NonNegative
  BY DEF Init, NonNegative
<1>2. IInv /\ NonNegative /\ [Next]_vars => NonNegative'
  <2> SUFFICES ASSUME IInv, NonNegative, [Next]_vars PROVE NonNegative'
    OBVIOUS
  <2>1. ASSUME NEW p \in Procs, Post(p) PROVE NonNegative'
    <3> DEFINE r == txn[p].req
    <3>1. /\ r \in Request /\ r.from # r.to /\ bal' = BalancesAfter(r)
          /\ r.from # External => bal[r.from][r.item][r.held] >= r.qty
      BY <2>1, Posting DEF Accepted, InStock
    <3> HIDE DEF r
    <3> SUFFICES ASSUME NEW n \in Nodes \ {External}, NEW i \in Items, NEW c \in Conds
                 PROVE  bal'[n][i][c] >= 0
      BY DEF NonNegative
    <3>2. /\ bal[n][i][c] \in Int /\ bal[n][i][c] >= 0 /\ r.qty \in Nat
      BY <3>1 DEF IInv, TypeOK, NonNegative, Request
    <3>3. bal'[n][i][c] =
             IF n = r.from /\ i = r.item /\ c = r.held THEN bal[n][i][c] - r.qty
             ELSE IF n = r.to /\ i = r.item /\ c = r.cond THEN bal[n][i][c] + r.qty
             ELSE bal[n][i][c]
      BY <3>1, BalanceRow DEF IInv
    <3> QED BY <3>1, <3>2, <3>3
  <2>2. CASE UNCHANGED bal
    BY <2>2 DEF NonNegative
  <2> QED BY <2>1, <2>2 DEF Next, vars, Ask, AskReversal, Refuse, Abort
<1> QED BY <1>1, <1>2, IInvAlways, PTL DEF Spec

-----------------------------------------------------------------------------
\* The ledger after one more movement.
LEMMA Appended ==
    ASSUME TypeOK, NEW r \in Request, ledger' = Append(ledger, r)
    PROVE  LET last == Len(ledger) + 1
           IN  /\ last \in Nat
               /\ Movements' = Movements \cup {last}
               /\ ledger'[last] = r
               /\ \A k \in Movements : k \in Nat /\ k < last /\ ledger'[k] = ledger[k]
<1>1. ledger \in Seq(Request) /\ Len(ledger) \in Nat /\ Movements = 1 .. Len(ledger)
  BY DEF TypeOK, Movements
<1>2. Movements' = 1 .. (Len(ledger) + 1)
  BY <1>1 DEF Movements
<1> QED BY <1>1, <1>2

\* A unit stands where its last movement left it, whatever runs beside it.
THEOREM UnitsFollowTheLedger == Spec => []UnitAtLastMovement
<1>1. Init => UnitAtLastMovement
  BY NodesAssumption DEF Init, UnitAtLastMovement, Movements
<1>2. IInv /\ UnitAtLastMovement /\ [Next]_vars => UnitAtLastMovement'
  <2> SUFFICES ASSUME IInv, UnitAtLastMovement, [Next]_vars PROVE UnitAtLastMovement'
    OBVIOUS
  <2>1. ASSUME NEW p \in Procs, Post(p) PROVE UnitAtLastMovement'
    <3> DEFINE r == txn[p].req
               last == Len(ledger) + 1
    <3>1. r \in Request /\ ledger' = Append(ledger, r) /\ unit' = UnitAfter(r)
      BY <2>1, Posting
    <3>2. /\ last \in Nat
          /\ Movements' = Movements \cup {last}
          /\ ledger'[last] = r
          /\ \A k \in Movements : k \in Nat /\ k < last /\ ledger'[k] = ledger[k]
      BY <3>1, Appended DEF IInv
    <3> HIDE DEF r, last
    <3> SUFFICES ASSUME NEW u \in Units
                 PROVE  (\/ /\ unit[u].node = External
                            /\ \A k \in Movements : ledger[k].unit # u
                         \/ \E k \in Movements :
                               /\ ledger[k].unit = u
                               /\ \A m \in Movements : m > k => ledger[m].unit # u
                               /\ unit[u] = [node |-> ledger[k].to, cond |-> ledger[k].cond])'
      BY DEF UnitAtLastMovement
    <3>3. CASE r.unit = u
      <4>1. unit'[u] = [node |-> r.to, cond |-> r.cond]
        BY <3>1, <3>3, NamesAssumption DEF UnitAfter, IInv, TypeOK
      <4>2. \A m \in Movements' : ~(m > last)
        BY <3>2
      <4> QED BY <3>2, <3>3, <4>1, <4>2
    <3>4. CASE r.unit # u
      <4>1. unit'[u] = unit[u]
        BY <3>1, <3>4 DEF UnitAfter, IInv, TypeOK
      <4>2. CASE unit[u].node = External /\ \A k \in Movements : ledger[k].unit # u
        BY <3>2, <3>4, <4>1, <4>2
      <4>3. CASE \E k \in Movements :
                   /\ ledger[k].unit = u
                   /\ \A m \in Movements : m > k => ledger[m].unit # u
                   /\ unit[u] = [node |-> ledger[k].to, cond |-> ledger[k].cond]
        BY <3>2, <3>4, <4>1, <4>3
      <4> QED BY <4>2, <4>3 DEF UnitAtLastMovement
    <3> QED BY <3>3, <3>4
  <2>2. CASE UNCHANGED <<unit, ledger>>
    BY <2>2 DEF UnitAtLastMovement, Movements
  <2> QED BY <2>1, <2>2 DEF Next, vars, Ask, AskReversal, Refuse, Abort
<1> QED BY <1>1, <1>2, IInvAlways, PTL DEF Spec

\* The movements of a unit form a path from the outside world: no two requests can
\* both take it from one place.
THEOREM UnitsMoveAlongAPath == Spec => []UnitPath
<1>1. Init => UnitPath
  BY DEF Init, UnitPath, Movements
<1>2. IInv /\ UnitAtLastMovement /\ UnitPath /\ [Next]_vars => UnitPath'
  <2> SUFFICES ASSUME IInv, UnitAtLastMovement, UnitPath, [Next]_vars PROVE UnitPath'
    OBVIOUS
  <2>1. ASSUME NEW p \in Procs, Post(p) PROVE UnitPath'
    <3> DEFINE r == txn[p].req
               last == Len(ledger) + 1
    <3>1. /\ r \in Request /\ ledger' = Append(ledger, r)
          /\ r.unit # NoOne => unit[r.unit].node = r.from
      BY <2>1, Posting DEF Accepted, AtOrigin
    <3>2. /\ last \in Nat
          /\ Movements' = Movements \cup {last}
          /\ ledger'[last] = r
          /\ \A k \in Movements : k \in Nat /\ k < last /\ ledger'[k] = ledger[k]
      BY <3>1, Appended DEF IInv
    <3> HIDE DEF r, last
    <3> SUFFICES ASSUME NEW k \in Movements', (ledger[k].unit # NoOne)'
                 PROVE  (\/ /\ ledger[k].from = External
                            /\ \A j \in Movements : j < k => ledger[j].unit # ledger[k].unit
                         \/ \E j \in Movements :
                               /\ j < k
                               /\ ledger[j].unit = ledger[k].unit
                               /\ ledger[j].to = ledger[k].from
                               /\ \A m \in Movements :
                                     j < m /\ m < k => ledger[m].unit # ledger[k].unit)'
      BY DEF UnitPath
    <3>3. CASE k = last
      <4>1. ledger'[k] = r /\ r.unit \in Units
        BY <3>1, <3>2, <3>3 DEF Request
      <4>2. CASE /\ unit[r.unit].node = External
                 /\ \A j \in Movements : ledger[j].unit # r.unit
        <5>1. r.from = External
          BY <3>1, <4>1, <4>2, NamesAssumption
        <5>2. \A j \in Movements' : j < k => ledger'[j].unit # ledger'[k].unit
          BY <3>2, <3>3, <4>1, <4>2
        <5> QED BY <4>1, <5>1, <5>2
      <4>3. CASE \E j \in Movements :
                   /\ ledger[j].unit = r.unit
                   /\ \A m \in Movements : m > j => ledger[m].unit # r.unit
                   /\ unit[r.unit] = [node |-> ledger[j].to, cond |-> ledger[j].cond]
        <5>1. PICK j \in Movements :
                /\ ledger[j].unit = r.unit
                /\ \A m \in Movements : m > j => ledger[m].unit # r.unit
                /\ unit[r.unit] = [node |-> ledger[j].to, cond |-> ledger[j].cond]
          BY <4>3
        <5>2. ledger[j].to = r.from
          BY <3>1, <4>1, <5>1, NamesAssumption
        <5>3. /\ j \in Movements' /\ j < k /\ ledger'[j] = ledger[j]
              /\ ledger'[j].unit = ledger'[k].unit /\ ledger'[j].to = ledger'[k].from
          BY <3>2, <3>3, <4>1, <5>1, <5>2
        <5>4. \A m \in Movements' : j < m /\ m < k => ledger'[m].unit # ledger'[k].unit
          BY <3>2, <3>3, <4>1, <5>1
        <5> QED BY <5>3, <5>4
      <4> QED BY <4>1, <4>2, <4>3 DEF UnitAtLastMovement
    <3>4. CASE k \in Movements
      <4>1. ledger'[k] = ledger[k] /\ k < last /\ last \in Nat /\ k \in Nat
        BY <3>2, <3>4
      <4>2. CASE /\ ledger[k].from = External
                 /\ \A j \in Movements : j < k => ledger[j].unit # ledger[k].unit
        <5>1. \A j \in Movements' : j < k => ledger'[j].unit # ledger'[k].unit
          BY <3>2, <4>1, <4>2
        <5> QED BY <4>1, <4>2, <5>1
      <4>3. CASE \E j \in Movements :
                   /\ j < k
                   /\ ledger[j].unit = ledger[k].unit
                   /\ ledger[j].to = ledger[k].from
                   /\ \A m \in Movements : j < m /\ m < k => ledger[m].unit # ledger[k].unit
        <5>1. PICK j \in Movements :
                /\ j < k
                /\ ledger[j].unit = ledger[k].unit
                /\ ledger[j].to = ledger[k].from
                /\ \A m \in Movements : j < m /\ m < k => ledger[m].unit # ledger[k].unit
          BY <4>3
        <5>2. /\ j \in Movements' /\ j < k
              /\ ledger'[j].unit = ledger'[k].unit /\ ledger'[j].to = ledger'[k].from
          BY <3>2, <4>1, <5>1
        <5>3. \A m \in Movements' : j < m /\ m < k => ledger'[m].unit # ledger'[k].unit
          BY <3>2, <3>4, <4>1, <5>1
        <5> QED BY <5>2, <5>3
      <4>4. ledger[k].unit # NoOne
        BY <4>1
      <4> QED BY <3>4, <4>2, <4>3, <4>4 DEF UnitPath
    <3> QED BY <3>2, <3>3, <3>4
  <2>2. CASE UNCHANGED ledger
    BY <2>2 DEF UnitPath, Movements
  <2> QED BY <2>1, <2>2 DEF Next, vars, Ask, AskReversal, Refuse, Abort
<1> QED BY <1>1, <1>2, IInvAlways, UnitsFollowTheLedger, PTL DEF Spec

-----------------------------------------------------------------------------
(* Sums along the ledger.                                                  *)

\* What the movements of S carry together.
Carried(s, S) == MapThenSumSet(LAMBDA k : s[k].qty, S)

\* It is the sum of a function, to which the theory of sums applies.
LEMMA CarriedIsSum ==
    ASSUME NEW s \in Seq(Request), NEW S \in SUBSET DOMAIN s
    PROVE  /\ IsFiniteSet(S)
           /\ Carried(s, S) = SumFun([k \in DOMAIN s |-> s[k].qty], S)
           /\ Carried(s, S) \in Nat
<1> DEFINE q == [k \in DOMAIN s |-> s[k].qty]
           qS == [k \in S |-> s[k].qty]
<1>1. IsFiniteSet(S)
  <2>1. DOMAIN s = 1 .. Len(s) /\ Len(s) \in Nat
    OBVIOUS
  <2>2. IsFiniteSet(1 .. Len(s))
    BY <2>1, FS_Interval
  <2> QED BY <2>1, <2>2, FS_Subset
<1>2. \A k \in S : q[k] \in Nat /\ qS[k] = q[k]
  <2>1. \A k \in DOMAIN s : s[k] \in Request
    OBVIOUS
  <2> QED BY <2>1 DEF Request
<1>3. Carried(s, S) = SumFun(qS, S)
  BY DEF Carried, SumFun, MapThenSumSet, MapThenFoldSet
<1> HIDE DEF q, qS
<1>4. SumFun(qS, S) = SumFun(q, S)
  BY <1>1, <1>2, SumSame
<1>5. SumFun(q, S) \in Nat
  BY <1>1, <1>2, SumNonNegative
<1> QED BY <1>1, <1>3, <1>4, <1>5 DEF q

\* One movement more adds its quantity to the sums it belongs to, and to no other.
LEMMA CarriedPosted ==
    ASSUME NEW s \in Seq(Request), NEW r \in Request, NEW S \in SUBSET DOMAIN s
    PROVE  /\ Carried(Append(s, r), S) = Carried(s, S)
           /\ Carried(Append(s, r), S \cup {Len(s) + 1}) = Carried(s, S) + r.qty
<1> DEFINE t == Append(s, r)
           last == Len(s) + 1
           q == [k \in DOMAIN s |-> s[k].qty]
           qt == [k \in DOMAIN t |-> t[k].qty]
<1>1. /\ t \in Seq(Request) /\ DOMAIN t = DOMAIN s \cup {last} /\ last \notin DOMAIN s
      /\ \A k \in DOMAIN s : t[k] = s[k]
      /\ t[last] = r
  OBVIOUS
<1> HIDE DEF t, last
<1>2. /\ \A k \in DOMAIN t : qt[k] \in Nat
      /\ \A k \in DOMAIN s : q[k] \in Nat /\ qt[k] = q[k]
      /\ qt[last] = r.qty
  <2>1. \A k \in DOMAIN t : t[k] \in Request
    BY <1>1
  <2> QED BY <1>1, <2>1 DEF Request
<1>3. /\ IsFiniteSet(S) /\ Carried(s, S) = SumFun(q, S)
      /\ Carried(t, S) = SumFun(qt, S)
      /\ Carried(t, S \cup {last}) = SumFun(qt, S \cup {last})
  BY <1>1, CarriedIsSum
<1> HIDE DEF q, qt
<1>4. SumFun(qt, S) = SumFun(q, S)
  BY <1>2, <1>3, SumSame
<1>5. SumFun(qt, S \cup {last}) = SumFun(qt, S) + qt[last]
  <2>1. last \notin S /\ \A k \in S \cup {last} : qt[k] \in Int
    BY <1>1, <1>2
  <2> QED BY <1>3, <2>1, SumAdd
<1> QED BY <1>2, <1>3, <1>4, <1>5 DEF t, last

\* The two sides of a balance row, and the length a drum has been cut by, after one
\* movement more.
LEMMA SumsPosted ==
    ASSUME TypeOK, NEW r \in Request, ledger' = Append(ledger, r)
    PROVE  /\ \A n \in Nodes, i \in Items, c \in Conds :
                /\ Inbound(n, i, c) \in Nat /\ Outbound(n, i, c) \in Nat
                /\ Inbound(n, i, c)' = IF r.to = n /\ r.item = i /\ r.cond = c
                                       THEN Inbound(n, i, c) + r.qty ELSE Inbound(n, i, c)
                /\ Outbound(n, i, c)' = IF r.from = n /\ r.item = i /\ r.held = c
                                        THEN Outbound(n, i, c) + r.qty ELSE Outbound(n, i, c)
           /\ \A d \in Drums :
                /\ ConsumedFrom(d) \in Nat
                /\ ConsumedFrom(d)' = IF r.drum = d /\ r.to \in Consuming
                                      THEN ConsumedFrom(d) + r.qty ELSE ConsumedFrom(d)
<1> DEFINE last == Len(ledger) + 1
<1>1. /\ last \in Nat
      /\ Movements' = Movements \cup {last}
      /\ ledger'[last] = r
      /\ \A k \in Movements : k \in Nat /\ k < last /\ ledger'[k] = ledger[k]
  BY Appended
<1>2. last \notin Movements
  BY <1>1
<1>3. \A S \in SUBSET Movements :
         /\ Carried(ledger, S) \in Nat
         /\ Carried(ledger', S) = Carried(ledger, S)
         /\ Carried(ledger', S \cup {last}) = Carried(ledger, S) + r.qty
  BY CarriedIsSum, CarriedPosted DEF TypeOK, Movements
<1> HIDE DEF last
<1>4. ASSUME NEW n \in Nodes, NEW i \in Items, NEW c \in Conds
      PROVE  /\ Inbound(n, i, c) \in Nat
             /\ Inbound(n, i, c)' = IF r.to = n /\ r.item = i /\ r.cond = c
                                    THEN Inbound(n, i, c) + r.qty ELSE Inbound(n, i, c)
  <2> DEFINE S == {k \in Movements :
                     ledger[k].to = n /\ ledger[k].item = i /\ ledger[k].cond = c}
             T == {k \in Movements' :
                     ledger'[k].to = n /\ ledger'[k].item = i /\ ledger'[k].cond = c}
  <2>1. T = IF r.to = n /\ r.item = i /\ r.cond = c THEN S \cup {last} ELSE S
    BY <1>1, <1>2
  <2>2. Inbound(n, i, c) = Carried(ledger, S) /\ Inbound(n, i, c)' = Carried(ledger', T)
    BY DEF Inbound, Carried, MapThenSumSet, MapThenFoldSet
  <2>3. S \in SUBSET Movements
    OBVIOUS
  <2> HIDE DEF S, T
  <2> QED BY <1>3, <2>1, <2>2, <2>3
<1>5. ASSUME NEW n \in Nodes, NEW i \in Items, NEW c \in Conds
      PROVE  /\ Outbound(n, i, c) \in Nat
             /\ Outbound(n, i, c)' = IF r.from = n /\ r.item = i /\ r.held = c
                                     THEN Outbound(n, i, c) + r.qty ELSE Outbound(n, i, c)
  <2> DEFINE S == {k \in Movements :
                     ledger[k].from = n /\ ledger[k].item = i /\ ledger[k].held = c}
             T == {k \in Movements' :
                     ledger'[k].from = n /\ ledger'[k].item = i /\ ledger'[k].held = c}
  <2>1. T = IF r.from = n /\ r.item = i /\ r.held = c THEN S \cup {last} ELSE S
    BY <1>1, <1>2
  <2>2. Outbound(n, i, c) = Carried(ledger, S) /\ Outbound(n, i, c)' = Carried(ledger', T)
    BY DEF Outbound, Carried, MapThenSumSet, MapThenFoldSet
  <2>3. S \in SUBSET Movements
    OBVIOUS
  <2> HIDE DEF S, T
  <2> QED BY <1>3, <2>1, <2>2, <2>3
<1>6. ASSUME NEW d \in Drums
      PROVE  /\ ConsumedFrom(d) \in Nat
             /\ ConsumedFrom(d)' = IF r.drum = d /\ r.to \in Consuming
                                   THEN ConsumedFrom(d) + r.qty ELSE ConsumedFrom(d)
  <2> DEFINE S == {k \in Movements : ledger[k].drum = d /\ ledger[k].to \in Consuming}
             T == {k \in Movements' : ledger'[k].drum = d /\ ledger'[k].to \in Consuming}
  <2>1. T = IF r.drum = d /\ r.to \in Consuming THEN S \cup {last} ELSE S
    BY <1>1, <1>2
  <2>2. ConsumedFrom(d) = Carried(ledger, S) /\ ConsumedFrom(d)' = Carried(ledger', T)
    BY DEF ConsumedFrom, Carried, MapThenSumSet, MapThenFoldSet
  <2>3. S \in SUBSET Movements
    OBVIOUS
  <2> HIDE DEF S, T
  <2> QED BY <1>3, <2>1, <2>2, <2>3
<1> QED BY <1>4, <1>5, <1>6

\* Nothing has been added up while nothing has been posted.
LEMMA SumsBegin ==
    ASSUME ledger = << >>
    PROVE  /\ \A n \in Nodes, i \in Items, c \in Conds :
                Inbound(n, i, c) = 0 /\ Outbound(n, i, c) = 0
           /\ \A d \in Drums : ConsumedFrom(d) = 0
<1>1. \A S \in SUBSET Movements : S = {}
  BY DEF Movements
<1>2. Carried(ledger, {}) = 0
  <2>1. ledger \in Seq(Request) /\ {} \in SUBSET DOMAIN ledger
    OBVIOUS
  <2> QED BY <2>1, CarriedIsSum, SumEmpty
<1>3. ASSUME NEW n \in Nodes, NEW i \in Items, NEW c \in Conds
      PROVE  Inbound(n, i, c) = 0 /\ Outbound(n, i, c) = 0
  <2>1. /\ {k \in Movements : ledger[k].to = n /\ ledger[k].item = i /\ ledger[k].cond = c} = {}
        /\ {k \in Movements : ledger[k].from = n /\ ledger[k].item = i /\ ledger[k].held = c} = {}
    BY <1>1
  <2> QED BY <1>2, <2>1 DEF Inbound, Outbound, Carried
<1>4. ASSUME NEW d \in Drums PROVE ConsumedFrom(d) = 0
  <2>1. {k \in Movements : ledger[k].drum = d /\ ledger[k].to \in Consuming} = {}
    BY <1>1
  <2> QED BY <1>2, <2>1 DEF ConsumedFrom, Carried
<1> QED BY <1>3, <1>4

\* A step that posts nothing leaves the sums alone.
LEMMA SumsKept ==
    ASSUME UNCHANGED ledger
    PROVE  /\ \A n \in Nodes, i \in Items, c \in Conds :
                UNCHANGED Inbound(n, i, c) /\ UNCHANGED Outbound(n, i, c)
           /\ \A d \in Drums : UNCHANGED ConsumedFrom(d)
<1>1. ASSUME NEW n \in Nodes, NEW i \in Items, NEW c \in Conds
      PROVE  UNCHANGED Inbound(n, i, c) /\ UNCHANGED Outbound(n, i, c)
  <2> DEFINE In(s) == {k \in DOMAIN s : s[k].to = n /\ s[k].item = i /\ s[k].cond = c}
             Out(s) == {k \in DOMAIN s : s[k].from = n /\ s[k].item = i /\ s[k].held = c}
  <2>1. /\ Inbound(n, i, c) = Carried(ledger, In(ledger))
        /\ Inbound(n, i, c)' = Carried(ledger', In(ledger'))
    BY DEF Inbound, Movements, Carried, MapThenSumSet, MapThenFoldSet
  <2>2. /\ Outbound(n, i, c) = Carried(ledger, Out(ledger))
        /\ Outbound(n, i, c)' = Carried(ledger', Out(ledger'))
    BY DEF Outbound, Movements, Carried, MapThenSumSet, MapThenFoldSet
  <2> HIDE DEF In, Out
  <2> QED BY <2>1, <2>2
<1>2. ASSUME NEW d \in Drums PROVE UNCHANGED ConsumedFrom(d)
  <2> DEFINE Cut(s) == {k \in DOMAIN s : s[k].drum = d /\ s[k].to \in Consuming}
  <2>1. /\ ConsumedFrom(d) = Carried(ledger, Cut(ledger))
        /\ ConsumedFrom(d)' = Carried(ledger', Cut(ledger'))
    BY DEF ConsumedFrom, Movements, Carried, MapThenSumSet, MapThenFoldSet
  <2> HIDE DEF Cut
  <2> QED BY <2>1
<1> QED BY <1>1, <1>2

\* The cache is the ledger: whatever requests run together, every balance row is what
\* the movements in and out of it come to.
THEOREM CacheIsTheLedger == Spec => []RecomputeAgrees
<1>1. Init => RecomputeAgrees
  <2> SUFFICES ASSUME Init PROVE RecomputeAgrees
    OBVIOUS
  <2>1. \A n \in Nodes, i \in Items, c \in Conds : bal[n][i][c] = 0
    BY DEF Init
  <2>2. ledger = << >>
    BY DEF Init
  <2> QED BY <2>1, <2>2, SumsBegin DEF RecomputeAgrees
<1>2. IInv /\ RecomputeAgrees /\ [Next]_vars => RecomputeAgrees'
  <2> SUFFICES ASSUME IInv, RecomputeAgrees, [Next]_vars PROVE RecomputeAgrees'
    OBVIOUS
  <2>1. ASSUME NEW p \in Procs, Post(p) PROVE RecomputeAgrees'
    <3> DEFINE r == txn[p].req
    <3>1. /\ r \in Request /\ r.from # r.to /\ bal' = BalancesAfter(r)
          /\ ledger' = Append(ledger, r)
      BY <2>1, Posting
    <3> HIDE DEF r
    <3> SUFFICES ASSUME NEW n \in Nodes, NEW i \in Items, NEW c \in Conds
                 PROVE  bal'[n][i][c] = Inbound(n, i, c)' - Outbound(n, i, c)'
      BY DEF RecomputeAgrees
    <3>2. bal[n][i][c] = Inbound(n, i, c) - Outbound(n, i, c) /\ r.qty \in Nat
      BY <3>1 DEF RecomputeAgrees, Request
    <3>3. bal'[n][i][c] =
             IF n = r.from /\ i = r.item /\ c = r.held THEN bal[n][i][c] - r.qty
             ELSE IF n = r.to /\ i = r.item /\ c = r.cond THEN bal[n][i][c] + r.qty
             ELSE bal[n][i][c]
      BY <3>1, BalanceRow DEF IInv
    <3>4. /\ Inbound(n, i, c) \in Nat /\ Outbound(n, i, c) \in Nat
          /\ Inbound(n, i, c)' = IF r.to = n /\ r.item = i /\ r.cond = c
                                 THEN Inbound(n, i, c) + r.qty ELSE Inbound(n, i, c)
          /\ Outbound(n, i, c)' = IF r.from = n /\ r.item = i /\ r.held = c
                                  THEN Outbound(n, i, c) + r.qty ELSE Outbound(n, i, c)
      BY <3>1, SumsPosted DEF IInv
    <3> QED BY <3>1, <3>2, <3>3, <3>4
  <2>2. CASE UNCHANGED <<bal, ledger>>
    BY <2>2, SumsKept DEF RecomputeAgrees
  <2> QED BY <2>1, <2>2 DEF Next, vars, Ask, AskReversal, Refuse, Abort
<1> QED BY <1>1, <1>2, IInvAlways, PTL DEF Spec

\* The nightly check accuses nobody: no balance row while nothing was reclassified, and
\* no drum while every cut is consumed and worked from the drum as it was.
THEOREM NobodyIsAccused == Spec => []CheckStaysQuiet
<1>1. RecomputeAgrees => BalancesQuiet
  <2> SUFFICES ASSUME RecomputeAgrees, \A k \in Movements : ~Reclassifies(k),
                      NEW n \in Nodes, NEW i \in Items, NEW c \in Conds
               PROVE  bal[n][i][c] = TotalsOf(n, i, c)
    BY DEF BalancesQuiet, BalanceDrift
  <2>1. {k \in Movements : ledger[k].from = n /\ ledger[k].item = i /\ ledger[k].held = c}
        = {k \in Movements : ledger[k].from = n /\ ledger[k].item = i /\ ledger[k].cond = c}
    BY DEF Reclassifies
  <2>2. TotalsOf(n, i, c) = Inbound(n, i, c) - Outbound(n, i, c)
    BY <2>1 DEF TotalsOf, Outbound
  <2> QED BY <2>2 DEF RecomputeAgrees
<1>2. Init => DrumsQuiet
  <2> SUFFICES ASSUME Init, NEW d \in Drums PROVE drum[d].left = Length[d] - ConsumedFrom(d)
    BY DEF DrumsQuiet, DrumDrift
  <2>1. drum[d].left = Length[d] /\ Length[d] \in Nat /\ ledger = << >>
    BY LengthAssumption DEF Init
  <2>2. ConsumedFrom(d) = 0
    BY <2>1, SumsBegin
  <2> QED BY <2>1, <2>2
<1>3. IInv /\ DrumsQuiet /\ [Next]_vars => DrumsQuiet'
  <2> SUFFICES ASSUME IInv, DrumsQuiet, [Next]_vars PROVE DrumsQuiet'
    OBVIOUS
  <2>1. ASSUME NEW p \in Procs, Post(p) PROVE DrumsQuiet'
    <3> DEFINE r == txn[p].req
               copy == txn[p].copy
               last == Len(ledger) + 1
               Plain(m) == m.drum # NoOne => m.to \in Consuming \/ m.qty >= Length[m.drum]
    <3>1. /\ r \in Request /\ ledger' = Append(ledger, r) /\ drum' = DrumAfter(r, copy)
          /\ HasLength(r, copy)
          /\ r.drum # NoOne => copy \in Drum /\ copy.left <= Length[r.drum]
      BY <2>1, Posting DEF Accepted
    <3>2. askew' = askew \cup Askew(r, copy)
      BY <2>1 DEF Post
    <3> HIDE DEF r, copy
    <3>3. /\ Movements' = Movements \cup {last} /\ ledger'[last] = r
          /\ \A k \in Movements : ledger'[k] = ledger[k]
      BY <3>1, Appended DEF IInv
    <3> HIDE DEF last
    <3> SUFFICES ASSUME "copy" \notin askew', \A k \in Movements' : Plain(ledger'[k]),
                        NEW d \in Drums
                 PROVE  drum'[d].left = Length[d] - ConsumedFrom(d)'
      BY DEF DrumsQuiet, DrumDrift
    <3>4. drum[d].left = Length[d] - ConsumedFrom(d)
      <4>1. "copy" \notin askew /\ \A k \in Movements : Plain(ledger[k])
        BY <3>2, <3>3
      <4> QED BY <4>1 DEF DrumsQuiet, DrumDrift
    <3>5. /\ ConsumedFrom(d) \in Nat
          /\ ConsumedFrom(d)' = IF r.drum = d /\ r.to \in Consuming
                                THEN ConsumedFrom(d) + r.qty ELSE ConsumedFrom(d)
      BY <3>1, SumsPosted DEF IInv
    <3>6. /\ drum[d] \in Drum /\ drum[d].left \in Nat /\ drum[d].left <= Length[d]
          /\ drum \in [Drums -> Drum] /\ r.qty \in Nat /\ Length[d] \in Nat
      BY <3>1, LengthAssumption DEF IInv, TypeOK, Drum, Request
    <3>7. CASE r.drum # d
      <4>1. drum'[d] = drum[d]
        BY <3>1, <3>6, <3>7 DEF DrumAfter
      <4> QED BY <3>4, <3>5, <3>7, <4>1
    <3>8. CASE r.drum = d
      <4>1. d # NoOne
        BY NamesAssumption
      <4>2. copy = drum[d]
        BY <3>2, <3>8, <4>1 DEF Askew
      <4>3. Plain(r)
        BY <3>3
      <4>4. drum'[d] = DrumRow(r, copy, drum[d])
        BY <3>1, <3>6, <3>8, <4>1 DEF DrumAfter
      <4>5. CASE r.to \in Consuming
        <5>1. r.qty <= drum[d].left
          BY <3>1, <3>8, <4>1, <4>2, <4>5 DEF HasLength
        <5>2. drum'[d].left = drum[d].left - r.qty
          BY <4>2, <4>4, <4>5 DEF DrumRow
        <5> QED BY <3>4, <3>5, <3>6, <3>8, <4>5, <5>2
      <4>6. CASE r.to \notin Consuming
        <5>1. ~ (r.qty < copy.left)
          BY <3>6, <3>8, <4>1, <4>2, <4>3, <4>6
        <5>2. drum'[d].left = drum[d].left
          BY <3>6, <4>4, <4>6, <5>1 DEF DrumRow, Drum
        <5> QED BY <3>4, <3>5, <4>6, <5>2
      <4> QED BY <4>5, <4>6
    <3> QED BY <3>7, <3>8
  <2>2. CASE UNCHANGED <<drum, ledger, askew>>
    BY <2>2, SumsKept DEF DrumsQuiet, DrumDrift, Movements
  <2> QED BY <2>1, <2>2 DEF Next, vars, Ask, AskReversal, Refuse, Abort
<1> QED BY <1>1, <1>2, <1>3, IInvAlways, CacheIsTheLedger, PTL DEF Spec, CheckStaysQuiet

-----------------------------------------------------------------------------
(* Metres on drums.                                                        *)

\* What a row holds on the drums dr.
Metres(dr, n, i, c) ==
    MapThenSumSet(LAMBDA d : dr[d].left,
                  {d \in Drums : ItemOf[d] = i /\ dr[d].node = n /\ dr[d].cond = c})

\* The part of it that is on each.
Part(dr, n, i, c) ==
    [d \in Drums |-> IF ItemOf[d] = i /\ dr[d].node = n /\ dr[d].cond = c
                     THEN dr[d].left ELSE 0]

\* What a row holds on drums is the sum of the parts.
LEMMA MetresAreParts ==
    ASSUME NEW dr \in [Drums -> Drum], NEW n, NEW i, NEW c
    PROVE  /\ Metres(dr, n, i, c) = SumFun(Part(dr, n, i, c), Drums)
           /\ Metres(dr, n, i, c) \in Nat
           /\ \A d \in Drums : Part(dr, n, i, c)[d] \in Nat
<1> DEFINE there == {d \in Drums : ItemOf[d] = i /\ dr[d].node = n /\ dr[d].cond = c}
           some == [d \in there |-> dr[d].left]
           left == [d \in Drums |-> dr[d].left]
           part == Part(dr, n, i, c)
<1>1. IsFiniteSet(there) /\ IsFiniteSet(Drums) /\ Drums \cap there = there
  BY DrumsAssumption, FS_Subset
<1>2. /\ \A d \in Drums : left[d] \in Nat
      /\ \A d \in there : left[d] \in Int /\ some[d] = left[d]
  BY DEF Drum
<1>3. Metres(dr, n, i, c) = SumFun(some, there)
  BY DEF Metres, SumFun, MapThenSumSet, MapThenFoldSet
<1>4. part = [d \in Drums |-> IF d \in there THEN left[d] ELSE 0]
  BY DEF Part
<1>5. \A d \in Drums : part[d] \in Nat
  BY <1>2, <1>4
<1> HIDE DEF there, some, left, part
<1>6. SumFun(some, there) = SumFun(left, there)
  BY <1>1, <1>2, SumSame
<1>7. SumFun(left, Drums \cap there) = SumFun(part, Drums)
  <2>1. \A d \in Drums : left[d] \in Int
    BY <1>2
  <2> QED BY <1>1, <1>4, <2>1, SumWhere
<1>8. SumFun(part, Drums) \in Nat
  BY <1>1, <1>5, SumNonNegative
<1> QED BY <1>1, <1>3, <1>5, <1>6, <1>7, <1>8 DEF part

\* When one drum changes, each row changes by the part that is on it.
LEMMA OneDrumChanges ==
    ASSUME NEW dr \in [Drums -> Drum], NEW ds \in [Drums -> Drum], NEW e \in Drums,
           \A d \in Drums \ {e} : ds[d] = dr[d],
           NEW n, NEW i, NEW c
    PROVE  Metres(ds, n, i, c) = Metres(dr, n, i, c) + Part(ds, n, i, c)[e] - Part(dr, n, i, c)[e]
<1> DEFINE before == Part(dr, n, i, c)
           after == Part(ds, n, i, c)
<1>1. \A d \in Drums \ {e} : after[d] = before[d]
  BY DEF Part
<1>2. /\ Metres(dr, n, i, c) = SumFun(before, Drums)
      /\ Metres(ds, n, i, c) = SumFun(after, Drums)
      /\ \A d \in Drums : before[d] \in Int /\ after[d] \in Int
  BY MetresAreParts
<1> HIDE DEF before, after
<1>3. SumFun(after, Drums) = SumFun(before, Drums) + after[e] - before[e]
  BY <1>1, <1>2, DrumsAssumption, SumChange
<1> QED BY <1>2, <1>3 DEF before, after

\* A line is about the item of what it names, a count leaves the mode to the item type,
\* and a reversal says what it reverses.
Consistent(r) ==
    /\ r.unit # NoOne => r.item = ItemOf[r.unit]
    /\ r.drum # NoOne => r.item = ItemOf[r.drum]
    /\ r.type = "ADJUST" => r.mode = DefaultMode[r.item]
    /\ r.type = "REVERSAL" => r.of # 0

RequestsConsistent ==
    /\ \A k \in Movements : Consistent(ledger[k])
    /\ \A p \in Procs : txn[p] # Idle => Consistent(txn[p].req)

\* A drum that was not received is not anywhere yet.
NewDrumsOutside == \A d \in Drums : Received(d) \/ drum[d].node = External

\* Documents and voids ask only for consistent lines.
LEMMA AlwaysConsistent == Spec => []RequestsConsistent
<1>1. Init => RequestsConsistent
  BY DEF Init, RequestsConsistent, Movements
<1>2. IInv /\ RequestsConsistent /\ [Next]_vars => RequestsConsistent'
  <2> SUFFICES ASSUME IInv, RequestsConsistent, [Next]_vars PROVE RequestsConsistent'
    OBVIOUS
  <2>1. ASSUME NEW p \in Procs, NEW r, NEW copy, Consistent(r),
               txn' = [txn EXCEPT ![p] = [req |-> r, copy |-> copy]], UNCHANGED ledger
        PROVE  RequestsConsistent'
    <3>1. \A q \in Procs : txn'[q] = IF q = p THEN [req |-> r, copy |-> copy] ELSE txn[q]
      BY <2>1 DEF IInv, TypeOK
    <3>2. \A q \in Procs : (txn[q] # Idle)' => Consistent(txn[q].req)'
      BY <2>1, <3>1 DEF RequestsConsistent, Consistent
    <3> QED BY <2>1, <3>2 DEF RequestsConsistent, Movements, Consistent
  <2>2. ASSUME NEW p \in Procs, Ask(p) PROVE RequestsConsistent'
    <3>1. PICK r \in Requests :
            txn' = [txn EXCEPT ![p] =
                      [req |-> r, copy |-> IF r.drum = NoOne THEN NoOne ELSE drum[r.drum]]]
      BY <2>2 DEF Ask
    <3>2. Consistent(r)
      BY RequestsAssumption DEF Consistent
    <3>3. UNCHANGED ledger
      BY <2>2 DEF Ask
    <3> QED BY <2>1, <3>1, <3>2, <3>3
  <2>3. ASSUME NEW p \in Procs, AskReversal(p) PROVE RequestsConsistent'
    <3>1. PICK i \in Movements :
            txn' = [txn EXCEPT ![p] =
                      [req  |-> InverseOf(i),
                       copy |-> IF ledger[i].drum = NoOne THEN NoOne
                                                          ELSE drum[ledger[i].drum]]]
      BY <2>3 DEF AskReversal
    <3>2. ledger[i] \in Request /\ i # 0 /\ Consistent(ledger[i])
      BY DEF IInv, TypeOK, Movements, RequestsConsistent
    <3>3. Consistent(InverseOf(i))
      BY <3>2 DEF Consistent, InverseOf, Request
    <3>4. UNCHANGED ledger
      BY <2>3 DEF AskReversal
    <3> QED BY <2>1, <3>1, <3>3, <3>4
  <2>4. ASSUME NEW p \in Procs, Post(p) PROVE RequestsConsistent'
    <3> DEFINE r == txn[p].req
               last == Len(ledger) + 1
    <3>1. r \in Request /\ ledger' = Append(ledger, r)
      BY <2>4, Posting
    <3>2. Consistent(r)
      BY <2>4 DEF Post, RequestsConsistent
    <3>3. txn' = [txn EXCEPT ![p] = Idle]
      BY <2>4 DEF Post
    <3> HIDE DEF r
    <3>4. /\ Movements' = Movements \cup {last} /\ ledger'[last] = r
          /\ \A k \in Movements : ledger'[k] = ledger[k]
      BY <3>1, Appended DEF IInv
    <3> HIDE DEF last
    <3>5. \A k \in Movements' : Consistent(ledger[k])'
      BY <3>2, <3>4 DEF RequestsConsistent, Consistent
    <3>6. \A q \in Procs : txn'[q] # Idle => txn'[q] = txn[q]
      BY <3>3 DEF IInv, TypeOK
    <3>7. \A q \in Procs : (txn[q] # Idle)' => Consistent(txn[q].req)'
      BY <3>6 DEF RequestsConsistent, Consistent
    <3> QED BY <3>5, <3>7 DEF RequestsConsistent
  <2>5. ASSUME NEW p \in Procs, Refuse(p) \/ Abort(p) PROVE RequestsConsistent'
    <3>1. txn' = [txn EXCEPT ![p] = Idle] /\ UNCHANGED ledger
      BY <2>5 DEF Refuse, Abort
    <3>2. \A q \in Procs : txn'[q] # Idle => txn'[q] = txn[q]
      BY <3>1 DEF IInv, TypeOK
    <3>3. \A q \in Procs : (txn[q] # Idle)' => Consistent(txn[q].req)'
      BY <3>2 DEF RequestsConsistent, Consistent
    <3> QED BY <3>1, <3>3 DEF RequestsConsistent, Movements, Consistent
  <2>6. CASE UNCHANGED vars
    BY <2>6 DEF vars, RequestsConsistent, Movements, Consistent
  <2> QED BY <2>2, <2>3, <2>4, <2>5, <2>6 DEF Next
<1> QED BY <1>1, <1>2, IInvAlways, PTL DEF Spec

\* Only a movement that names a drum moves it.
LEMMA NewDrumsWait == Spec => []NewDrumsOutside
<1>1. Init => NewDrumsOutside
  BY DEF Init, NewDrumsOutside
<1>2. IInv /\ NewDrumsOutside /\ [Next]_vars => NewDrumsOutside'
  <2> SUFFICES ASSUME IInv, NewDrumsOutside, [Next]_vars PROVE NewDrumsOutside'
    OBVIOUS
  <2>1. ASSUME NEW p \in Procs, Post(p) PROVE NewDrumsOutside'
    <3> DEFINE r == txn[p].req
               copy == txn[p].copy
               last == Len(ledger) + 1
    <3>1. r \in Request /\ ledger' = Append(ledger, r) /\ drum' = DrumAfter(r, copy)
      BY <2>1, Posting
    <3> HIDE DEF r, copy
    <3>2. /\ Movements' = Movements \cup {last} /\ ledger'[last] = r
          /\ \A k \in Movements : ledger'[k] = ledger[k]
      BY <3>1, Appended DEF IInv
    <3> HIDE DEF last
    <3> SUFFICES ASSUME NEW d \in Drums PROVE Received(d)' \/ drum'[d].node = External
      BY DEF NewDrumsOutside
    <3>3. CASE r.drum = d
      BY <3>2, <3>3 DEF Received
    <3>4. CASE r.drum # d
      <4>1. drum'[d] = drum[d]
        BY <3>1, <3>4 DEF DrumAfter, IInv, TypeOK
      <4>2. Received(d) => Received(d)'
        BY <3>2 DEF Received
      <4> QED BY <4>1, <4>2 DEF NewDrumsOutside
    <3> QED BY <3>3, <3>4
  <2>2. CASE UNCHANGED <<drum, ledger>>
    BY <2>2 DEF NewDrumsOutside, Received, Movements
  <2> QED BY <2>1, <2>2 DEF Next, vars, Ask, AskReversal, Refuse, Abort
<1> QED BY <1>1, <1>2, IInvAlways, PTL DEF Spec

\* A movement that is as it should be leaves the metres of every row backed.
LEMMA PostKeepsDrumsBacked ==
    ASSUME IInv, RequestsConsistent, NewDrumsOutside, NonNegative, NEW p \in Procs, Post(p),
           DrumsBacked
    PROVE  DrumsBacked'
<1> DEFINE r == txn[p].req
           copy == txn[p].copy
           last == Len(ledger) + 1
<1>1. /\ r \in Request /\ r.from # r.to /\ ledger' = Append(ledger, r)
      /\ bal' = BalancesAfter(r) /\ drum' = DrumAfter(r, copy)
      /\ DrumIsNew(r) /\ HasLength(r, copy) /\ InStock(r) /\ LooseFits(r) /\ Tracked(r)
      /\ r.drum # NoOne => copy \in Drum /\ copy.left <= Length[r.drum]
  BY Posting DEF Accepted, WellFormed
<1>2. askew' = askew \cup Askew(r, copy) /\ Consistent(r)
  BY DEF Post, RequestsConsistent
<1> HIDE DEF r, copy
<1>3. /\ Movements' = Movements \cup {last} /\ ledger'[last] = r
      /\ \A k \in Movements : ledger'[k] = ledger[k]
  BY <1>1, Appended DEF IInv
<1> HIDE DEF last
<1> SUFFICES ASSUME askew' = {}, \A k \in Movements' : ledger'[k].of # 0 => ledger'[k].mode # "BULK",
                    NEW n \in Nodes \ {External}, NEW i \in Metered, NEW c \in Conds
             PROVE  OnDrums(n, i, c)' <= bal'[n][i][c]
  BY DEF DrumsBacked
<1> DEFINE on == Metres(drum, n, i, c)
           onAfter == Metres(drum', n, i, c)
<1>4. OnDrums(n, i, c) = on /\ OnDrums(n, i, c)' = onAfter
  BY DEF OnDrums, Metres, MapThenSumSet, MapThenFoldSet
<1>5. /\ drum \in [Drums -> Drum] /\ drum' \in [Drums -> Drum]
      /\ i \in Items /\ bal[n][i][c] \in Int /\ r.qty \in Nat
      /\ bal[n][i][c] >= 0
  <2>1. drum' \in [Drums -> Drum]
    BY <1>1, DrumsTyped DEF IInv
  <2>2. drum \in [Drums -> Drum] /\ bal \in [Nodes -> [Items -> [Conds -> Int]]]
    BY DEF IInv, TypeOK
  <2>3. i \in Items /\ r.qty \in Nat
    BY <1>1 DEF Metered, Request
  <2>4. bal[n][i][c] \in Int
    BY <2>2, <2>3
  <2>5. bal[n][i][c] >= 0
    BY <2>3 DEF NonNegative
  <2> QED BY <2>1, <2>2, <2>3, <2>4, <2>5
<1>6. on \in Nat /\ onAfter \in Nat
  BY <1>5, MetresAreParts
<1>7. on <= bal[n][i][c]
  <2>1. askew = {} /\ \A k \in Movements : ledger[k].of # 0 => ledger[k].mode # "BULK"
    BY <1>2, <1>3
  <2> QED BY <1>4, <2>1 DEF DrumsBacked
<1>8. bal'[n][i][c] =
         IF n = r.from /\ i = r.item /\ c = r.held THEN bal[n][i][c] - r.qty
         ELSE IF n = r.to /\ i = r.item /\ c = r.cond THEN bal[n][i][c] + r.qty
         ELSE bal[n][i][c]
  BY <1>1, <1>5, BalanceRow DEF IInv
<1> HIDE DEF on, onAfter
<1>9. CASE r.drum = NoOne
  <2>1. onAfter = on
    BY <1>1, <1>9 DEF DrumAfter, on, onAfter
  <2>2. CASE n = r.from /\ i = r.item /\ c = r.held
    <3>1. r.unit = NoOne
      BY <1>1, <1>2, <2>2 DEF Consistent, Metered, Request
    <3>2. r.mode = "BULK"
      BY <1>1, <1>9, <3>1 DEF Tracked, Request, Modes
    <3>3. /\ DefaultMode[r.item] = "REEL"
          /\ r.type \notin {"ADJUST", "REVERSAL"}
      BY <1>2, <1>3, <2>2, <3>2 DEF Consistent, Metered
    <3>4. bal[n][i][c] >= r.qty
      BY <1>1, <2>2 DEF InStock
    <3>5. on > 0 => r.qty <= bal[n][i][c] - on
      BY <1>1, <1>4, <2>2, <3>2, <3>3 DEF LooseFits
    <3> QED BY <1>4, <1>5, <1>6, <1>8, <2>1, <2>2, <3>4, <3>5
  <2> QED BY <1>4, <1>5, <1>6, <1>7, <1>8, <2>1, <2>2
<1>10. CASE r.drum # NoOne
  <2> DEFINE d == r.drum
             old == drum[d]
             new == DrumRow(r, copy, old)
             P1 == IF ItemOf[d] = i /\ old.node = n /\ old.cond = c THEN old.left ELSE 0
             P2 == IF ItemOf[d] = i /\ new.node = n /\ new.cond = c THEN new.left ELSE 0
  <2>1. d \in Drums /\ r.item = ItemOf[d]
    BY <1>1, <1>2, <1>10 DEF Request, Consistent
  <2>2. copy = old
    BY <1>2, <1>10 DEF Askew
  <2>3. drum' = [drum EXCEPT ![d] = new]
    BY <1>1, <1>10 DEF DrumAfter
  <2>4. drum'[d] = new /\ \A e \in Drums \ {d} : drum'[e] = drum[e]
    BY <1>5, <2>1, <2>3
  <2>5. old \in Drum /\ new \in Drum /\ old.left \in Nat /\ new.left \in Nat
    BY <1>5, <2>1, <2>4 DEF Drum
  <2>6. onAfter = on + P2 - P1
    <3>1. Part(drum, n, i, c)[d] = P1 /\ Part(drum', n, i, c)[d] = P2
      BY <2>1, <2>4 DEF Part
    <3>2. onAfter = on + Part(drum', n, i, c)[d] - Part(drum, n, i, c)[d]
      BY <1>5, <2>1, <2>4, OneDrumChanges DEF on, onAfter
    <3> QED BY <3>1, <3>2
  <2> HIDE DEF d
  <2>7. new = IF r.qty < old.left
              THEN [node |-> old.node, cond |-> r.cond, left |-> old.left - r.qty]
              ELSE IF r.to \in Consuming
              THEN [node |-> r.to, cond |-> r.cond, left |-> old.left - r.qty]
              ELSE [old EXCEPT !.node = r.to, !.cond = r.cond]
    BY <2>2 DEF DrumRow
  <2>8. r.to \in Consuming => r.qty <= old.left
    BY <1>1, <1>10, <2>2 DEF HasLength
  <2> HIDE DEF old, new
  <2>9. /\ r.qty < old.left => new.node = old.node /\ new.left = old.left - r.qty
        /\ ~(r.qty < old.left) => /\ new.node = r.to /\ new.left <= r.qty
                                  /\ r.to \in Consuming => new.left = 0
        /\ new.cond = r.cond
    BY <1>5, <2>5, <2>7, <2>8 DEF Drum
  <2>10. CASE r.from # External
    <3>1. ~Mismatched(r)
      <4>1. "place" \notin Askew(r, copy)
        BY <1>2
      <4> QED BY <1>10, <2>10, <4>1 DEF Askew
    <3>2. old.left \in Nat /\ r.qty \in Nat
      BY <1>5, <2>5
    <3>3. /\ old.node = r.from /\ old.cond = r.held
          /\ ~(r.qty > old.left) /\ ~(r.qty < old.left /\ r.cond # r.held)
      BY <3>1 DEF Mismatched, old, d
    <3>4. /\ r.qty <= old.left
          /\ r.qty < old.left => r.cond = r.held
      BY <3>2, <3>3
    <3> DEFINE q == r.qty
               here == ItemOf[d] = i /\ n = r.from /\ c = r.held
               there == ItemOf[d] = i /\ n = r.to /\ c = r.cond
               b == bal[n][i][c]
    <3>5. /\ P1 = IF here THEN old.left ELSE 0
          /\ bal'[n][i][c] = IF here THEN b - q ELSE IF there THEN b + q ELSE b
      BY <1>8, <2>1, <3>3
    <3>6. CASE q < old.left
      <4>1. P2 = IF here THEN old.left - q ELSE 0
        BY <2>9, <3>3, <3>4, <3>6
      <4> HIDE DEF P1, P2, here, there
      <4> QED BY <1>4, <1>5, <1>6, <1>7, <2>6, <3>2, <3>5, <4>1
    <3>7. CASE ~(q < old.left)
      <4>1. P2 = (IF there THEN new.left ELSE 0) /\ new.left <= q /\ ~(here /\ there)
        BY <1>1, <2>9, <3>7
      <4>2. q = old.left
        BY <3>2, <3>4, <3>7
      <4> HIDE DEF P1, P2, here, there
      <4> QED BY <1>4, <1>5, <1>6, <1>7, <2>5, <2>6, <3>2, <3>5, <4>1, <4>2
    <3> QED BY <3>6, <3>7
  <2>11. CASE r.from = External
    <3>1. old.node = External
      BY <1>1, <1>10, <2>1, <2>11 DEF DrumIsNew, NewDrumsOutside, old, d
    <3> QED BY <1>1, <1>4, <1>5, <1>6, <1>7, <1>8, <2>1, <2>5, <2>6, <2>9, <2>11, <3>1
  <2> QED BY <2>10, <2>11
<1> QED BY <1>9, <1>10

\* D10: the open drums at a node hold no more than its balance, as long as movements name
\* drums where they stand and as they are, and no loose receipt has been voided.
THEOREM DrumsAreInStock == Spec => []DrumsBacked
<1>1. Init => DrumsBacked
  <2> SUFFICES ASSUME Init, NEW n \in Nodes \ {External}, NEW i \in Metered, NEW c \in Conds
               PROVE  OnDrums(n, i, c) <= bal[n][i][c]
    BY DEF DrumsBacked
  <2>1. bal[n][i][c] = 0
    BY DEF Init, Metered
  <2>2. OnDrums(n, i, c) = SumFun([d \in {} |-> drum[d].left], {})
    <3>1. {d \in Drums : ItemOf[d] = i /\ drum[d].node = n /\ drum[d].cond = c} = {}
      BY DEF Init
    <3>2. OnDrums(n, i, c) = MapThenSumSet(LAMBDA d : drum[d].left, {})
      BY <3>1 DEF OnDrums
    <3> QED BY <3>2 DEF SumFun, MapThenSumSet, MapThenFoldSet
  <2> QED BY <2>1, <2>2, SumEmpty
<1>2. /\ IInv /\ RequestsConsistent /\ NewDrumsOutside /\ NonNegative
      /\ DrumsBacked /\ [Next]_vars
      => DrumsBacked'
  <2> SUFFICES ASSUME IInv, RequestsConsistent, NewDrumsOutside, NonNegative,
                      DrumsBacked, [Next]_vars
               PROVE  DrumsBacked'
    OBVIOUS
  <2>1. CASE UNCHANGED <<drum, bal, ledger, askew>>
    <3>1. \A n, i, c : OnDrums(n, i, c)' = Metres(drum', n, i, c) /\ OnDrums(n, i, c) = Metres(drum, n, i, c)
      BY DEF OnDrums, Metres, MapThenSumSet, MapThenFoldSet
    <3> QED BY <2>1, <3>1 DEF DrumsBacked, Movements
  <2> QED BY <2>1, PostKeepsDrumsBacked DEF Next, vars, Ask, AskReversal, Refuse, Abort
<1> QED BY <1>1, <1>2, IInvAlways, AlwaysConsistent, NewDrumsWait, NeverNegative, PTL DEF Spec
=============================================================================
