----------------------------- MODULE Documents -----------------------------
(***************************************************************************)
(* The documents that post stock: gate-ins and returns (receiving),        *)
(* closeouts (jobs), handovers (custody), dispositions and disposals       *)
(* (disposition), counts and transfers (stock/counting).                   *)
(*                                                                         *)
(* A document posts SEVERAL movements in one transaction, in the order of  *)
(* its lines.  Each movement locks its two balance rows in their order and *)
(* the locks stay to the end, so here a posting is a sequence of steps:    *)
(* Load (get_object, no lock), Begin (the status test on that copy, and    *)
(* the number), then for every movement NextLine, Lock, Move, and Commit   *)
(* or Rollback.  What a transaction has changed is its own until Commit    *)
(* (READ COMMITTED).  Handlers that post nothing are one step.             *)
(*                                                                         *)
(* Faulty variants of an operator (used by no action) stand just before it *)
(* and are marked F.                                                       *)
(***************************************************************************)
EXTENDS Integers, Sequences, FiniteSets, SequencesExt

CONSTANTS
    Docs,           \* the documents there may be
    Procs, Nobody,  \* web workers; the holder of a free lock
    Sheet,          \* of each document: its kind, and the versions of its lines
    Present,        \* which documents exist together to begin with
    Order,          \* balance rows <<node, condition>> in the order of their keys
    Outside,        \* nodes that may go negative: the world outside the books
    Inside,         \* nodes inside the yard perimeter
    Opening,        \* balances to begin with
    MaxRounds,      \* bound: how many times a document is routed for approval
    MaxRows         \* bound: a document that was overtaken and has this many ledger
                    \* rows is left alone

Rows == ToSet(Order)
Kinds == {"GATE_IN", "RETURN", "CLOSEOUT", "HANDOVER", "DISPOSITION", "DISPOSAL",
          "COUNT", "TRANSFER"}

Line == [from : Seq(Rows) \ {<< >>}, to : Rows, qty : Nat]

\* A row exists for whatever is reversed in the condition it was assessed in.
ASSUME SheetAssumption ==
    \A d \in Docs : /\ Sheet[d].kind \in Kinds
                    /\ 1 \in DOMAIN Sheet[d].versions
                    /\ \A v \in DOMAIN Sheet[d].versions :
                          /\ Sheet[d].versions[v] \in Seq(Line)
                          /\ \A k \in DOMAIN Sheet[d].versions[v] :
                                LET line == Sheet[d].versions[v][k]
                                IN  /\ <<"external", line.to[2]>> \in Rows
                                    /\ \A i \in DOMAIN line.from :
                                          <<line.from[i][1], line.to[2]>> \in Rows
\* A return comes off the record of the person who hands it back (GateIn.clean).
ASSUME HolderAssumption ==
    \A d \in Docs : Sheet[d].kind = "RETURN" =>
        \A v \in DOMAIN Sheet[d].versions : \A k \in DOMAIN Sheet[d].versions[v] :
           \A i \in DOMAIN Sheet[d].versions[v][k].from :
              Sheet[d].versions[v][k].from[i][1] \notin Outside
ASSUME OrderAssumption == Order \in Seq(Rows)
\* A balance is that of a node in a condition.
ASSUME RowAssumption == \A r \in Rows : r = <<r[1], r[2]>>
ASSUME OpeningAssumption == Opening \in [Rows -> Nat]
ASSUME ProcAssumption == Nobody \notin Procs

VARIABLES
    status,     \* of each document; ABSENT: never made, or discarded
    version,    \* which lines it has now
    asked,      \* its open approval request is pending
    rounds,     \* how many times it was routed
    bal,        \* committed balance of each row
    ledger,     \* committed movements of each document, in order
    held,       \* who holds a lock: the process, or Nobody
    txn,        \* the transaction of each process
    overtaken   \* history: a handler committed on a copy that was out of date

vars == <<status, version, asked, rounds, bal, ledger, held, txn, overtaken>>
docVars == <<status, version, asked, rounds>>
bookVars == <<bal, ledger, held>>

-----------------------------------------------------------------------------
(* What the kinds have in common and where they differ.                    *)

\* postable: the statuses its posting accepts of the copy it loaded; posted: the one it
\* leaves; series: the number it allocates, under the lock of that row; also: its
\* other requests.
GateIn == [first |-> "DRAFT", postable |-> {"DRAFT"}, posted |-> "POSTED",
           series |-> << <<"gate-in", "number">> >>, also |-> {"VOID", "EDIT", "DISCARD"}]
Closeout == [first |-> "DRAFT", postable |-> {"DRAFT"}, posted |-> "SUBMITTED",
             series |-> << >>, also |-> {"EDIT"}]
Handover == [first |-> "PENDING", postable |-> {"PENDING"}, posted |-> "ACKNOWLEDGED",
             series |-> << <<"handover", "number">> >>, also |-> {"EDIT", "DECLINE"}]
Disposition == [first |-> "DRAFT", postable |-> {"APPROVED"}, posted |-> "POSTED",
                series |-> << >>, also |-> {"EDIT", "SUBMIT", "APPROVE", "REJECT"}]
Disposal == [Disposition EXCEPT !.posted = "DISPOSED"]
Count == [first |-> "DRAFT", postable |-> {"DRAFT"}, posted |-> "POSTED",
          series |-> << <<"count", "number">> >>, also |-> {"EDIT", "ADD_LINE"}]
\* Not a document of the program: one request, asked once.
Transfer == [first |-> "DRAFT", postable |-> {"DRAFT"}, posted |-> "POSTED",
             series |-> << >>, also |-> {}]

Protocol == [GATE_IN |-> GateIn, RETURN |-> GateIn, CLOSEOUT |-> Closeout,
             HANDOVER |-> Handover, DISPOSITION |-> Disposition, DISPOSAL |-> Disposal,
             COUNT |-> Count, TRANSFER |-> Transfer]
Of(d) == Protocol[Sheet[d].kind]
AllSeries == UNION {ToSet(Protocol[k].series) : k \in Kinds}

ASSUME SeriesAssumption == AllSeries \cap Rows = {}

LinesOf(d) == Sheet[d].versions[version[d]]

NoTxn == << >>  \* of a process with no transaction open

Init ==
    /\ \E there \in Present :
          status = [d \in Docs |-> IF d \in there THEN Of(d).first ELSE "ABSENT"]
    /\ version = [d \in Docs |-> 1]
    /\ asked = [d \in Docs |-> FALSE]
    /\ rounds = [d \in Docs |-> 0]
    /\ bal = [r \in Rows |-> Opening[r]]
    /\ ledger = [d \in Docs |-> << >>]
    /\ held = [r \in Rows \cup AllSeries |-> Nobody]
    /\ txn = [p \in Procs |-> NoTxn]
    /\ overtaken = [d \in Docs |-> FALSE]

-----------------------------------------------------------------------------
(* A transaction.                                                          *)

Busy(p) == txn[p] # NoTxn
Posting(p) == Busy(p) /\ txn[p].begun
Waiting(p) == Posting(p) /\ txn[p].need # << >>

\* What p sees of a balance: the committed value and its own changes.
Seen(p, r) == bal[r] + txn[p].delta[r]

\* What a request knows of its document, and has done.
Opened(d, op) ==
    [doc |-> d, op |-> op, status |-> status[d], asked |-> asked[d], begun |-> FALSE,
     version |-> 0, todo |-> << >>, moving |-> << >>, need |-> << >>,
     delta |-> [r \in Rows |-> 0], made |-> << >>]

\* get_object(): the document as it is now, without a lock.
Load(p) ==
    /\ ~Busy(p)
    /\ \E d \in Docs : \E op \in {"POST"} \cup Of(d).also :
          /\ status[d] # "ABSENT" /\ (overtaken[d] => Len(ledger[d]) < MaxRows)
          /\ txn' = [txn EXCEPT ![p] = Opened(d, op)]
    /\ UNCHANGED <<docVars, bookVars, overtaken>>

Loaded(p, op) == Busy(p) /\ ~txn[p].begun /\ txn[p].op = op
DocOf(p) == txn[p].doc
KindOf(p) == Sheet[DocOf(p)].kind

Release(p) == [l \in DOMAIN held |-> IF held[l] = p THEN Nobody ELSE held[l]]
\* F: a rollback that forgets the locks.
ReleaseNothing(p) == held
\* The end of a transaction that leaves nothing behind.
Freed(p) == Release(p)

Rollback(p) ==
    /\ held' = Freed(p)
    /\ txn' = [txn EXCEPT ![p] = NoTxn]
    /\ UNCHANGED <<docVars, bal, ledger, overtaken>>

\* An exception anywhere (a line that does not validate, a movement the ledger refuses
\* for a reason not modelled here), or a client that goes away before the commit.
Abort(p) == Busy(p) /\ Rollback(p)

-----------------------------------------------------------------------------
(* Posting.                                                                *)

\* The ledger rows of a document that no REVERSAL points at.
Standing(d) ==
    {k \in DOMAIN ledger[d] :
        /\ ledger[d][k].reverses = 0
        /\ \A m \in DOMAIN ledger[d] : ledger[d][m].reverses # k}

\* F: the sides are not swapped.
SameAgain(d, k) ==
    LET m == ledger[d][k]
    IN  [line |-> m.line, from |-> m.from, to |-> m.to, qty |-> m.qty, reverses |-> k]
\* A reversal goes back in the ASSESSED condition: from_condition is not carried.
ReversalOf(d, k) ==
    LET m == ledger[d][k]
    IN  [line |-> m.line, from |-> m.to, to |-> <<m.from[1], m.to[2]>>, qty |-> m.qty, reverses |-> k]

\* What stands, in the order it was posted, the other way round.
Reversals(d) ==
    {[i \in DOMAIN s |-> ReversalOf(d, s[i])] :
        s \in {t \in [1 .. Cardinality(Standing(d)) -> Standing(d)] :
                 \A i, j \in DOMAIN t : i < j => t[i] < t[j]}}

\* is_inside_perimeter, for a transfer.
StaysInside(d) ==
    Sheet[d].kind = "TRANSFER" =>
        \A k \in DOMAIN LinesOf(d) : {LinesOf(d)[k].to[1], LinesOf(d)[k].from[1][1]} \subseteq Inside

\* E5: a count of client-owned stock posts only from PENDING_APPROVAL.
NeedsTheClient(d) == Sheet[d].kind = "COUNT" /\ Sheet[d].client

\* F: a draft that was posted already is posted again.
MayBeginAnyStatus(d, copy) == LinesOf(d) # << >> /\ StaysInside(d) /\ ~NeedsTheClient(d)
\* validate_for_posting and its like, on the loaded copy.
MayBegin(d, copy) ==
    /\ copy.status \in Of(d).postable
    /\ LinesOf(d) # << >> /\ StaysInside(d) /\ ~NeedsTheClient(d)

BeginPost(p) ==
    /\ Loaded(p, "POST") /\ MayBegin(DocOf(p), txn[p])
    /\ txn' = [txn EXCEPT ![p] = [txn[p] EXCEPT !.begun = TRUE,
                  !.need = Of(DocOf(p)).series, !.version = version[DocOf(p)],
                  !.todo = [k \in DOMAIN LinesOf(DocOf(p)) |-> k]]]
    /\ UNCHANGED <<docVars, bookVars, overtaken>>

Rank(r) == CHOOSE k \in DOMAIN Order : Order[k] = r

\* F: each movement locks its own side first.
OwnSideFirst(m) == <<m.from, m.to>>
\* _lock_balances: both rows in the order of (node, condition), each once.
LockOrder(m) ==
    IF m.from = m.to THEN <<m.from>>
    ELSE IF Rank(m.from) < Rank(m.to) THEN <<m.from, m.to>> ELSE <<m.to, m.from>>

\* The rows to lock for the next movement; to lock a row again is to go on.
Wanted(movements) == IF movements = << >> THEN << >> ELSE LockOrder(Head(movements))

\* void_gate_in: the movements to reverse are read at once, the rows locked later (the
\* code looks again before each whether another void has reversed it meanwhile).
BeginVoid(p) ==
    /\ Loaded(p, "VOID") /\ txn[p].status = "POSTED"
    /\ \E movements \in Reversals(DocOf(p)) :
          txn' = [txn EXCEPT ![p] = [txn[p] EXCEPT !.begun = TRUE, !.version = version[DocOf(p)],
                        !.moving = movements, !.need = Wanted(movements)]]
    /\ UNCHANGED <<docVars, bookVars, overtaken>>

\* The status test refuses.
RefusePost(p) ==
    /\ Loaded(p, "POST") /\ ~MayBegin(DocOf(p), txn[p])
    /\ Rollback(p)
RefuseVoid(p) ==
    /\ Loaded(p, "VOID") /\ txn[p].status # "POSTED"
    /\ Rollback(p)

\* held_condition_for: the row a return comes off.  The first of line.from is the
\* row in the condition the gate assessed.
HeldRow(p, line) ==
    LET others == {k \in 2 .. Len(line.from) : Seen(p, line.from[k]) > 0}
    IN  IF Seen(p, line.from[1]) >= line.qty \/ others = {} THEN line.from[1]
        ELSE line.from[CHOOSE k \in others : \A m \in others : k <= m]

Movement(k, line, from, qty) ==
    [line |-> k, from |-> from, to |-> line.to, qty |-> qty, reverses |-> 0]

\* _bulk_sources: what the holder has comes off the holder, the rest from outside
\* (in the condition assessed).
Sources(p, k) ==
    LET line == Sheet[DocOf(p)].versions[txn[p].version][k]
        row == HeldRow(p, line)
        has == Seen(p, row)
        outside == <<"external", line.to[2]>>
    IN  IF KindOf(p) # "RETURN" \/ has >= line.qty THEN <<Movement(k, line, row, line.qty)>>
        ELSE (IF has > 0 THEN <<Movement(k, line, row, has)>> ELSE << >>)
             \o <<Movement(k, line, outside, line.qty - has)>>

\* The next line of the document becomes the movements it posts.
NextLine(p) ==
    /\ Posting(p) /\ txn[p].need = << >> /\ txn[p].moving = << >> /\ txn[p].todo # << >>
    /\ LET movements == Sources(p, Head(txn[p].todo))
       IN  txn' = [txn EXCEPT ![p] = [txn[p] EXCEPT !.moving = movements, !.need = Wanted(movements),
                                              !.todo = Tail(@)]]
    /\ UNCHANGED <<docVars, bookVars, overtaken>>

\* SELECT ... FOR UPDATE of the next row (or of the number series).
Lock(p) ==
    /\ Waiting(p) /\ held[Head(txn[p].need)] \in {Nobody, p}
    /\ held' = [held EXCEPT ![Head(txn[p].need)] = p]
    /\ txn' = [txn EXCEPT ![p].need = Tail(@)]
    /\ UNCHANGED <<docVars, bal, ledger, overtaken>>

Ready(p) == Posting(p) /\ txn[p].need = << >> /\ txn[p].moving # << >>

Covers(p, m) == m.from[1] \in Outside \/ Seen(p, m.from) >= m.qty

Shift(delta, m) ==
    [r \in Rows |-> delta[r] + (IF r = m.to THEN m.qty ELSE 0) - (IF r = m.from THEN m.qty ELSE 0)]

Move(p) ==
    LET m == Head(txn[p].moving)
    IN  /\ Ready(p) /\ Covers(p, m)
        /\ txn' = [txn EXCEPT ![p] = [txn[p] EXCEPT !.delta = Shift(@, m), !.moving = Tail(@),
                                  !.need = Wanted(Tail(txn[p].moving)), !.made = Append(@, m)]]
        /\ UNCHANGED <<docVars, bookVars, overtaken>>

\* NegativeStock: the whole document is refused.
Short(p) == Ready(p) /\ ~Covers(p, Head(txn[p].moving)) /\ Rollback(p)

Done(p) == Posting(p) /\ txn[p].need = << >> /\ txn[p].moving = << >> /\ txn[p].todo = << >>

StatusAfter(p) == IF txn[p].op = "VOID" THEN "VOID" ELSE Of(DocOf(p)).posted

\* save(update_fields=[...]) of the status, and the commit.
Commit(p) ==
    LET d == DocOf(p)
    IN  /\ Done(p) /\ status[d] # "ABSENT"
        /\ status' = [status EXCEPT ![d] = StatusAfter(p)]
        /\ bal' = [r \in Rows |-> Seen(p, r)]
        /\ ledger' = [ledger EXCEPT ![d] = @ \o txn[p].made]
        /\ held' = Freed(p)
        /\ overtaken' = [overtaken EXCEPT
              ![d] = @ \/ status[d] # txn[p].status \/ version[d] # txn[p].version]
        /\ txn' = [txn EXCEPT ![p] = NoTxn]
        /\ UNCHANGED <<version, asked, rounds>>

\* The row is gone: save(update_fields) raises DatabaseError.
CommitFails(p) == Done(p) /\ status[DocOf(p)] = "ABSENT" /\ Rollback(p)

-----------------------------------------------------------------------------
(* Deadlock.                                                               *)

WaitsFor(p, q) == p # q /\ Waiting(p) /\ held[Head(txn[p].need)] = q

\* A set of transactions each of which waits for another of the set.
Circles == {S \in SUBSET Procs : S # {} /\ \A p \in S : \E q \in S : WaitsFor(p, q)}

\* PostgreSQL finds the circle and aborts one of them.
Victim(p) == (\E S \in Circles : p \in S) /\ Rollback(p)

-----------------------------------------------------------------------------
(* Handlers that post nothing: one step on the loaded copy.                *)

Finish(p, newStatus) ==
    /\ status' = [status EXCEPT ![DocOf(p)] = newStatus]
    /\ overtaken' = [overtaken EXCEPT ![DocOf(p)] = @ \/ status[DocOf(p)] # txn[p].status]
    /\ txn' = [txn EXCEPT ![p] = NoTxn]
    /\ UNCHANGED bookVars

\* PATCH.  A draft may get other lines; a gate-in takes no PATCH once posted, the
\* others take one of their header in any status.  serializer.save() writes EVERY
\* column of the copy (and inserts the row again if it was discarded).
Edit(p) ==
    /\ Loaded(p, "EDIT")
    /\ KindOf(p) \in {"GATE_IN", "RETURN"} => txn[p].status = "DRAFT"
    /\ \E v \in DOMAIN Sheet[DocOf(p)].versions :
          /\ v # version[DocOf(p)] => txn[p].status = "DRAFT" /\ KindOf(p) # "COUNT"
          /\ version' = [version EXCEPT ![DocOf(p)] = v]
    /\ Finish(p, txn[p].status)
    /\ UNCHANGED <<asked, rounds>>

\* StockCountViewSet.add_line, a row of its own: what is missing from a balance must
\* have been there.
AddLine(p) ==
    LET d == DocOf(p)
    IN  /\ Loaded(p, "ADD_LINE") /\ txn[p].status = "DRAFT" /\ LinesOf(d) = << >>
        /\ \E v \in DOMAIN Sheet[d].versions :
              /\ \A k \in DOMAIN Sheet[d].versions[v] :
                    LET line == Sheet[d].versions[v][k]
                    IN  line.from[1][1] \in Outside \/ bal[line.from[1]] >= line.qty
              /\ version' = [version EXCEPT ![d] = v]
        /\ Finish(p, status[d])
        /\ UNCHANGED <<asked, rounds>>

\* perform_destroy: only a draft is discarded.
Discard(p) ==
    /\ Loaded(p, "DISCARD") /\ txn[p].status = "DRAFT"
    /\ Finish(p, "ABSENT")
    /\ UNCHANGED <<version, asked, rounds>>

\* Whether somebody is asked: always for what a client owns, else as the rules say.
Asks(d) == IF Sheet[d].client THEN {TRUE} ELSE BOOLEAN

\* submit_disposition, submit_disposal: routed, or approved at once.
Submit(p) ==
    /\ Loaded(p, "SUBMIT") /\ txn[p].status \in {"DRAFT", "REJECTED"}
    /\ LinesOf(DocOf(p)) # << >> /\ rounds[DocOf(p)] < MaxRounds
    /\ rounds' = [rounds EXCEPT ![DocOf(p)] = @ + 1]
    /\ \E routed \in Asks(DocOf(p)) :
          /\ asked' = [asked EXCEPT ![DocOf(p)] = routed]
          /\ Finish(p, IF routed THEN "PENDING_APPROVAL" ELSE "APPROVED")
    /\ UNCHANGED version

\* approve_ and reject_: the request is read with the document.
Decide(p, op, outcome) ==
    /\ Loaded(p, op) /\ txn[p].status = "PENDING_APPROVAL" /\ txn[p].asked
    /\ asked' = [asked EXCEPT ![DocOf(p)] = FALSE]
    /\ Finish(p, outcome)
    /\ UNCHANGED <<version, rounds>>
Approve(p) == Decide(p, "APPROVE", "APPROVED")
Reject(p) == Decide(p, "REJECT", "REJECTED")

\* decline_transfer
Decline(p) ==
    /\ Loaded(p, "DECLINE") /\ txn[p].status = "PENDING"
    /\ Finish(p, "DECLINED")
    /\ UNCHANGED <<version, asked, rounds>>

-----------------------------------------------------------------------------
Goes(p) == BeginPost(p) \/ BeginVoid(p) \/ RefusePost(p) \/ RefuseVoid(p) \/ NextLine(p)
           \/ Move(p) \/ Short(p) \/ Commit(p) \/ CommitFails(p)
           \/ Edit(p) \/ AddLine(p) \/ Discard(p) \/ Submit(p) \/ Approve(p) \/ Reject(p) \/ Decline(p)

Next == \E p \in Procs : Load(p) \/ Goes(p) \/ Lock(p) \/ Abort(p) \/ Victim(p)

\* A worker runs its request to the end; a row lock is handed to those who wait in
\* turn; the database breaks a circle.
Fairness ==
    /\ \A p \in Procs : WF_vars(Goes(p)) /\ SF_vars(Lock(p))
                        /\ WF_vars(~Posting(p) /\ Abort(p))
    /\ WF_vars(\E p \in Procs : Victim(p))

Spec == Init /\ [][Next]_vars
FairSpec == Spec /\ Fairness

-----------------------------------------------------------------------------
(* Properties.                                                             *)

\* What stands in the ledger for each line.
LineTotal(d, k) ==
    FoldFunctionOnSet(+, 0, [m \in DOMAIN ledger[d] |-> ledger[d][m].qty],
                      {m \in Standing(d) : ledger[d][m].line = k})

TellsTheLedger(d) ==
    IF status[d] = Of(d).posted
    THEN \A k \in DOMAIN LinesOf(d) : LineTotal(d, k) = LinesOf(d)[k].qty
    ELSE Standing(d) = {}

\* A document that says it is posted has every one of its lines in the ledger once,
\* and any other document has nothing standing there (never half of it, never a
\* posting whose document was discarded or refused), for every posting, void,
\* rejection, refusal and deadlock, as long as no handler committed on a copy that
\* was out of date (receiving/services.py:496, disposition/services.py:275).
BooksTellTheDocuments == \A d \in Docs : overtaken[d] \/ TellsTheLedger(d)

\* disposition/services.py:268: "Only after approval, and only once ... a second
\* posting would double every one of them"; jobs/services.py:76: "the second call has
\* to be refused rather than trusted".  No line stands in the ledger twice.
PostedOnce ==
    \A d \in Docs : Len(Sheet[d].versions) = 1 =>
        \A k \in DOMAIN LinesOf(d) : LineTotal(d, k) <= LinesOf(d)[k].qty

\* What the ledger of a document has done to a row.
NetOf(d, r) ==
    FoldFunction(+, 0, [k \in DOMAIN ledger[d] |->
                  (IF ledger[d][k].to = r THEN ledger[d][k].qty ELSE 0)
                  - (IF ledger[d][k].from = r THEN ledger[d][k].qty ELSE 0)])

\* A void puts every balance back to what it was before the document, except where
\* the gate took material in at another condition than it was held in: that part
\* stays reassessed, on the holder's record (void_gate_in, receiving/services.py:1002).
VoidPutsBackUnlessReassessed ==
    \A d \in Docs :
        status[d] = "VOID" /\ ~overtaken[d] /\ (\A k \in DOMAIN ledger[d] :
                                   ledger[d][k].from[2] = ledger[d][k].to[2])
        => \A r \in Rows : NetOf(d, r) = 0

\* What _lock_balances promises: transactions that are all at their first movement
\* never wait in a circle.  A circle takes one that holds rows of an earlier line
\* (stock/services.py:518), and those do happen.
CirclesNeedEarlierLines ==
    \A S \in Circles : \E p \in S : txn[p].made # << >>

\* No transaction stays open for ever, whatever locks it wants and however the
\* documents collide.
EveryRequestEnds == \A p \in Procs : Busy(p) ~> ~Busy(p)
=============================================================================
