------------------------------ MODULE Finance ------------------------------
(***************************************************************************)
(* Money out of one open project (commercials): expenses, floats and other *)
(* allowances, and site purchases are recorded against the budget, decided *)
(* by the project manager and by Finance, sent again after a rejection,    *)
(* paid, closed and reversed.  An entry's status is kept beside the        *)
(* approval requests it is supposed to tell.                               *)
(*                                                                         *)
(* Every request loads a copy of its entry, answers some questions from    *)
(* the copy, and ends under a row lock: a request is a Begin and an End.   *)
(* save() writes the WHOLE copy.  An allowance is recorded with its        *)
(* recorder's user row locked from Begin to End.  Material cost, the       *)
(* supplier register and the closing of the project are left out.          *)
(*                                                                         *)
(* Faulty variants of an operator (used by no action) stand just before it *)
(* and are marked F.                                                       *)
(***************************************************************************)
EXTENDS Integers, Sequences, FiniteSets, SequencesExt, FiniteSetsExt

CONSTANTS
    Entries, Scenarios, \* what may be recorded; the sets a behaviour is about
    Kind,               \* "EXPENSE" | "FLOAT" | "NIGHT_OUT" | "PURCHASE"
    Amount, Recorder,
    OnFloat, NoFloat,   \* the float an expense is spent from
    Nights,             \* the days an allowance is for
    IntoYard,           \* the purchases that are received into stock
    Managers,           \* recorders whose own entries skip the PM level
    Budget,
    Workers, Idle,      \* web workers; a worker with nothing to do
    MaxRequests         \* bound on the approval requests of an entry

ASSUME FinanceAssumption ==
    /\ IsFiniteSet(Entries) /\ Amount \in [Entries -> Nat \ {0}] /\ Budget \in Nat
    /\ Scenarios \subseteq SUBSET Entries /\ NoFloat \notin Entries
    /\ \A e \in Entries : OnFloat[e] # NoFloat =>
          Kind[e] = "EXPENSE" /\ OnFloat[e] \in Entries /\ Kind[OnFloat[e]] = "FLOAT"

VARIABLES
    inPlay,
    entry,       \* the rows: status, whether marked past the budget, the link
                 \* to the delivery, and for a float what its closing recorded
    requests,    \* of each entry: its ApprovalRequest rows, in order
    delivery,    \* the gate-in made for a purchase
    reversals,   \* of each entry: how many rows reverse it
    work,        \* of each worker: the request it is in
    unweighed,   \* history: entries that came in by a side door of the budget
    overwritten, \* history: entries whose row a late edit put back
    crossed      \* history: purchases whose draft was posted under a reversal

vars == <<inPlay, entry, requests, delivery, reversals, work, unweighed, overwritten, crossed>>

Pending == {"PENDING_PM", "PENDING_FINANCE"}
Costed == {"APPROVED", "PAID"}
Live == Pending \cup Costed
Allowances == {e \in Entries : Kind[e] \in {"FLOAT", "NIGHT_OUT"}}
Charged(f) == {e \in Entries : OnFloat[e] = f}

Init ==
    /\ inPlay \in Scenarios
    /\ entry = [e \in Entries |-> [status |-> "NONE", over |-> FALSE, linked |-> FALSE,
                                   closed |-> FALSE, returned |-> 0]]
    /\ requests = [e \in Entries |-> << >>]
    /\ delivery = [e \in Entries |-> "none"]
    /\ reversals = [e \in Entries |-> 0]
    /\ work = [w \in Workers |-> Idle]
    /\ unweighed = {} /\ overwritten = {} /\ crossed = {}

Is(e, statuses) == entry[e].status \in statuses

-----------------------------------------------------------------------------
(* The budget: every shilling once, as spent, committed or pending.        *)

\* An approved entry less the rows that reverse it.
Signed(e) == (IF Is(e, Costed) THEN Amount[e] ELSE 0) - reversals[e] * Amount[e]

\* A purchase for the yard is only committed, until its goods are received.
OfPurchase(e) ==
    IF e \in IntoYard /\ entry[e].linked /\ delivery[e] = "posted"
    THEN -(reversals[e] * Amount[e]) ELSE Signed(e)

\* A paid float: what nobody has spent or handed back yet.  The rows that
\* reverse its expenses are not themselves charged to it.
CostedOn(f) == MapThenSumSet(LAMBDA e : Amount[e], {e \in Charged(f) : Is(e, Costed)})
OfAllowance(e) ==
    IF Is(e, {"PAID"}) /\ Kind[e] = "FLOAT"
    THEN Max({0, Amount[e] - CostedOn(e) - entry[e].returned})
    ELSE IF Is(e, Costed) THEN Amount[e] ELSE 0

Counted(e) ==
    IF e \in Allowances THEN OfAllowance(e)
    ELSE IF Kind[e] = "PURCHASE" THEN OfPurchase(e) ELSE Signed(e)

\* F: what waits for an answer is not counted yet.
WaitingUncounted(e) == 0
Waiting(e) == IF Is(e, Pending) /\ OnFloat[e] = NoFloat THEN Amount[e] ELSE 0
Position == FoldFunction(+, 0, [e \in inPlay |-> Counted(e) + Waiting(e)])
WouldExceed(e) == OnFloat[e] = NoFloat /\ Position + Amount[e] > Budget

-----------------------------------------------------------------------------
(* The approval requests of an entry.                                      *)

OpenRequests(e) == {i \in DOMAIN requests[e] : requests[e][i].status = "PENDING"}
OpenLevels(e) == {requests[e][i].level : i \in OpenRequests(e)}
NextRequest(e) ==
    CHOOSE i \in OpenRequests(e) : \A k \in OpenRequests(e) : requests[e][i].level <= requests[e][k].level

\* The PM is skipped when the recorder is the PM; Finance never is.
Levels(e) == IF Recorder[e] \in Managers THEN <<2>> ELSE <<1, 2>>
FirstStatus(e) == IF Levels(e) = <<2>> THEN "PENDING_FINANCE" ELSE "PENDING_PM"
Routed(e) == [requests EXCEPT ![e] =
    @ \o [k \in DOMAIN Levels(e) |-> [level |-> Levels(e)[k], status |-> "PENDING"]]]
RoundFits(e) == Len(requests[e]) + Len(Levels(e)) <= MaxRequests

Answered(e, answer) == [requests EXCEPT ![e] =
    [i \in DOMAIN @ |->
        IF i = NextRequest(e) THEN [@[i] EXCEPT !.status = answer]
        ELSE IF answer = "REJECTED" /\ @[i].status = "PENDING"
        THEN [@[i] EXCEPT !.status = "SUPERSEDED"] ELSE @[i]]]

-----------------------------------------------------------------------------
(* The rules of a recording.                                               *)

\* The recorder's own float, paid and still open.
FloatUsable(e) ==
    OnFloat[e] # NoFloat =>
        LET f == OnFloat[e] IN Recorder[f] = Recorder[e] /\ Is(f, {"PAID"}) /\ ~entry[f].closed

\* find_overlap: all but the rejected requests of the recorder block.
Clashes(e) ==
    /\ Kind[e] = "NIGHT_OUT"
    /\ \E o \in inPlay \ {e} : /\ Kind[o] = "NIGHT_OUT" /\ Recorder[o] = Recorder[e]
                               /\ Is(o, Live) /\ Nights[o] \cap Nights[e] # {}

\* Spent by an expense beyond what its float still holds.
BeyondFloat(e) ==
    OnFloat[e] # NoFloat =>
        LET f == OnFloat[e] IN CostedOn(f) + Amount[e] + entry[f].returned > Amount[f]

-----------------------------------------------------------------------------
(* Workers and locks.                                                      *)

Start(w, job) == work' = [work EXCEPT ![w] = job]
Refused(w) == work[w] # Idle /\ work' = [work EXCEPT ![w] = Idle]
Doing(w, op, e) == work[w] # Idle /\ work[w].op = op /\ work[w].entry = e
Copy(w) == work[w].copy

\* F: nobody waits for the recorder's user row.
RecorderUnlocked(w, e) == TRUE
RecorderFree(w, e) ==
    \A v \in Workers \ {w} : ~\E o \in Allowances :
        Recorder[o] = Recorder[e] /\ Doing(v, "record", o)
RowFree(w, e) == \A v \in Workers \ {w} : ~Doing(v, "reverse locked", e)

\* F: the status the copy was loaded with will do.
CopyWillDo(w, e, statuses) == Copy(w).status \in statuses
\* _require_status: the row, now locked, still says what the copy says.
StillAsLoaded(w, e, statuses) == entry[e].status = Copy(w).status /\ Copy(w).status \in statuses

books == <<delivery, reversals>>
history == <<unweighed, overwritten, crossed>>

BeginRecord(w, e) ==
    /\ work[w] = Idle /\ e \in inPlay /\ Is(e, {"NONE"})
    /\ \A v \in Workers : ~Doing(v, "record", e)
    /\ FloatUsable(e)
    /\ e \in Allowances => RecorderFree(w, e) /\ ~Clashes(e)
    /\ Start(w, [op |-> "record", entry |-> e, copy |-> entry[e],
                 over |-> WouldExceed(e), position |-> Position])
    /\ UNCHANGED <<inPlay, entry, requests, books, history>>

EndRecord(w, e) ==
    /\ Doing(w, "record", e)
    /\ entry' = [entry EXCEPT ![e].status = FirstStatus(e), ![e].over = work[w].over]
    /\ requests' = Routed(e)
    /\ unweighed' = IF work[w].position # Position THEN unweighed \cup {e} ELSE unweighed
    /\ Refused(w)
    /\ UNCHANGED <<inPlay, books, overwritten, crossed>>

-----------------------------------------------------------------------------
(* Deciding, sending again, editing, paying.                               *)

Load(w, op, e) ==
    /\ work[w] = Idle /\ e \in inPlay
    /\ Start(w, [op |-> op, entry |-> e, copy |-> entry[e]])
    /\ UNCHANGED <<inPlay, entry, requests, books, history>>

BeginDecide(w, e) == Is(e, Pending) /\ Load(w, "decide", e)
BeginEdit(w, e) ==
    Is(e, {"PENDING_PM"}) /\ Kind[e] \in {"EXPENSE", "PURCHASE"} /\ Load(w, "edit", e)
BeginResubmit(w, e) == Is(e, {"REJECTED"}) /\ RoundFits(e) /\ Load(w, "resubmit", e)
BeginPay(w, e) ==
    /\ Is(e, {"APPROVED"}) /\ OnFloat[e] = NoFloat
    /\ Kind[e] = "PURCHASE" => reversals[e] = 0
    /\ Load(w, "pay", e)

\* Locked, and the copy is as good as the row.
May(w, op, e, statuses) == Doing(w, op, e) /\ RowFree(w, e) /\ StillAsLoaded(w, e, statuses)

Reject(w, e) ==
    /\ May(w, "decide", e, Pending) /\ OpenRequests(e) # {}
    /\ requests' = Answered(e, "REJECTED")
    /\ entry' = [entry EXCEPT ![e] = [Copy(w) EXCEPT !.status = "REJECTED"]]
    /\ Refused(w)
    /\ UNCHANGED <<inPlay, books, history>>

PassToFinance(w, e) ==
    /\ May(w, "decide", e, Pending) /\ Cardinality(OpenRequests(e)) > 1
    /\ requests' = Answered(e, "APPROVED")
    /\ entry' = [entry EXCEPT ![e] = [Copy(w) EXCEPT !.status = "PENDING_FINANCE"]]
    /\ Refused(w)
    /\ UNCHANGED <<inPlay, books, history>>

\* The last signature: the entry counts, and goods for the yard are expected.
Approve(w, e) ==
    /\ May(w, "decide", e, Pending) /\ Cardinality(OpenRequests(e)) = 1
    /\ requests' = Answered(e, "APPROVED")
    /\ entry' = [entry EXCEPT ![e] = [Copy(w) EXCEPT !.status = "APPROVED",
                                                     !.linked = e \in IntoYard]]
    /\ delivery' = [delivery EXCEPT ![e] = IF e \in IntoYard THEN "draft" ELSE @]
    /\ unweighed' = IF OnFloat[e] # NoFloat /\ BeyondFloat(e) THEN unweighed \cup {e} ELSE unweighed
    /\ Refused(w)
    /\ UNCHANGED <<inPlay, reversals, overwritten, crossed>>

\* PATCH of the words of an entry: it locks nothing and saves the whole copy.
EndEdit(w, e) ==
    /\ Doing(w, "edit", e) /\ RowFree(w, e)
    /\ entry' = [entry EXCEPT ![e] = Copy(w)]
    /\ overwritten' = IF entry[e] # Copy(w) THEN overwritten \cup {e} ELSE overwritten
    /\ Refused(w)
    /\ UNCHANGED <<inPlay, requests, books, unweighed, crossed>>

\* The rules of the dates are asked again, and whether the float is still open.
MaySendAgain(e) == ~Clashes(e) /\ FloatUsable(e)

\* The budget is not asked again.
EndResubmit(w, e) ==
    /\ May(w, "resubmit", e, {"REJECTED"}) /\ RoundFits(e)
    /\ RecorderFree(w, e) /\ MaySendAgain(e)
    /\ entry' = [entry EXCEPT ![e] = [Copy(w) EXCEPT !.status = FirstStatus(e)]]
    /\ requests' = Routed(e)
    /\ unweighed' = unweighed \cup {e}
    /\ Refused(w)
    /\ UNCHANGED <<inPlay, books, overwritten, crossed>>

EndPay(w, e) ==
    /\ May(w, "pay", e, {"APPROVED"})
    /\ Copy(w).linked => entry[e].linked    \* else the link names a row that is gone
    /\ entry' = [entry EXCEPT ![e] = [Copy(w) EXCEPT !.status = "PAID"]]
    /\ Refused(w)
    /\ UNCHANGED <<inPlay, requests, books, history>>

\* F: the reversals read before the lock will do.
ReversedOnTheCopy(e) == delivery[e] # "posted"
MayStillReverse(e) == Kind[e] = "PURCHASE" => delivery[e] # "posted" /\ reversals[e] = 0

\* Anything else a locked row may say ends the request with nothing written.
Refuse(w, e) ==
    /\ work[w] # Idle /\ work[w].entry = e /\ RowFree(w, e)
    /\ \/ work[w].op = "decide" /\ (~StillAsLoaded(w, e, Pending) \/ OpenRequests(e) = {})
       \/ work[w].op = "resubmit" /\ (~StillAsLoaded(w, e, {"REJECTED"}) \/ ~MaySendAgain(e))
       \/ work[w].op = "pay" /\ ~(StillAsLoaded(w, e, {"APPROVED"}) /\ (Copy(w).linked => entry[e].linked))
       \/ work[w].op = "reverse" /\ ~MayStillReverse(e)
    /\ Refused(w)
    /\ UNCHANGED <<inPlay, entry, requests, books, history>>

CloseFloat(e, back) ==
    /\ e \in inPlay /\ Kind[e] = "FLOAT" /\ Is(e, {"PAID"}) /\ ~entry[e].closed
    /\ entry' = [entry EXCEPT ![e].closed = TRUE, ![e].returned = back]
    /\ UNCHANGED <<inPlay, requests, books, work, history>>

-----------------------------------------------------------------------------
(* Reversing, and the delivery of a purchase.                              *)

BeginReverse(w, e) ==
    /\ Is(e, Costed) /\ Kind[e] \in {"EXPENSE", "PURCHASE"} /\ reversals[e] = 0
    /\ Load(w, "reverse", e)

\* An expense is reversed on the strength of the copy alone.
EndReverseExpense(w, e) ==
    /\ Doing(w, "reverse", e) /\ Kind[e] = "EXPENSE"
    /\ reversals' = [reversals EXCEPT ![e] = @ + 1]
    /\ Refused(w)
    /\ UNCHANGED <<inPlay, entry, requests, delivery, history>>

\* A purchase's row is locked, and what has changed since is read again.
LockPurchase(w, e) ==
    /\ Doing(w, "reverse", e) /\ Kind[e] = "PURCHASE" /\ RowFree(w, e) /\ MayStillReverse(e)
    /\ Start(w, [op |-> "reverse locked", entry |-> e, copy |-> entry[e], found |-> delivery[e]])
    /\ UNCHANGED <<inPlay, entry, requests, books, history>>

\* What was found a draft is deleted, whatever has become of it by now: of a
\* document posted since, the row goes and the goods stay in stock - orphaned.
\* (One with cable boxes on it cannot be deleted, and takes the reversal down.)
Deleted(e) == [delivery EXCEPT ![e] = IF @ = "posted" THEN "orphaned" ELSE "gone"]
EndReversePurchase(w, e) ==
    /\ Doing(w, "reverse locked", e)
    /\ reversals' = [reversals EXCEPT ![e] = @ + 1]
    /\ IF Copy(w).linked /\ work[w].found = "draft"
       THEN /\ entry' = [entry EXCEPT ![e].linked = FALSE]
            /\ delivery' = Deleted(e)
       ELSE UNCHANGED <<entry, delivery>>
    /\ Refused(w)
    /\ UNCHANGED <<inPlay, requests, history>>

\* Posting locks neither the purchase nor what a reversal has read.
DraftInHand(e) ==
    \E w \in Workers : Doing(w, "reverse locked", e) /\ Copy(w).linked /\ work[w].found = "draft"
PostDelivery(e) ==
    /\ delivery[e] = "draft"
    /\ delivery' = [delivery EXCEPT ![e] = "posted"]
    /\ crossed' = IF DraftInHand(e) THEN crossed \cup {e} ELSE crossed
    /\ UNCHANGED <<inPlay, entry, requests, reversals, work, unweighed, overwritten>>

\* The goods come back into what is committed.
VoidDelivery(e) ==
    /\ delivery[e] = "posted"
    /\ delivery' = [delivery EXCEPT ![e] = "void"]
    /\ unweighed' = unweighed \cup {e}
    /\ UNCHANGED <<inPlay, entry, requests, reversals, work, overwritten, crossed>>

Next ==
    \/ \E w \in Workers, e \in Entries :
          \/ BeginRecord(w, e) \/ EndRecord(w, e)
          \/ BeginDecide(w, e) \/ Reject(w, e) \/ PassToFinance(w, e) \/ Approve(w, e)
          \/ BeginEdit(w, e) \/ EndEdit(w, e)
          \/ BeginResubmit(w, e) \/ EndResubmit(w, e)
          \/ BeginPay(w, e) \/ EndPay(w, e)
          \/ BeginReverse(w, e) \/ EndReverseExpense(w, e)
          \/ LockPurchase(w, e) \/ EndReversePurchase(w, e)
          \/ Refuse(w, e)
    \/ \E e \in Entries :
          \/ PostDelivery(e) \/ VoidDelivery(e)
          \/ \E back \in 0 .. Amount[e] : CloseFloat(e, back)

Spec == Init /\ [][Next]_vars

-----------------------------------------------------------------------------
(* Properties.                                                             *)

\* Two night-out allowances of one person never cover the same day while both
\* live: the recorder's user row is locked from the rule to the commit, when
\* recording and when sending a rejected one again (_lock_recorder).
NightsPaidOnce ==
    \A e, o \in inPlay :
        (/\ e # o /\ Kind[e] = "NIGHT_OUT" /\ Kind[o] = "NIGHT_OUT"
         /\ Recorder[e] = Recorder[o] /\ Is(e, Live) /\ Is(o, Live))
        => Nights[e] \cap Nights[o] = {}

\* An entry's status tells its approval requests - who is to answer next, or
\* that the last word has been given - unless a late PATCH has put an old row
\* back: no two rounds are ever open at once (finance.decide, resubmit).
StatusTellsRequestsUnlessOverwritten ==
    \A e \in inPlay \ overwritten :
        LET open == OpenLevels(e)  rows == requests[e] IN
        /\ Cardinality(open) = Cardinality(OpenRequests(e))
        /\ Is(e, {"PENDING_PM"}) <=> 1 \in open
        /\ Is(e, {"PENDING_FINANCE"}) <=> open = {2}
        /\ Is(e, Costed) => Last(rows) = [level |-> 2, status |-> "APPROVED"]
        /\ Is(e, {"REJECTED"}) => Last(rows).status \in {"REJECTED", "SUPERSEDED"}

Silent == Position > Budget /\ \A e \in inPlay : ~entry[e].over

\* A project is past its budget with nothing marked only by a side door: two
\* entries judged together, one sent again after a rejection, an expense of
\* more than its float holds, a delivery voided, or a row put back by a late
\* PATCH (over_budget_check, budget_position).
SilentlyOverOnlyBySideDoors == Silent => unweighed \cup overwritten # {}

\* A site purchase is reversed at most once, and the goods of a reversed one
\* neither wait for the storekeeper nor stand received in stock, their document
\* there or deleted (reverse_purchase: refused while the delivery is posted) -
\* but for two crossings: a late PATCH has cut the link between the two, or the
\* storekeeper posted the delivery while a reversal had found it a draft, which
\* reverse_purchase's own docstring says cannot happen.
ReversedPurchaseIsUndoneUnlessCrossed ==
    \A e \in inPlay : Kind[e] = "PURCHASE" =>
        /\ reversals[e] <= 1
        /\ reversals[e] = 1 => \/ e \in overwritten \cup crossed
                              \/ delivery[e] \notin {"draft", "posted", "orphaned"}

\* The goods of a reversed purchase never stand in stock: a reversal is refused while
\* the delivery is posted (commercials/services.py:124-127).
ReversedPurchaseIsUndone ==
    \A e \in inPlay : Kind[e] = "PURCHASE" /\ reversals[e] = 1 =>
        delivery[e] \notin {"draft", "posted", "orphaned"}

\* Nobody goes past the budget in silence: some entry is marked with by how
\* much (commercials/finance.py:149).
NeverSilentlyOver == ~Silent
=============================================================================
