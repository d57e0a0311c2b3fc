--------------------------- MODULE Notifications ---------------------------
(***************************************************************************)
(* Telling people (notifications): an event row is written in the business *)
(* transaction, its messages are made and sent after the commit, in the    *)
(* same process; a scheduled task tries the pending ones again.  SMS is    *)
(* metered: a credit is taken under the lock of the settings row before    *)
(* the provider is called and given back when the message is refused.      *)
(* The pages that change other settings of the same row do not take that   *)
(* lock before they read it, and save the row whole.                       *)
(*                                                                         *)
(* The dispatch of one event, and one run of the retry task, are each one  *)
(* transaction: what they record appears at its commit and is gone when    *)
(* the worker dies, the lock of the settings row is kept to its end, but a *)
(* message the provider has accepted stays sent.                           *)
(*                                                                         *)
(* Faulty variants of an operator (used by no action) stand just before it *)
(* and are marked F.                                                       *)
(***************************************************************************)
EXTENDS Integers, Sequences, FiniteSets, SequencesExt, Functions

CONSTANTS
    Events,         \* what may happen that people are told of
    Messages,       \* of every event: one per recipient and channel
    Of,             \* the event of a message
    ChannelOf,      \* "sms", "email", "in_app", or "whatsapp", which is switched off
    Reachable,      \* the messages whose recipient has an address on the channel
    Workers,        \* web and Celery workers
    Editors,        \* administrators with the settings open
    MaxAttempts,
    Credit,         \* SMS credits bought to begin with
    Bounds          \* what a behaviour has of events, top-ups, sign-in links, edits, deaths

Idle == << >>       \* a worker with nothing to do

\* What paid for, or brought, a credit.
Accounts == Messages \cup {"bought", "link", "overdraft"}

ASSUME NotificationAssumption ==
    /\ IsFiniteSet(Events) /\ IsFiniteSet(Messages) /\ IsFiniteSet(Workers)
    /\ Idle \notin Workers /\ Messages \cap {"bought", "link", "overdraft"} = {}
    /\ Of \in [Messages -> Events]
    /\ Reachable \subseteq Messages
    /\ MaxAttempts \in Nat \ {0} /\ Credit \in Nat
    /\ Bounds \subseteq [events : SUBSET Events, topups : Nat, links : Nat,
                      edits : Nat, deaths : Nat]

VARIABLES
    event,      \* of each event: NONE, or its row is committed: EMITTED, DISPATCHED
    row,        \* the delivery of each message
    balance,    \* OrganizationSettings.sms_credit_balance
    entries,    \* the credit ledger, summed by what each entry is about
    lock,       \* who holds the settings row
    txn,        \* of each worker: what it is doing
    accepted,   \* how often the provider took each message, and links
    page,       \* of each editor: the balance in the row it has read, or nothing
    putBack,    \* history: by how much saved settings have moved the balance
    doubt,      \* history: sends whose record was lost or that crossed another
    left        \* what remains of the bounds

vars == <<event, row, balance, entries, lock, txn, accepted, page, putBack, doubt, left>>
records == <<event, row, balance, entries, page, putBack>>

NoRow == [status |-> "NONE", attempts |-> 0]
Fresh == [status |-> "PENDING", attempts |-> 0]
Nothing == [a \in Accounts |-> 0]

Init ==
    /\ event = [e \in Events |-> "NONE"]
    /\ row = [m \in Messages |-> NoRow]
    /\ balance = Credit
    /\ entries = [Nothing EXCEPT !["bought"] = Credit]
    /\ lock = Idle
    /\ txn = [w \in Workers |-> Idle]
    /\ accepted = Nothing
    /\ page = [a \in Editors |-> << >>]
    /\ putBack = 0
    /\ doubt = [m \in Messages |-> 0]
    /\ left \in Bounds

Spend(what) == left[what] > 0 /\ left' = [left EXCEPT ![what] = @ - 1]

-----------------------------------------------------------------------------
(* Transactions.                                                           *)

Doing(w, op) == txn[w] # Idle /\ txn[w].op = op

\* op; the events to dispatch, this one first; the messages still to send, as they were
\* read; the rows and entries written so far; the cached balance, once written; and what
\* was accepted meanwhile.
Open(op, queue, todo) ==
    [op |-> op, queue |-> queue, todo |-> todo, rows |-> << >>, made |-> Nothing,
     wrote |-> << >>, taken |-> [m \in Messages |-> 0]]

Sum(f) == FoldFunction(+, 0, f)

\* The balance the transaction reads, which it may have written itself.
Seen(w) == IF txn[w].wrote = << >> THEN balance ELSE txn[w].wrote[1]

\* F: nobody waits for the settings row.
LockIgnored(w) == TRUE
LockFree(w) == lock \in {Idle, w}

Freed(w) == IF lock = w THEN Idle ELSE lock

\* Rows and entries of w become visible, and it goes on with the next event.
Commit(w, then) ==
    /\ row' = [m \in Messages |-> IF m \in DOMAIN txn[w].rows THEN txn[w].rows[m] ELSE row[m]]
    /\ entries' = [a \in Accounts |-> entries[a] + txn[w].made[a]]
    /\ balance' = Seen(w)
    /\ lock' = Freed(w)
    /\ txn' = [txn EXCEPT ![w] = then]
    /\ UNCHANGED <<accepted, page, putBack, left>>

-----------------------------------------------------------------------------
(* Events.                                                                 *)

\* emit, inside a business transaction; a handler may emit several.
Emit(w) ==
    /\ txn[w] = Idle
    /\ \E some \in SUBSET {e \in left.events : event[e] = "NONE"
                              /\ \A v \in Workers : txn[v] # Idle => ~Contains(txn[v].queue, e)} :
          /\ some # {}
          /\ txn' = [txn EXCEPT ![w] = Open("BUSINESS", SetToSeq(some), << >>)]
    /\ UNCHANGED <<records, lock, accepted, doubt, left>>

\* The business transaction commits, and on_commit begins in the same process.
CommitBusiness(w) ==
    /\ Doing(w, "BUSINESS")
    /\ event' = [e \in Events |-> IF Contains(txn[w].queue, e) THEN "EMITTED" ELSE event[e]]
    /\ Commit(w, Open("NEXT", txn[w].queue, << >>))
    /\ UNCHANGED doubt

\* Or it does not, and its event rows go with it.
RollbackBusiness(w) ==
    /\ Doing(w, "BUSINESS")
    /\ txn' = [txn EXCEPT ![w] = Idle]
    /\ UNCHANGED <<records, lock, accepted, doubt, left>>

-----------------------------------------------------------------------------
(* Sending.                                                                *)

\* What the provider does with a message, and how the adapter reads its answer.  A lost
\* or late answer, a server error and one that is not JSON are read as failures worth
\* another try, though the message may have gone.  An SMS that is refused is not tried
\* again, nor is one whose answer cannot be classified, which may have gone too
\* (_interpret); of an e-mail every failure is worth another try.
Answers(m) ==
    {a \in [took : BOOLEAN, ok : BOOLEAN, retry : BOOLEAN] :
       /\ a.ok => a.took /\ ~a.retry
       /\ ChannelOf[m] = "email" => a.ok \/ a.retry}

\* F: the attempts are not counted.
AfterUncounted(copy, answer) ==
    [attempts |-> copy.attempts,
     status |-> IF answer.ok THEN "SENT" ELSE IF answer.retry THEN "PENDING" ELSE "ABANDONED"]
After(copy, answer) ==
    [attempts |-> copy.attempts + 1,
     status |-> IF answer.ok THEN "SENT"
                ELSE IF answer.retry /\ copy.attempts + 1 < MaxAttempts THEN "PENDING"
                ELSE "ABANDONED"]

Settle(copy, status) == [attempts |-> copy.attempts + 1, status |-> status]

\* F: a refused message is not given back.
ChargedAnyway(m, answer) == -1
\* spend_one, and refund unless the provider took it: as the adapter understood it.
Charge(m, answer) == IF ChannelOf[m] = "sms" /\ answer.ok THEN -1 ELSE 0

\* The rows w has written, with that of m.
Recorded(w, m, r) ==
    [n \in DOMAIN txn[w].rows \cup {m} |-> IF n = m THEN r ELSE txn[w].rows[n]]

\* One message of w is done: its row is r, it has cost charge, and the provider took it.
Done(w, r, charge, took) ==
    LET m == Head(txn[w].todo).m
    IN  /\ txn' = [txn EXCEPT
             ![w].todo = Tail(@),
             ![w].rows = Recorded(w, m, r),
             ![w].made[m] = @ + charge,
             ![w].wrote = IF charge = 0 THEN @ ELSE <<Seen(w) + charge>>,
             ![w].taken[m] = @ + took]
        /\ accepted' = [accepted EXCEPT ![m] = @ + took]

\* w has a message to send, and nobody has the lock of its row (having saved it).
Sends(w, m) ==
    /\ txn[w] # Idle /\ txn[w].op \in {"DISPATCH", "RETRY"} /\ txn[w].todo # << >>
    /\ m = Head(txn[w].todo).m
    /\ \A v \in Workers \ {w} : txn[v] # Idle => m \notin DOMAIN txn[v].rows

Copy(w) == Head(txn[w].todo).copy
NoAddress(m) == ChannelOf[m] # "in_app" /\ m \notin Reachable

\* send_delivery where there is nothing to send: an in-app line is delivered by existing,
\* a channel without an adapter and a person without an address are skipped.
SendNowhere(w, m) ==
    /\ Sends(w, m)
    /\ \/ NoAddress(m) /\ Done(w, [Copy(w) EXCEPT !.status = "SKIPPED"], 0, 0)
       \/ ~NoAddress(m) /\ ChannelOf[m] = "in_app" /\ Done(w, Settle(Copy(w), "SENT"), 0, 0)
       \/ ~NoAddress(m) /\ ChannelOf[m] = "whatsapp" /\ Done(w, Settle(Copy(w), "SKIPPED"), 0, 0)
    /\ UNCHANGED <<records, lock, doubt, left>>

\* An SMS for which there is no credit has failed for good.
SendUnpaid(w, m) ==
    /\ Sends(w, m) /\ ~NoAddress(m) /\ ChannelOf[m] = "sms"
    /\ LockFree(w) /\ Seen(w) < 1
    /\ Done(w, Settle(Copy(w), "FAILED"), 0, 0)
    /\ UNCHANGED <<records, lock, doubt, left>>

\* send_delivery through a provider.
SendOut(w, m) ==
    /\ Sends(w, m) /\ ~NoAddress(m) /\ ChannelOf[m] \in {"sms", "email"}
    /\ ChannelOf[m] = "sms" => LockFree(w) /\ Seen(w) >= 1
    /\ lock' = IF ChannelOf[m] = "sms" THEN w ELSE lock
    /\ \E a \in Answers(m) :
          /\ Done(w, After(Copy(w), a), Charge(m, a), IF a.took THEN 1 ELSE 0)
          /\ doubt' = [doubt EXCEPT ![m] = @ + IF a.took /\ a.retry THEN 1 ELSE 0]
    /\ UNCHANGED <<records, left>>

Send(w) == \E m \in Messages : SendNowhere(w, m) \/ SendUnpaid(w, m) \/ SendOut(w, m)

\* dispatch_event: one delivery per recipient and channel, made if it is not there.
BeginDispatch(w) ==
    /\ Doing(w, "NEXT")
    /\ LET e == Head(txn[w].queue)
           new == SetToSeq({m \in Messages : Of[m] = e /\ row[m] = NoRow})
       IN  txn' = [txn EXCEPT ![w] =
              Open("DISPATCH", txn[w].queue, [k \in DOMAIN new |-> [m |-> new[k], copy |-> Fresh]])]
    /\ UNCHANGED <<records, lock, accepted, doubt, left>>

EndDispatch(w) ==
    /\ Doing(w, "DISPATCH") /\ txn[w].todo = << >>
    /\ event' = [event EXCEPT ![Head(txn[w].queue)] = "DISPATCHED"]
    /\ Commit(w, IF Len(txn[w].queue) = 1 THEN Idle ELSE Open("NEXT", Tail(txn[w].queue), << >>))
    /\ UNCHANGED doubt

\* F: the filter on the status is left out.
EverythingToRetry == {m \in Messages : row[m] # NoRow /\ ChannelOf[m] # "in_app"}
ToRetry == {m \in Messages : row[m].status = "PENDING" /\ ChannelOf[m] # "in_app"}

\* Another run of the task has read the message and has not committed.
InHand(m) ==
    \E v \in Workers :
       Doing(v, "RETRY") /\ (m \in DOMAIN txn[v].rows \/ \E k \in DOMAIN txn[v].todo : txn[v].todo[k].m = m)

\* retry_pending reads what is pending, without a lock.
BeginRetry(w) ==
    /\ txn[w] = Idle /\ ToRetry # {}
    /\ LET old == SetToSeq(ToRetry)
       IN  txn' = [txn EXCEPT ![w] =
              Open("RETRY", << >>, [k \in DOMAIN old |-> [m |-> old[k], copy |-> row[old[k]]]])]
    /\ doubt' = [m \in Messages |-> doubt[m] + IF m \in ToRetry /\ InHand(m) THEN 1 ELSE 0]
    /\ UNCHANGED <<records, lock, accepted, left>>

EndRetry(w) ==
    /\ Doing(w, "RETRY") /\ txn[w].todo = << >>
    /\ Commit(w, Idle)
    /\ UNCHANGED <<event, doubt>>

\* The worker dies, or the task raises: nothing of its transaction is kept, and nobody
\* comes back for the events it had not dispatched.
Dies(w) ==
    /\ txn[w] # Idle
    /\ Spend("deaths")
    /\ doubt' = [m \in Messages |-> doubt[m] + txn[w].taken[m]]
    /\ lock' = Freed(w)
    /\ txn' = [txn EXCEPT ![w] = Idle]
    /\ UNCHANGED <<records, accepted>>

-----------------------------------------------------------------------------
(* Credits.                                                                *)

\* purchase: the row lock and the entry, in a transaction of its own.
TopUp ==
    /\ lock = Idle
    /\ Spend("topups")
    /\ balance' = balance + 1
    /\ entries' = [entries EXCEPT !["bought"] = @ + 1]
    /\ UNCHANGED <<event, row, lock, txn, accepted, page, putBack, doubt>>

MaySpend(onCredit) == balance >= 1 \/ onCredit

\* _send_link, the SMS of a sign-in link: somebody without an e-mail address may overdraw,
\* and nothing is given back when the provider refuses it.
SignInLink(w) ==
    /\ txn[w] = Idle /\ lock = Idle
    /\ \E onCredit \in BOOLEAN :
       \E took \in {0, 1} :
          LET account == IF onCredit THEN "overdraft" ELSE "link"
          IN  /\ MaySpend(onCredit)
              /\ Spend("links")
              /\ txn' = [txn EXCEPT ![w] = [Open("LINK", << >>, << >>) EXCEPT
                             !.made[account] = -1, !.wrote = <<balance - 1>>]]
              /\ accepted' = [accepted EXCEPT ![account] = @ + took]
    /\ lock' = w
    /\ UNCHANGED <<records, doubt>>

EndLink(w) ==
    /\ Doing(w, "LINK")
    /\ Commit(w, Idle)
    /\ UNCHANGED <<event, doubt>>

\* OrganizationSettingsView.patch, and the settings on the organisation's page of the
\* Django admin: the row is read without a lock, the balance with it.
ReadSettings(a) ==
    /\ page[a] = << >>
    /\ Spend("edits")
    /\ page' = [page EXCEPT ![a] = <<balance>>]
    /\ UNCHANGED <<event, row, balance, entries, lock, txn, accepted, putBack, doubt>>

\* Whatever was changed, the whole row is saved as it was read: the update waits for the
\* row, and puts the balance of the reading over the one it finds.
SaveSettings(a) ==
    /\ page[a] # << >> /\ lock = Idle
    /\ balance' = page[a][1]
    /\ putBack' = putBack + page[a][1] - balance
    /\ page' = [page EXCEPT ![a] = << >>]
    /\ UNCHANGED <<event, row, entries, lock, txn, accepted, doubt, left>>

-----------------------------------------------------------------------------

Next ==
    \/ TopUp
    \/ \E a \in Editors : ReadSettings(a) \/ SaveSettings(a)
    \/ \E w \in Workers :
          \/ Emit(w) \/ CommitBusiness(w) \/ RollbackBusiness(w)
          \/ BeginDispatch(w) \/ Send(w) \/ EndDispatch(w)
          \/ BeginRetry(w) \/ EndRetry(w) \/ SignInLink(w) \/ EndLink(w) \/ Dies(w)

Spec == Init /\ [][Next]_vars

\* Whoever holds a transaction goes on with it, unless it dies; beat starts the retry
\* task as long as something is pending, on a worker that is free again and again.
FairSpec ==
    /\ Spec
    /\ \A w \in Workers :
          /\ WF_vars(CommitBusiness(w) \/ RollbackBusiness(w) \/ BeginDispatch(w)
                     \/ EndDispatch(w) \/ EndRetry(w) \/ EndLink(w))
          /\ SF_vars(Send(w))
          /\ SF_vars(BeginRetry(w))

-----------------------------------------------------------------------------
(* Properties.                                                             *)

\* L4: the cached balance is the sum of the ledger but for what saves of the settings
\* have put back over it, and only sign-in links of people without an e-mail address
\* take it below zero, whatever runs at once or dies.
BalanceIsTheLedgerButForSettings ==
    balance = Sum(entries) + putBack /\ balance >= entries["overdraft"]

\* L4: a message is paid for once it is recorded as sent, and nothing is paid for that
\* the provider did not take: what dies unrecorded is on the house.
PaidForWhatWasTaken ==
    \A m \in Messages :
       /\ -entries[m] <= accepted[m]
       /\ (row[m].status = "SENT" /\ ChannelOf[m] = "sms") => entries[m] < 0

\* L3: the provider gets a message once, unless its answer was one that is read as worth
\* another try, the worker died before its commit, or another run of the retry task had
\* read the same row.  What may have gone but could not be classified is not sent again.
TakenOnceUnlessInDoubt == \A m \in Messages : accepted[m] <= 1 + doubt[m]

\* L3: a message that could not be delivered is tried again and ends, sent or given up,
\* through runs of the task that die.
EveryMessageEnds ==
    \A m \in Messages : (row[m].status = "PENDING") ~> (row[m].status # "PENDING")

\* notifications/credits.py:9: "Every purchase and every message is an entry; the
\* balance is their sum."
BalanceIsTheLedger == balance = Sum(entries)

\* config/settings/base.py:296: "Notifications must never be lost".
NothingIsLost == \A e \in Events : (event[e] = "EMITTED") ~> (event[e] = "DISPATCHED")

\* notifications/credits.py:16: "A failed send costs nothing."
FailedSendCostsNothing == \A a \in Accounts \ {"bought"} : -entries[a] <= accepted[a]
=============================================================================
