# Yardflow: models, checks and proofs

Yardflow keeps the stock of a telecoms installation company: what is received
at the yard, what leaves it on gate passes, what technicians hold, what is
installed and what comes back, and what a project spends meanwhile.  The server
is Django (`src/backend`), one database transaction per request, with row locks
in a few chosen places.  The client (`src/frontend`) is a web application that
also captures work without a connection and sends it later.

The models follow the code, not its documents.  Where code and documents
disagree the model does what the code does, and
[what disagrees](#what-disagrees) says so.  `PROJECT.json` maps every modelling
definition to the lines it stands for.

Contents: [the system](#the-system) | [modules](#modules-and-how-they-correspond-to-the-code) |
[runs](#what-each-run-checks) | [faulty variants](#faulty-variants) |
[what disagrees](#what-disagrees) | [proofs](#what-is-proved) |
[only model-checked](#what-is-only-model-checked) | [not modelled](#what-is-not-modelled-and-why) |
[plan](#plan)

## The system

### Components, their state, and how they meet

| component | state | operations | what it calls |
|---|---|---|---|
| stock ledger (`stock/services.py`) | `StockMovement` (append-only), and three caches of it: `StockBalance`, `SerialUnit.current_node/condition`, `Reel.current_node/condition/remaining_length` | `post_movement`, `reverse_movement` | box and earmark hooks |
| ledger verification (`stock/verification.py`) | none | `verify_ledger`, nightly | reads everything above |
| boxes (`stock/boxes.py`, `stock/box_hooks.py`) | open boxes in boxes, their units, what they claim of untagged stock | made by a gate-in; take out, empty, move, close; hooks of the ledger | ledger |
| earmarks (`stock/earmarks.py`, `stock/earmark_hooks.py`) | quantities and units kept for a site | made by a gate-in; change; hooks of the ledger | - |
| receiving (`receiving/services.py`) | `GateIn`, its lines, status | draft, PATCH, discard, post, void, return from a holder | ledger, numbering, boxes, earmarks |
| jobs, custody, disposition, counting documents | one document each, with a status | submit, acknowledge, approve, post | ledger, numbering, approvals |
| gate passes (`dispatch/`) | `GateOut` status, deadline, header; line quantities | submit, approve, reject, amend, cancel, release, close, PATCH, expire, escalate | approvals, ledger, numbering, jobs (validation of every save) |
| approvals (`approvals/engine.py`) | `ApprovalRequest` per document and level | route, answer, supersede, escalate | rules, delegation |
| custody (`custody/services.py`) | `ReturnExpectation`: who owes what back, and how far the chase is | written by releases and closeouts; handed over; chased by the sweep | notifications; read by `close_job` and `deactivate_user` |
| notifications (`notifications/`) | events, deliveries, attempts, the SMS ledger and its cached balance | dispatch after commit, retry, top-up, sign-in link | SMS, mail and push providers |
| finance (`commercials/finance.py`, `budget.py`, `services.py`) | entries with a status and their approval requests, the delivery a purchase expects | record, decide, edit, send again, pay, close a float, reverse | approvals, receiving |
| numbering (`core/numbering.py`, `core/number_series_api.py`) | `DocumentSequence` per document type | allocate, move the counter | called inside every posting transaction |
| offline queue (`frontend/src/offline`) | IndexedDB rows with a client uuid and a status | enqueue, submit online or queue, drain, mark, clear | `POST /sync/submissions` |
| sync server (`sync/`) | `SyncSubmission` per uuid | apply a batch, answer replays | receiving, dispatch, jobs, finance handlers |
| attendance (`attendance/`) | sessions of a person, one row per person and day, the slices of a day (`ApprovalRequest`), corrections (append-only) | clock in and out, also from a replayed capture; add a day; hourly: close and form; answer; correct | approvals, sync, notifications |
| sweeps (`core/sweeps.py`, `core/tasks.py`) | none | nightly steps, one transaction per tenant | dispatch, custody, attendance |
| contracts and milestones, assets, accounts, catalogue, reporting, platform | documents and registers of their own | - | - |

Everything that moves material goes through `post_movement`; everything that
gets a number goes through `allocate_number`; everything captured offline goes
through the sync endpoint; everything anybody is told goes through
`notifications/events.py`.

### Which behaviours are hard

* **Requests overlap.** Handlers start with `get_object()`, a read without a
  lock, decide on that copy and write columns, often all of them, at their end.
  Only balance rows, units, the number series, the recorder of an allowance, a
  finance entry under decision and, by whoever spends a credit, the settings row are
  locked.
* **Copies of one fact.** Balances, units, drums, boxes and earmarks repeat the
  ledger; an entry's status repeats its approval requests; the SMS balance
  repeats the SMS ledger.
* **Locks row after row.** A document locks the balance rows of one movement in
  order, but the movements in the order of its lines.
* **Replies get lost.** A phone cannot tell whether the server acted; the server
  cannot tell whether the SMS provider did.
* **Work after the commit.** Notifications are sent by `on_commit`; a worker that
  dies in between has written what nobody acts on.
* **Two locks that do not meet.** Clocking locks the person, routing and
  correcting a day lock the day, and each looks at what the other writes.
* **Rounds and time.** A pass or an entry is rejected, sent again, expired;
  requests of earlier rounds remain in the table.  Reminders come in stages, by
  a sweep that may be skipped or overlap with the next.

`PROJECT.json` lists each hazard at its line with the properties that watch it,
or with the reason why none does.

### What makes each component correct

* Ledger: caches equal the ledger; no balance below nothing; a unit moves along
  a path; a drum gives no more than it has.
* Documents: a status tells what stands in the ledger; a void puts back what was
  taken; every request ends.
* Boxes and earmarks: what is in a box is where the box is; claims are backed by
  stock; what follows a box keeps its earmark.
* Gate pass: nothing leaves unapproved or in excess; a waiting pass has somebody
  to wait for; approvals expire.
* Custody: a job is closed clean, and a person leaves, with nothing owed; each
  reminder comes once and in turn; the owner hears of what stays out.
* Notifications: charged is what was taken; one message is not sent twice; no
  delivery stays pending.
* Finance: no night is paid twice; a status tells the requests; the budget is not
  passed in silence; a reversal is made once.
* Attendance: no hour is worked twice; an end that was given or answered for
  stays; a day says what its slices say; every hour comes before somebody.
* Numbering: unique, gap-free, in order.
* Offline queue: one document or one refusal per capture, the truth on the
  phone, suppliers before what names them, and in the end an answer.

## Modules and how they correspond to the code

| module | models | extends |
|---|---|---|
| `Ledger` | `stock/services.py`, the movements of a void in `receiving/services.py` | - |
| `Verification` | `stock/verification.py`, balances and drums | `Ledger` |
| `LedgerProofs` | theorems about `Ledger` and `Verification` | `Verification`, `SumTheorems` |
| `Documents` | the documents that post stock: `receiving/`, `jobs/`, `custody/`, `disposition/`, `stock/counting.py`, with the lock order of `stock/services.py` | - |
| `Claims` | `stock/boxes.py`, `stock/earmarks.py`, their hooks, what gate-ins make and voids undo | - |
| `GateOut` | `dispatch/`, the part of `approvals/engine.py` it drives, two sweep steps | - |
| `Custody` | `custody/`, `jobs/services.py` closing, deactivation in `accounts/services.py`, the custody sweep | - |
| `Notifications` | `notifications/` with the SMS credits | - |
| `Finance` | `commercials/finance.py`, `finance_rules.py`, `budget.py`, `services.py`, `finance_api.py` | - |
| `Attendance` | `attendance/`, the slices and the change of a manager in `approvals/engine.py` | - |
| `Numbering` | `core/numbering.py`, `core/number_series_api.py` | - |
| `Captures` | abstract: what offline capture promises | - |
| `SyncQueue` | `frontend/src/offline`, `sync/`; implements `Captures` | `INSTANCE Captures` |
| `DocumentsProofs` | theorems about `Documents` and `Numbering` | `Documents`, `Numbering`, `SumTheorems` |
| `FinanceProofs` | theorems about `Finance` | `Finance`, `SumTheorems` |
| `FieldProofs` | theorems about what is captured in the field: `SyncQueue`, and that it implements `Captures`; `Attendance` | `SyncQueue`, `Attendance` |
| `YardProofs` | theorems about `Claims` and `GateOut` | `Claims`, `GateOut`, `SumTheorems` |
| `CustodyProofs` | theorems about `Custody` | `Custody` |
| `NotificationsProofs` | theorems about `Notifications` | `Notifications`, `SumTheorems` |
| `SumTheorems` | lemmas about sums over finite sets | - |
| `MC...` | small instances of the above | the module |

**Ledger.** A transaction is two steps.  `Ask` (and `AskReversal`, which is what
`void_gate_in` does) is the caller loading the objects it names, without a lock;
`Post` is `post_movement` from its locks to the commit.  `Post` may be one step
because the row locks are held to the commit and what it checks is read under
them.  The exception is the drum, of which the caller's copy is used as it was
loaded: the transaction carries that copy.  `Refuse` is a rule raising, `Abort`
a client or worker that goes away.  `Accepted` lists the rules in the code's
terms (`InStock`, `AtOrigin`, `HasLength`, `LooseFits`); D10, the rule of `LooseFits`, is
asked of item types whose default mode is REEL only (`DefaultMode`), and neither of a
void nor of a count; `BalancesAfter`,
`UnitAfter` and `DrumAfter` are what a posted movement writes.  A unit or drum
is created in the transaction of its receipt, so before that it stands at the
external node.  The requests that documents may make are the constant
`Requests`; `RequestsAssumption` says what they may be, of a count (`ADJUST`) that it
names neither unit nor drum and takes the mode of the item type, so that a count of
what is kept on drums or by the piece is refused (`_validate_tracking`).  The default mode
is a constant, as it is fixed once there are movements (`catalogue/serializers.py:108-127`;
that test takes no lock, and a change of the mode beside the very first movement is left
out).  `askew` is a history variable: `"place"` is in it once a movement
named a drum that was not, or not whole, where the metres left, which the code
does not look at; `"copy"` once one was posted whose copy of the drum was
outdated.

**Verification** is a set of operators over the same state: `verify_ledger`
reads and reports.

**Documents** is the other side of the ledger: one document posts several
movements in one transaction, and here that transaction is taken apart.  `Load`
is `get_object()`; `BeginPost` the status test on that copy and the number, whose
series row is the first lock; then for every line `NextLine` (which row the
material comes off), `Lock` for each of its balance rows in key order
(`LockOrder`, `_lock_balances`), `Move`; at last `Commit`.  Changes are the
transaction's own (`delta`, `made`) until then.  `Short`, `Abort`, `CommitFails`
and `Victim` (the database breaks a circle of waiting transactions) end it with
nothing left behind.  `Protocol` says what the eight kinds of document have in
common and where they differ.  `BeginVoid` posts the reversals of what stands.
PATCH, discard, submission, approval and refusal are one step each on the loaded
copy.  `overtaken` is history: a handler committed although the document had
changed since it was loaded.

**Claims.** Boxes hold units and a claim on untagged stock, earmarks keep stock for
a site; neither is stock.  `Receive` is a posted gate-in with its boxes and
earmarks, `Move` and `MoveUnit` are movements with the hooks that draw on, carry
or use up claims, `TakeOut`, `EmptyBox` and `ChangeEarmark` the requests of the
box and earmark screens.  Two requests read before they lock and are two steps:
`BeginMove`/`EndMove` (`move_box`) and `BeginVoid`/`EndVoid` (`void_gate_in`, which
writes earmarks from its early copy).  `stale` is history: such a write covered a
change.

**GateOut.** `Load` is `get_object()`: it copies the row, the line, the requests
and whether the job is settled.  Each handler is one action that decides on that
copy and writes exactly the columns the code saves; what the code reads again at
the end (open requests, the balance under its lock) is read from the current
state.  `Saves` is `full_clean` through `_check_job_attribution`.  Each
step of the sweep, expiry and escalation, is two (its query, its loop) because
handlers run between them.  The pass has
one bulk line.  Routing is abstracted to the number of levels it asks for
(`LevelCounts`; 0 approves at once), who may answer to everybody.
`left`, `vetted` and `leftAs` are history; so is `overtaken`, which is set when
a handler commits although the pass has changed since it was loaded, or the sweep
saves over a status it has not seen.

**Custody.** `owed` is the table of expectations, `holds` what lies on a person's
node.  Requests whose answer depends on an early read (`close_job`,
`deactivate_user`, `submit_closeout`) are two steps, and `overtaken` in the request
tells that somebody got something in between.  A sweep is one transaction
(`SweepLoad`, `SweepCommit`) whose marked rows stay locked, followed by one
`Dispatch` per message, after the commit; `WorkerDies` can hit between any two.
`told` and `rung` are history of the messages and of the stages stamped.
`Return` changes no expectation: nothing in the program calls `match_return`.

**Notifications.** `Emit` writes the event in the business transaction,
`CommitBusiness` ends that, `BeginDispatch`, `Send` and `EndDispatch` are the
dispatch after it, `BeginRetry` ... `EndRetry` one run of the scheduled task.
`Send` charges under the lock of the settings row, which is kept to the end of
the transaction, and calls the provider.  `Answers` is what may come of that, for the
channel: the message is taken or not, whatever the adapter makes of the answer; what is
lost, late, a server error or not JSON is worth another try, an SMS that is refused or
whose answer cannot be classified is not, and a failed e-mail always is.  A transaction that dies loses its records and not
what was sent.  `SignInLink` and `TopUp` use the same balance.  `ReadSettings` and
`SaveSettings` are an administrator who changes something else in the settings row
(`OrganizationSettingsView.patch`, the settings on the organisation's page of the Django
admin): read without a lock, saved whole, the balance of the reading with it; `putBack`
counts what that moved.  (Two other settings requests, `attendance/api.py:828` and
`commercials/finance_api.py:1304`, save only what was changed, but the whole row when
nothing was.  A balance typed into the admin page is left out.)  `accepted` is what
the provider knows; `doubt` counts sends that are tried again although they were taken,
whose record was lost, or that crossed another run.

**Finance.** A request is a `Begin` (the load, and what is decided on the copy)
and an end under a row lock; `save()` writes the whole copy back, and so does the
model.  `StillAsLoaded` is `_require_status` on the locked row.  The recorder's
user row is locked from `BeginRecord` to `EndRecord` of an allowance.  `Position`
is `budget_position`: every shilling once, as spent, committed or waiting.
`unweighed` is history: entries that got past the budget's one question by a side
door; `overwritten`: rows that a late PATCH put back; `crossed`: purchases whose delivery
was posted while a reversal had found it a draft.  Such a reversal deletes the posted
document, as it would the draft (`Deleted`): its movements name the document by text
only, so the goods stay in stock, which the model calls `"orphaned"`.  (A delivery with
cable boxes cannot be deleted, and the reversal fails; a posted delivery that was voided
meanwhile is deleted too, and leaves nothing behind.)

**Attendance.** One person, to whose sessions and days no rule relates anybody else's,
and time in hours.  `clock` is the transaction that holds the person (`ClockIn`,
`ClockOut` and `AddDay`, each with its commit), `desk[d]` the one that holds a day
(`FormDay`, `RouteReads` and `FormDayCommits` of the sweep; `Correct` and
`CorrectCommits`).  What such a transaction reads without a lock it has read at its
first step.  `Saved` and `PutBack` are `session.save()`, which writes every column
of the copy.  `NeedsPerson` and the commits of clocking are the deferred foreign
keys: a new row shares the row it points at when the transaction commits, so the
two kinds wait for each other, and `Deadlock` is the database ending one.
The sweep of a tenant is one transaction with savepoints around closing and forming
(`core/tasks.py:60`, `attendance/sweeps.py:150`): all the days of a run stay locked to its
end, whoever they belong to, and an error in forming undoes all it has formed, for the
next hour to find again.  In the model the closing and each day commit by themselves, so
people do not wait for each other's days, as they may in the code.
`CloseStale` is the hourly close, `Decide` an answer to all of one's slices,
`Reassign` a project that changes hands.  `blind`, in a session, is history: the
sessions it could not be compared with.

**Numbering.** One series.  `Allocate` locks the row (or inserts it) and keeps it to
the end of the document's transaction; `CommitNumber` and `ReturnNumber` end it.  The
settings PATCH is `OpenSettings` (an unlocked read and the comparison) and
`SaveSettings`.  The counter has the width of its column, `MaxNumber`.  `stale`
is history: a setting was saved after a document had outdated its reading.

**SyncQueue.** One phone, any number of captures, overlapping drains.  `Send`
takes everything sendable; the server applies the batch row by row in one
transaction (`Apply`, then `Commit` or `Rollback`) and another open batch with
the same uuid waits on the unique constraint; `Hear` marks rows one after the
other and may be cut short anywhere; `GiveUp` is a lost reply.  A handler's own
document is abstracted to a verdict; the verdict of a capture that names a
supplier depends on whether the server knows that supplier.  `Doom` is a row on
which the server raises something the batch loop does not catch.  `CallOnline`,
`ServeOnline`, `HearOnline`, `FallBack` are `submitOrQueue` around a partial
release.

**Captures** says what that is for: every capture becomes one document or one
refusal, never both, and the phone is told which.  The mapping of `SyncQueue`
reads `docs`, the submissions and the phone's rows, for everything that is only
captured offline (a release sent online first does not keep the promise, see
`replayed_release`).

## What each run checks

Sizes are distinct states.  No run replaces a definition; every constant gets a
value or a small definition of its MC module.

| run | size | what it shows |
|---|---|---|
| `ledger` | 183 k | two workers; two tagged units and untagged stock of an antenna, reclassifying returns, voids; two drums and loose length of a cable, cuts, handovers, write-offs, voids; or a rope, kept in bulk, of which one delivery came on a drum; counts of each: `NonNegative`, `RecomputeAgrees`, `UnitPath`, `DrumsBacked`, and the nightly check has nothing to say about any movement it groups rightly (`CheckStaysQuiet`) |
| `documents` | 169 k | seven sets of documents that touch the same balances, two workers: `BooksTellTheDocuments`, `VoidPutsBackUnlessReassessed`, `CirclesNeedEarlierLines`, and under fairness `EveryRequestEnds` |
| `claims` | 156 k | three nested boxes and a crate, two nodes, two sites, two workers: `ContentsAreWithTheirBox`, `BoxClaimsAreBacked`, `EarmarksBackedUnlessStale`, `CarriedEarmarksSurvive` |
| `gateout` | 1.3 M | one pass, two workers, two routing rounds of no or two levels, one PATCH: `NeverOverUnlessOvertaken`, `WaitsForSomebody`, `LeavesApproved`, `FollowsTheMap` |
| `gateout_sweep` | 660 k | two passes under a fair sweep: `ExpiresUnlessBlocked` |
| `custody` | 227 k | two people, one job, two sweep workers: `CleanCloseUnlessOvertaken`, `LeaverHeldNothingUnlessOvertaken`, `StagesInTurn`, and under fairness `OwnerHearsOfIt` |
| `notifications` | 69 k | two workers, one credit, an unreliable provider, an administrator in the settings: `BalanceIsTheLedgerButForSettings`, `PaidForWhatWasTaken`, `TakenOnceUnlessInDoubt`, and under fairness `EveryMessageEnds` |
| `finance` | 802 k | a float and an expense on it; a purchase beside an expense; two overlapping nights: `NightsPaidOnce`, `StatusTellsRequestsUnlessOverwritten`, `SilentlyOverOnlyBySideDoors`, `ReversedPurchaseIsUndoneUnlessCrossed` |
| `numbering` | 189 k | three workers, a column that ends at 4: `NeverTwiceUnlessStale`, `NoGaps` |
| `sync` | 430 k | three captures (a supplier, a delivery that names it, a release), two drains, two faults: `PhoneTellsTheTruth`, `SupplierComesFirst`, the refinement `KeepsThePromise`, and under fairness `Answered` |
| `attendance` | 350 k | one person, two projects, two managers, late captures, an hourly sweep, a failure: `NoHourTwiceUnlessBlind`, `DayTellsItsSlices`, `TimesStandUnlessCrossed`, and under fairness `EveryHourIsAsked` |
| `replayed_release` | - | a counterexample, see [What disagrees](#what-disagrees) |

**Bounds, and why they are enough.**

* `MaxMovements = 5`: a unit goes in, out, to the site, and is voided or returned
  with one movement to spare for the other worker.  A disagreement of a cache
  with the ledger shows after the movement that makes it.
* `MCInBounds` of `ledger`: a behaviour is about the antenna, the cable or the rope, since
  no rule relates two items; and when there is room for one movement more, only
  one is under way, since a second could not be posted.
* Two workers: every race here is between a reader and one writer that overtakes
  it.  Numbering takes three, because a settings request and two posts meet.
* `MaxRounds = 2` with `LevelCounts = {0, 2}` in `gateout`: a second round is the
  first in which requests of an earlier one are left over; two levels are the
  fewest for which one can be unasked when the other is answered.
* `Requested = 2`, `Stock = 3`: a short load, and a balance that suffices for one
  and a half passes, so that the stock rule does not hide an over-release.
* `MCCurrent` of `gateout`: behaviours are followed until a handler or the sweep
  writes over what it has not seen.  From there on `overtaken` stays true and
  none of the four properties says anything, so nothing is lost; without the
  bound the run has more than 15 M states.
* `MaxEdits = 1`: one PATCH under way beside every other handler.
* `MaxFaults = 2`, `MaxNumber = 4`: two faults let a reply be lost and its retry
  die too; four numbers leave room for a jump of the counter and a return under
  it.
* `Present` of `documents`: each set pairs two documents that touch the same rows,
  two of them (`back`/`closeout`, `closeout`/`handover`) in opposite orders.
  `MaxRounds = 1`: a second round of a disposition repeats the first.
  `MaxRows = 1`: a document that was overtaken has left the properties; without
  the bound it could be voided and posted for ever.
* `Bounds` of `custody`: four requests within one day with one release for the
  guards and the handovers; or three days, two deaths and one request for the
  chase, since two deaths are the most that three stages outlive.
* `Bounds` of `notifications`: two messages for one credit with a death; one
  message with a top-up, a sign-in link and an edit of the settings; the other channels
  with a death.
  `MaxAttempts = 2`: a first attempt and a retry that is the last.
* `MaxRequests = 4` in `claims`: two deliveries, and two requests on top; the
  boxes are nested three deep, one more than a code that looks one level down
  could handle.
* `Scenarios` of `finance`: the rules couple entries only within them.
  `MaxRequests = 4` is two rounds of two levels; `Budget = 1` is passed by the
  second entry.
* `Bounds` of `attendance`: two clock-ins, a clock-out and a correction; a day added
  beside a clock-in, with a failure; a project that changes hands, with a
  failure; a day added and corrected.  `DayLength = 3`, `CloseHour = 2`,
  `Horizon = 3`: one day in which a session may begin before or after the closing
  hour, and the first hour of the next, in which the first is a past day.
  `MaxAge` and `Window` (72 hours and 30 days) are longer than a behaviour, so
  nothing is refused for its age.  No Director (`Director = Nobody`), so that a
  project without a manager has nobody to answer for it.

Symmetry is used over workers only, and only in runs without liveness.

**Deadlock** is checked in the ledger, gate pass and numbering runs.  In the
others a behaviour has a bounded number of requests, and may stop when they are
used up; there `EveryRequestEnds`, `EveryMessageEnds`, `OwnerHearsOfIt`,
`EveryHourIsAsked` and `Answered` say what must not remain undone.

**Fairness.**

* `GateOut!FairSpec`: weak fairness of the sweep alone, which Celery beat
  schedules; nothing obliges a person to do anything.
* `Documents!FairSpec`: a worker goes on with its request (weak); a free row is
  handed to those who wait in turn, so whoever waits again and again gets it
  (strong, for `Lock`: PostgreSQL queues waiters); a request that cannot go on
  before it has posted is answered with its error (weak); the database breaks
  circles (weak, `deadlock_timeout`).
* `Custody!FairSpec`: days go by, beat starts a sweep, and a worker that does not
  die finishes it.  Deaths are bounded and not fair.
* `Notifications!FairSpec`: whoever holds a transaction goes on with it; `Send`
  needs the settings row, which is free again and again (strong); beat starts
  the retry task on a worker that is free again and again (strong).
* `Attendance!FairAttendance`: hours pass and beat runs the sweep in each (weak, for its
  steps); a transaction that has begun is finished (weak), the database breaks
  the wait of two (weak).  Clocking in commits even if one sweep after another
  comes in between (strong): it takes less than the hour between two of them.
  Failures are bounded and not fair; nobody is obliged to clock, answer or
  correct.
* `SyncQueue!FairSpec`: weak fairness of what a drain does once there is something
  to send: drains are started by the online event, by the effect on
  `[online, pending]` and by the banner's button, and the server finishes a batch
  it has begun.  After a failed drain without a change of `online` or `pending` it
  is the person who presses the button; fairness assumes somebody does.  At most
  `MaxFaults` faults happen.  `Answered` is not claimed while a queued row is one
  the server raises on: that row takes the whole batch with it on every attempt.

**Conditions of the properties.** They are stated where the property is.  The
important ones:

* `...UnlessOvertaken`, `LeavesApproved`, `WaitsForSomebody`, `FollowsTheMap` and
  `BooksTellTheDocuments` leave out handlers that commit on an outdated copy: an
  approval and a rejection in flight together, or two submissions of one
  closeout, end in the status of whichever commits last.
* `NeverTwiceUnlessStale` and `EarmarksBackedUnlessStale` leave out a
  setting, or a void, saved on an outdated reading.
* `DrumsBacked` speaks of item types kept on drums by default (`Metered`): of any other,
  loose length may be taken that the books have on a drum (the rope of the run), for
  D10 is not asked.  It leaves out movements that name a drum standing elsewhere and
  voids of loose receipts, which are exempt from the rule in the code.  Both it
  and `CheckStaysQuiet` leave out cuts from an outdated copy of the drum.
  `CheckStaysQuiet` also leaves out what was reclassified or cut for a person,
  which the nightly check groups wrongly.
* `VoidPutsBackUnlessReassessed` leaves out material that the gate took in at
  another condition than it was held in: a reversal does not carry
  `from_condition`, so the holder's record keeps the new one.
* `TakenOnceUnlessInDoubt` allows one more for every send whose answer was read as worth
  another try although the message had gone, whose record was lost, or that crossed
  another run of the retry task.  None is allowed for an answer that could not be
  classified.
* `BalanceIsTheLedgerButForSettings` allows the balance to be off the ledger by what saves
  of the settings have put back over it, and by no more.
* `ReversedPurchaseIsUndoneUnlessCrossed` leaves out entries that a late PATCH put back, and
  deliveries posted while a reversal had found them a draft; that a purchase is reversed
  at most once it says of all.
* `StatusTellsRequestsUnlessOverwritten` leaves out entries that a late PATCH put
  back; `SilentlyOverOnlyBySideDoors` lists the doors by which the budget is
  passed in silence.
* `NoHourTwiceUnlessBlind` leaves out two sessions of which one was not compared
  with the other: the sweep closed it between the check of a clock-in and the lock
  of the open session, it had been corrected before a clock-in, or it was added,
  corrected or put back by the other kind of transaction meanwhile.
* `TimesStandUnlessCrossed` leaves out a route or a correction that has read the
  session before, and an answer that came while a clock-out was on its way.
* `StagesInTurn` leaves out two sweeps of one tenant that ran at once.

## Faulty variants

Operators marked `F:` in the comments are used by no action.  Each is the
operator after it, changed the way a plausible slip in that code would.  Putting
it in place makes the named property fail under the same configuration, so no
property holds for want of anything that could break it.

| module | variant | of | noticed by |
|---|---|---|---|
| `Ledger` | `InStockUnlessReversal` | `InStock` | `NonNegative` |
|  | `BalancesReclassified` | `BalancesAfter` | `RecomputeAgrees` |
|  | `AtOriginUnlessReversal` | `AtOrigin` | `UnitPath` |
|  | `LooseUnchecked` | `LooseFits` | `DrumsBacked` |
|  | `DrumLeftBehind` | `DrumAfter` | `CheckStaysQuiet` |
| `GateOut` | `TotalOfThisLoad` | `Total` | `NeverOverUnlessOvertaken` |
|  | `MootNone` | `Moot` | `WaitsForSomebody` |
|  | `ApprovesUnasked` | `Approves` | `LeavesApproved` |
|  | `MayBecomeUnchecked` | `MayBecome` | `FollowsTheMap` |
|  | `ReachedNone` | `Reached` | `ExpiresUnlessBlocked` |
| `Numbering` | `MayLockUnlocked` | `MayLock` | `NeverTwiceUnlessStale` |
|  | `ReturnedNever` | `Returned` | `NoGaps` |
| `SyncQueue` | `MarkedAsLanded` | `Marked` | `PhoneTellsTheTruth` |
|  | `LastOf` | `First` | `SupplierComesFirst` |
|  | `InsertedNever` | `Inserted` | `KeepsThePromise` |
|  | `HeldBehindRefused` | `Held` | `Answered` |
| `Documents` | `MayBeginAnyStatus` | `MayBegin` | `BooksTellTheDocuments` |
|  | `SameAgain` | `ReversalOf` | `VoidPutsBackUnlessReassessed` |
|  | `OwnSideFirst` | `LockOrder` | `CirclesNeedEarlierLines` |
|  | `ReleaseNothing` | `Freed` | `EveryRequestEnds` |
| `Custody` | `StillOpenOf` | `OutstandingOf` | `CleanCloseUnlessOvertaken` |
|  | `AnybodyMayLeave` | `MayLeave` | `LeaverHeldNothingUnlessOvertaken` |
|  | `DueStageAgain` | `DueStage` | `StagesInTurn` |
|  | `LateSinceYesterday` | `Late` | `OwnerHearsOfIt` |
| `Notifications` | `LockIgnored` | `LockFree` | `BalanceIsTheLedgerButForSettings` |
|  | `ChargedAnyway` | `Charge` | `PaidForWhatWasTaken` |
|  | `EverythingToRetry` | `ToRetry` | `TakenOnceUnlessInDoubt` |
|  | `AfterUncounted` | `After` | `EveryMessageEnds` |
| `Claims` | `OpenTreeOneLevel` | `OpenTree` | `ContentsAreWithTheirBox` |
|  | `BoxesAllowAll` | `BoxesAllow` | `BoxClaimsAreBacked` |
|  | `AllIsFree` | `Free` | `EarmarksBackedUnlessStale` |
|  | `MarksStayBehind` | `MarksAfter` | `CarriedEarmarksSurvive` |
| `Finance` | `RecorderUnlocked` | `RecorderFree` | `NightsPaidOnce` |
|  | `CopyWillDo` | `StillAsLoaded` | `StatusTellsRequestsUnlessOverwritten` |
|  | `WaitingUncounted` | `Waiting` | `SilentlyOverOnlyBySideDoors` |
|  | `ReversedOnTheCopy` | `MayStillReverse` | `ReversedPurchaseIsUndoneUnlessCrossed` |
| `Attendance` | `AdmitsOpen` | `Admits` | `NoHourTwiceUnlessBlind` |
|  | `ProjectedAtOnce` | `Projected` | `DayTellsItsSlices` |
|  | `ReplaceableAlways` | `Replaceable` | `TimesStandUnlessCrossed` |
|  | `FormedOnce` | `Formable` | `EveryHourIsAsked` |

## What disagrees

One run has a counterexample as its result:

* `replayed_release`: a release sent online whose reply is lost is queued under a
  new uuid; if it was partial, it is applied twice
  (`frontend/src/offline/sync.ts:293`, against `docs/01-requirements.md:742`).

The following are stated as definitions beside the properties of their modules,
and no run lists them.  Adding the name to the `INVARIANTS` or `PROPERTIES` of the module's
configuration yields the behaviour described.

| definition | what happens | where |
|---|---|---|
| `GateOut!NeverOver` | two releases of one pass both post; the line records one of them | `dispatch/services.py:984` |
| `GateOut!Expires` | a settled job makes every save of its pass fail, and the exception ends the sweep's loop before older passes are reached | `dispatch/services.py:1324` |
| `GateOut!LeavesAsVetted` | a PATCH of the header is accepted in any status, where a comment sends it through amendment | `dispatch/views.py:326` |
| `Numbering!NeverTwice` | a settings PATCH that overlaps a posting puts the counter back on the number just issued | `core/number_series_api.py:105` |
| `Documents!PostedOnce` | a double submission of a closeout, handover or disposition posts untagged lines twice | `disposition/services.py:278`, `jobs/services.py:76` |
| `Custody!OwesWhatIsHeld` | a return leaves every expectation open: nothing calls `match_return` | `custody/views.py:69` |
| `Custody!HolderIsChased` | after a handover the reminders given to the giver count as given, so the receiver may never be told (bounds: one request, three days, one unit) | `custody/services.py:258` |
| `Notifications!NothingIsLost` | an event whose worker dies between commit and dispatch is never dispatched | `config/settings/base.py:296` |
| `Notifications!FailedSendCostsNothing` | a sign-in link that the provider refuses is not refunded | `notifications/credits.py:16`, `accounts/reset.py:173` |
| `Notifications!BalanceIsTheLedger` | an administrator who saves other settings puts the balance of an earlier reading back over a charge or a top-up | `accounts/admin_api.py:785`, `core/admin.py:74`, against `notifications/credits.py:9`, `core/models.py:242`, `notifications/models.py:130` |
| `Claims!NothingLeavesItsBox` | a unit that was packed elsewhere while its box was moved is carried out of that box | `stock/boxes.py:618` |
| `Claims!ChildIsWhereItsParentIs` | a closed box keeps its parent, and the nightly check compares it with where the parent is now | `stock/verification.py:176` |
| `Finance!ReversedPurchaseIsUndone` | a delivery posted after `reverse_purchase` has found it a draft is deleted with the reversal, and its goods stay in stock, where the docstring says such a reversal is refused | `commercials/services.py:179`, against `commercials/services.py:124` |
| `Finance!NeverSilentlyOver` | an entry sent again after a rejection is not asked about the budget again | `commercials/finance.py:149` |

Two more contradict what is written, and no single definition states them:

* Two cuts that have loaded one drum both pass, if other length keeps the balance high
  enough, and the later one writes the drum's length over the earlier one's
  (`stock/services.py:294`), although the docstring says that two simultaneous issues
  from one drum cannot both pass (`stock/services.py:659-660`): the balance is locked, the
  drum compared is the caller's.  In `Ledger` this is `askew` with `"copy"` in it.
* A route or a correction that read a session before its clock-out was recovered puts the
  automatic end back (`attendance/routing.py:173`, `attendance/corrections.py:233`),
  although recorded times are never overwritten (`attendance/models.py:79-81`,
  `attendance/corrections.py:5-6`).  In `Attendance` this is one of the crossings that
  `TimesStandUnlessCrossed` names.

Further consequences of the code: a sweep that closes a session between the check of a clock-in and the lock of the
open session leaves two sessions that overlap (`attendance/services.py:315`), as does a
clock-in into an hour that a correction has given to another session, since it looks
at recorded times only (`attendance/services.py:304`); a release of zero
quantity makes a pass `PARTIALLY_RELEASED`, a status in which it never expires;
after any reclassifying movement the nightly check reports drift, because it
groups what went out by the condition it arrived in (`stock/verification.py:93`),
while `RecomputeAgrees` holds throughout; an expense can be reversed twice, as the
test and the insert are unlocked (`commercials/services.py:62`); `mark_paid` reads
the reversals before it locks the entry (`commercials/finance.py:1049`); the steps of
a sweep share one transaction, so a database error in one undoes the tenant's
whole sweep (`core/sweeps.py:162`); a count of a client's stock never posts, since
nothing brings it to `PENDING_APPROVAL`; a closeout submitted after `close_job`
reopens the job.

## What is proved

`LedgerProofs`, for any nodes, items, conditions, units, drums, requests, number of
workers and length of the ledger, from the named assumptions of `Ledger`:

* `TypeCorrect`: `[]TypeOK`.  The invariant is `IInv == TypeOK /\ CopiesBounded`.
  `TypeOK` alone is not inductive: that a drum never holds more than it started
  with is decided from the caller's copy, so the copies in open transactions have
  to be bounded too.
* `NeverNegative`: `[]NonNegative`, by what `post_movement` leaves in one balance row
  (`BalanceRow`): the row that is decremented was compared under its lock.
* `UnitsFollowTheLedger`: `[]UnitAtLastMovement`, by what appending does to the
  earlier movements (`Appended`).
* `UnitsMoveAlongAPath`: `[]UnitPath`, from the former and the check of the unit under
  its own lock: the last movement of a unit ended where the next one starts.
* `CacheIsTheLedger`: `[]RecomputeAgrees`.  What a movement adds to each row
  (`BalanceRow`) is what it adds to the sum of the ledger.
* `DrumsAreInStock`: `[]DrumsBacked`.  What a row holds on drums is a sum with one part
  for every drum, and a movement changes one of them (`OneDrumChanges`): a cut from a
  drum in stock takes as much off the drum as off the balance, a whole drum takes its
  metres along, and loose length is compared with what no drum holds.  The proof also
  needs that documents ask for consistent lines (`RequestsConsistent`), that a drum not
  yet received stands outside (`NewDrumsOutside`) and `NonNegative`.  It speaks of items
  that are kept on drums by default and have no units (`Metered`): of these every loose
  line but a void's is compared, for a count of one is a line that must name its drum
  (`RequestsConsistent`) and is refused.
* `NobodyIsAccused`: `[]CheckStaysQuiet`, of `Verification`.  Its balance part follows
  from `CacheIsTheLedger`; for its drum part a drum is shown to be short by exactly
  the cuts the check subtracts.

`SumTheorems` is what these proofs, and those about documents and credits, rest on.
A sum is a fold, defined by a function that takes the elements of a set away one by
one in an order CHOOSE settles, and what it computes needs an induction, which here
is done with least elements: a function on the subsets of the set that obeys the
recursion in every order (a table) exists, because otherwise there would be a
smallest set that has none, and the fold is that function, because otherwise there
would be a smallest set where they differ.  From that follow what a proof uses: the
sum of a set with one element more or less, of equal, changed, larger, renamed and
added functions.

`DocumentsProofs`, for any documents with any lines, any order of the balance rows
and any number of workers:

* `OrderedLocks`: `[]CirclesNeedEarlierLines`, what `_lock_balances` promises.  Each
  lock gets a level: 0 for the row of a number series, the place in the order for
  a balance row.  The invariant says that a transaction which has moved nothing
  yet asks for its locks at rising levels, all above those it holds (`Rising`); for
  that it must know that a document takes at most one number, that the number
  comes before any row, and that only its first movement is at stake.  In a circle
  of such transactions take the one that waits at the highest level
  (`Highest`): whoever holds what it waits for waits higher still, and is in the
  circle too.  The argument breaks for a transaction that has moved something, as
  it should: those do deadlock, and only `EveryRequestEnds` and the database's
  detector speak for them.
* `StockIsNeverOwed`: every committed balance of a place of stock is at least nothing.
  The refusal is decided on what the transaction sees, its own changes on top of what
  is committed, so the invariant (`StockInv`) is about that sum: whatever row a
  transaction has changed it has locked, so no two have changed the same row, and a
  commit lowers a row only for the one who saw it (`Holds`).
* `BooksAreTold` and `VoidsPutBack`: `[]BooksTellTheDocuments` and
  `[]VoidPutsBackUnlessReassessed`.  Neither says anything of a transaction in the
  middle of its work, so the invariant (`BooksInv`) compares what it has made and is
  about to make with the ledger it will be committed to: a posting has made the
  movements of its first lines, each in full, and nothing for the others (`Posts`); a
  void has taken up exactly what stands (`Voids`), or another has voided the document
  meanwhile, or a stale save has overtaken it.  That a line is made in full rests on the
  sources of a line adding up to it, which needs `StockInv`: what the holder has
  is never below nothing.  On committing, `Joined`, `PostedStands` and `VoidedStands`
  say what stands in one ledger after another.  For a void, `BackChanges` and
  `NothingIsLeft` show that the changes cancel in pairs.
* They use the assumptions on `Sheet`, `Order`, `Opening`, `Procs`, that no number
  series is a balance row, that a balance row is a pair of a node and a condition
  (`RowAssumption`), and that a return comes from a person (`HolderAssumption`).

`DocumentsProofs` also holds the theorems about `Numbering`, for any number of workers
and any width of the column:

* The invariant is `SeriesInv`: `NumberingTypeOK`, what an open posting has taken and that it
  holds the row (`PostsHoldTheRow`), what an open setting has read
  (`SettingsMoveForward`), that every number below the counter is accounted for
  and that the counter is ahead of every number issued unless a stale setting
  was saved (`CounterAhead`), with the three properties themselves.
* `NumbersTyped`, `NumberedOnce`, `GapFree`, `FloorIsTrue` follow from it at once;
  `NumbersGrow` is the action property `InOrder`, from `SeriesInv` and a commit.
  They use `NumberAssumption` and `WriterAssumption`.

`YardProofs`, boxes and earmarks, for any boxes, units, sites, deliveries, workers and
quantities:

* `ContentsStay`, `ClaimsAreBacked`, `EarmarksAreCovered` and `EarmarksAreCarried`: all four
  properties of the run `claims`.  The three invariants hold each other up: a box is
  closed when nothing is left in it, which what it claims decides; what a box claims
  may be taken from a node only because all of a tree stands where its outermost box
  does.  `ClaimsInv` adds that boxes come from a posted gate-in and only ever come out
  of each other (`BoxesAsReceived`), and what a worker knows between its read and its
  locks (`RequestsSound`): who moves a box has read every open box inside, so the boxes
  that follow leave no unit behind; who voids a gate-in knows its place and its site.
* A tree of boxes is what surrounds a box in the least set closed outwards, and
  `Emptied` the least set closed under being left empty; `ChainGoesOn`, `ChainShortens` and
  `WhatClosingDoes` say of them what one turn of the code's loops does.  `CuttingKeepsInventory`
  and `CutsFit` are about drawing on claims in the order of codes, `TwoDraws` and
  `DrawsFit` about drawing on a site's own earmark, then on free stock, then on the
  others, `EarmarksFollow` and `ClaimsGoAlong` about what goes with stock that moves.  They
  rest on the sums of `SumTheorems` and on `DrawnSum`: a draw in an order takes
  what is needed or all there is.
* They use `ClaimsAssumption`.  What it says of a delivery, that its boxes lie in each
  other as a tree of its own and claim no more than is received, is what
  `_check_boxes` and the unique codes refuse otherwise.

`YardProofs`, gate passes, for any passes, workers, quantities and routings:

* `NeverOverTheRequest`, `WaitsWhileAsked`, `LeavesWhenApproved`, `StaysOnTheMap`: all
  four properties of the run `gateout`.  The invariant says, of every pass that is
  not overtaken, what its status tells of its requests (`Sound`): nobody is
  PENDING unless the pass waits; while it waits the last round is open or
  approved and somebody is open; once it is releasable the whole last round has
  approved.  `LeavesApproved` does not follow from the guard of the release: an
  ESCALATED request of an earlier round survives a rejection and is answered in
  a later one, so the last answer must be shown to be the last of the last round.
* The lemmas are about the helpers (`SupersedeMeans`, `AnswerMeans`, `RoutedMeans`: a
  routing opens a round of its own after all others), then one per handler.  A
  handler that leaves a pass not overtaken has worked on the row as it is
  (`Framed`), so nothing need be known of copies.  It uses `NumbersAssumption`.

`FieldProofs`, the queue, for any captures, any number of overlapping drains and any
number of faults:

* `TruthOnThePhone` and `SuppliersAreNotOvertaken`: `[]PhoneTellsTheTruth` and
  `[]SupplierComesFirst`.  What carries both is `DrainsAgree`: what an open batch has
  worked out is committed already or nobody else's to commit, a batch is worked
  through in the order of capture, and the supplier an entry names is in its
  batch or on the register; an answer on its way equals the submission it tells
  of.  That the first row of a batch exists needs well-foundedness (`FirstIsFirst`).
* `QueueKeepsThePromise`: `KeepsThePromise`, the refinement of `Captures`.  Under the
  mapping a commit settles the fresh captures of its batch (`CommitSettles`), hearing
  an answer tells of them (`HearTells`), and every other step is a stutter
  (`OthersStutter`).  It uses `OrderAssumption` and `NamesAssumption`.

`FieldProofs`, attendance, for any projects, managers and bounds of what happens:

* `DaysTell`, `NoHourIsWorkedTwice` and `TimesStand`: `[]DayTellsItsSlices`,
  `[]NoHourTwiceUnlessBlind` and `TimesStandUnlessCrossed`, all properties of the run
  `attendance` but the one that needs fairness.  The invariant, `AttendanceInv`, is
  about the rows and about the transactions in flight.  Of the rows: one session is
  open at most, and nobody has been asked about it (`OneOpen`, `OpenIsPlain`); a
  session is on a slice of its own day (`SliceOfItsDay`).  Of a clocking out: the
  session it has found is open, or ends later and is nobody's answer unless the
  clocking was overtaken (`ClockSound`).  Of a desk: what it has read of its day is
  closed (`DeskSound`), and the hours a correction states were free of every session
  it read, which is still true of the starts it saves back, though not of the ends
  (`CorrectionSound`).
* The lemmas say what becomes of a row (`Follows`, `Stays`, `Shrinks`): saving a copy
  back never moves a start, and where it moves an end the session is blind to all
  others from then on (`PutFollows`), so a pair of sessions is apart, or blind, after a
  step as before it (`PairsStay`).  A day is judged as it was when nothing of it moved
  (`DayKept`), anew when it was refreshed (`DayRefreshed`), and by what is not asked
  yet when a session was begun on it (`DayGrows`).  It uses `AttendanceAssumption`; `Bounds`
  may be any set.

`CustodyProofs`, for any people, jobs, closeouts, web workers and sweeps:

* `CleanClose` and `LeaversHeldNothing`: the action properties
  `CleanCloseUnlessOvertaken` and `LeaverHeldNothingUnlessOvertaken`.  The invariant
  says of every request in flight that what it has read still holds or that it has
  been overtaken.  Each action must therefore bring nobody material or a debt
  (`NothingNew`) except those it tells; a handover does tell the receiver, and a
  return, a sweep or a closeout of what is gone has nobody to tell.
* `ChasedInTurn`: `[]StagesInTurn`.  The invariant is `ChaseInv`: until two sweeps cross,
  the stamps of an expectation are those of the stages announced for it, in their
  order (`Reached`), and what a sweep still has to announce is the next stage of its
  expectation (`IsTurnOf`), which nobody else can stamp before it is done.  After a
  crossing the property asks for nothing.  Both use `CustodyAssumption`.

`FinanceProofs`, for any entries, people, nights and workers:

* `NoNightTwice`: `[]NightsPaidOnce`.  The property is not inductive: between the rule
  of the dates and the save of an allowance only the recorder's locked user row
  keeps another one of that person from coming to life.  The invariant adds that
  the allowances of one person are recorded one at a time (`OneRecordingEach`),
  that what is being recorded clashes with nothing alive (`RecordingsAreClear`)
  and that no PATCH in flight is one of an allowance (`EditsSpareNights`).
* `ReversedWholeAndOnce`: `[]ReversedPurchaseIsUndoneUnlessCrossed`.  The invariant,
  `PurchasesInv`, says of each purchase that it is tidy (`Tidy`): it is reversed at
  most once, one worker at most holds it locked to reverse it, and that worker finds
  it not yet reversed; and, unless one of the two crossings has reached it (`Strayed`,
  `Sound`), that it has a delivery only while its money is committed, that a draft
  delivery is linked and no document missing, that whoever pays or reverses it counts on
  what still holds, and that what a reversal has found a draft is not posted.
* `StatusTellsRequests`: `[]StatusTellsRequestsUnlessOverwritten`.  The invariant,
  `AnswersInv`, says that an entry is recorded once (`RecordedOnce`), that all its
  rounds of approval but the last are over, and that its status tells where the last
  one is (`Tells`).
* `NeverOverInSilence`: `[]SilentlyOverOnlyBySideDoors`.  The position is a sum over the
  entries of the project of what each counts for, by its row, its reversals, its
  delivery and, for a float, what has been spent from it (`Shares`, `PositionIsSum`).
  Each action is shown to raise no share, or to move one: a reversal, a receipt, a
  payment and the closing of a float lower theirs; the last signature turns what
  waited into what counts; the signature of an expense within its float adds its
  amount to the entry and takes it off the float (`SpendingShare`).  Only a recording
  raises the position, and it is marked when that passes the budget, unless the
  position it was judged by has moved, which is a side door.  The invariant,
  `BudgetInv`, says this until a side door has been used, with what it needs of the
  copies in flight (`CopiesSound`: a copy keeps the mark and the signature of its row),
  of the recordings (`RecordingsJudged`) and of the floats (`FloatsReady`: what is spent
  from is paid out and part of the project).
  All four use `FinanceAssumption`, which for this one says that the entries are
  finitely many and that the absence of a float is not an entry.

`NotificationsProofs`, for any events, messages, workers, attempts and credits:

* `TakenAtMostOnce`: `[]TakenOnceUnlessInDoubt`.  The property counts, and so does the
  invariant: a worker that has yet to send a message, or has had it refused or
  unheard and not committed while it is to be tried again, holds a token for it, and what was taken and the
  tokens together are never more than one and the doubts (`TokensCount`).
  Sending turns a token into a delivery; reading a row somebody has in hand,
  losing an answer and dying before the commit each add to the doubt.  That a
  message gets its first token once rests on an event being in the hands of one
  worker (`Queues`) and on nothing being done for it before (`Untouched`).
* `PaidForExactlyWhatWasTaken`: `[]PaidForWhatWasTaken`, from the first and from
  charges that are not committed being of the worker that holds the settings row
  (`ChargesUnderLock`).
* `BalanceIsTheLedgerAndSettings`: `[]BalanceIsTheLedgerButForSettings`.  The invariant,
  `BalanceInv`, says of what is committed and of what each worker has written that the
  balance is the sum of the entries and what was put back, of what each editor has read
  that it is no less than the sign-in links sent on credit (`PagesRead`), and that only the worker that holds the settings row has
  written any (`WrittenUnderLock`).
  All use `NotificationAssumption`.

TLC evaluates the assumptions in every run of the module that declares them.

## What is only model-checked

* Liveness (`EveryRequestEnds`, `OwnerHearsOfIt`, `EveryMessageEnds`, `EveryHourIsAsked`,
  `ExpiresUnlessBlocked`, `Answered`): fairness is about ENABLED, for which the prover has no
  rules.  These are the only properties of a passing run that no theorem states.

## What is not modelled, and why

`PROJECT.json` has a note for each component.  In short:

* Planned (below): contracts and milestones, sync exceptions and
  photos.
* Tenancy, audit and immutability are filters and triggers on single queries;
  catalogue, network and locations are registers that appear as constants; assets
  are a register with reminders; reporting reads; attachments, screens and
  platform administration are input and output.
* Left out of modelled components: owners of stock and valuation in the ledger;
  units, drums and boxes named on the lines of a pass, its variances and
  attachments; rules, delegation and self-approval in the approvals engine; labour
  cost and variances of closeouts; the listings of boxes and earmarks; who is told
  of what (the notification matrix is a constant); casual labour and limits in
  finance; positions, areas and who may not answer for themselves in attendance, where
  every refusal of that kind leaves no trace; the contents of the documents that
  arrive by sync.

`Ledger`, `Documents` and `Claims` see the same movements from three sides.  They are
not composed into one specification, whose state space would be the product: `Ledger`
proves and checks what one movement does to the copies, `Documents` takes one
number per balance row and checks what a sequence of movements in one transaction
does, and `Claims` takes one lot and checks what the hooks of a movement do.
`SyncQueue` takes the phone's clock to be in capture order (`Rank`).

## Plan

Done: all modules above and their proofs.  Next, in this order:

1. **Contracts and milestones**, with the supplier bills that `Finance` takes as given.
2. **Sync exceptions and photos**: fix and resend under a new uuid, uploads that
   follow an applied entry.
