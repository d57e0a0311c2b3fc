------------------------------ MODULE GateOut ------------------------------
(***************************************************************************)
(* The gate pass: dispatch/models.py, dispatch/services.py and the part of *)
(* approvals/engine.py it drives.  A pass has one bulk line; serialized and*)
(* drum lines post through Ledger.                                         *)
(*                                                                         *)
(* Every handler runs in one transaction that starts with get_object(), a  *)
(* read WITHOUT a lock, decides on that copy, and ends by writing some of  *)
(* the columns.  So a handler is two steps: Load takes the copy, and the   *)
(* action named for the handler checks and commits.  What a handler reads  *)
(* again or writes as an UPDATE at the end (the open approval requests, the*)
(* stock balance under its lock) is read from the current state.           *)
(*                                                                         *)
(* Faulty variants of an operator (used by no action) stand just before it *)
(* and are marked F.                                                       *)
(***************************************************************************)
EXTENDS Integers, Sequences, FiniteSets

CONSTANTS
    Passes,         \* gate passes, newest first is given by Newest
    Newest,         \* the passes in the order the sweep visits them (-created_at)
    Procs,          \* web workers
    Idle,           \* a process has no transaction open
    Requested,      \* requested_qty of the line
    Stock,          \* balance of the from-location to begin with
    LevelCounts,    \* how many levels routing may ask for; 0 approves at once
    MaxRounds,      \* bound: how many times a pass is routed
    MaxEdits        \* bound: how many times its header is edited

ASSUME NumbersAssumption ==
    /\ Requested \in Nat \ {0} /\ Stock \in Nat
    /\ MaxRounds \in Nat /\ MaxEdits \in Nat
    /\ LevelCounts \subseteq Nat
ASSUME NewestAssumption ==
    /\ Newest \in Seq(Passes)
    /\ \A g \in Passes : \E k \in DOMAIN Newest : Newest[k] = g

Statuses == {"DRAFT", "PENDING_APPROVAL", "APPROVED", "REJECTED", "PARTIALLY_RELEASED",
             "RELEASED", "CLOSED", "CANCELLED", "EXPIRED"}
Releasable == {"APPROVED", "PARTIALLY_RELEASED"}

\* ALLOWED_TRANSITIONS
AllowedTransitions ==
    [s \in Statuses |->
        CASE s = "DRAFT"              -> {"PENDING_APPROVAL", "CANCELLED"}
          [] s = "PENDING_APPROVAL"   -> {"APPROVED", "REJECTED", "CANCELLED"}
          [] s = "APPROVED"           -> {"PARTIALLY_RELEASED", "RELEASED", "EXPIRED",
                                          "CANCELLED", "PENDING_APPROVAL"}
          [] s = "REJECTED"           -> {"PENDING_APPROVAL", "CANCELLED"}
          [] s = "PARTIALLY_RELEASED" -> {"PARTIALLY_RELEASED", "RELEASED", "CLOSED"}
          [] s = "RELEASED"           -> {"CLOSED"}
          [] s = "EXPIRED"            -> {"PENDING_APPROVAL", "CANCELLED"}
          [] s \in {"CLOSED", "CANCELLED"} -> {}]

RequestStatuses == {"PENDING", "APPROVED", "REJECTED", "ESCALATED", "SUPERSEDED"}
Open == {"PENDING", "ESCALATED"}

\* ApprovalRequest: its level, the routing round that created it, its status.
ApprovalRequest == [level: Nat, round: Nat, status: RequestStatuses]

\* A pass as get_object loads it: its row, its line's released_qty, its approval
\* requests in the order of their ids, and whether its job is CLOSED or CANCELLED.
Doc == [status: Statuses, deadline: BOOLEAN, head: Nat, gone: Nat,
        reqs: Seq(ApprovalRequest), settled: BOOLEAN]

VARIABLES
    doc,        \* each pass
    late,       \* its expires_at has gone by
    stock,      \* the balance the line draws on
    txn,        \* the open transaction of each process
    sweep,      \* the passes the running sweep has read; {} when none runs
    unanswered, \* the requests of each pass that it has read as overdue
    left,       \* history: what its stock movements took out of the yard
    vetted,     \* history: the headers that routing has approved
    leftAs,     \* history: the headers material left under
    overtaken   \* history: some handler committed on a copy that was out of date

vars == <<doc, late, stock, txn, sweep, unanswered, left, vetted, leftAs, overtaken>>
sweeps == <<sweep, unanswered>>

Draft == [status |-> "DRAFT", deadline |-> FALSE, head |-> 0, gone |-> 0,
          reqs |-> << >>, settled |-> FALSE]

Init ==
    /\ doc = [g \in Passes |-> Draft]
    /\ late = [g \in Passes |-> FALSE]
    /\ stock = Stock
    /\ txn = [p \in Procs |-> Idle]
    /\ sweep = {}
    /\ unanswered = [g \in Passes |-> {}]
    /\ left = [g \in Passes |-> 0]
    /\ vetted = [g \in Passes |-> {}]
    /\ leftAs = [g \in Passes |-> {}]
    /\ overtaken = [g \in Passes |-> FALSE]

-----------------------------------------------------------------------------
(* Approval requests.                                                      *)

OpenOf(reqs) == {k \in DOMAIN reqs : reqs[k].status \in Open}

\* next_pending_request: the open request of the lowest level, then id; 0 if none.
NextPending(reqs) ==
    IF OpenOf(reqs) = {} THEN 0
    ELSE CHOOSE k \in OpenOf(reqs) : \A m \in OpenOf(reqs) :
            reqs[k].level < reqs[m].level \/ (reqs[k].level = reqs[m].level /\ k <= m)

Round(reqs) == IF reqs = << >> THEN 0 ELSE reqs[Len(reqs)].round

\* create_requests, and record_auto_approval when no level is required.
Routed(reqs, n) ==
    LET r == Round(reqs) + 1
    IN  reqs \o IF n = 0 THEN <<[level |-> 0, round |-> r, status |-> "APPROVED"]>>
                ELSE [k \in 1 .. n |-> [level |-> k, round |-> r, status |-> "PENDING"]]

\* UPDATE ... SET status = SUPERSEDED WHERE status IN (...)
Supersede(reqs, which) ==
    [k \in DOMAIN reqs |->
        IF reqs[k].status \in which THEN [reqs[k] EXCEPT !.status = "SUPERSEDED"]
                                    ELSE reqs[k]]

Answer(reqs, k, status) == [reqs EXCEPT ![k].status = status]

-----------------------------------------------------------------------------
(* Reading: get_object() and what the handler looks at before any lock.    *)

Load(p) ==
    /\ txn[p] = Idle
    /\ \E g \in Passes :
          txn' = [txn EXCEPT ![p] = [pass |-> g, copy |-> doc[g], late |-> late[g]]]
    /\ UNCHANGED <<doc, late, stock, sweeps, left, vetted, leftAs, overtaken>>

Loaded(p, g) == p \in Procs /\ txn[p] # Idle /\ txn[p].pass = g
Copy(p) == txn[p].copy

\* GateOut.transition, with the reason each of them demands given.
\* F: the map is not consulted.
MayBecomeUnchecked(c, status) == TRUE
MayBecome(c, status) == status \in AllowedTransitions[c.status]

\* GateOut.save -> full_clean -> _check_job_attribution: a settled job refuses
\* every write of a pass that names it.
Saves(c) == ~c.settled

\* What every handler does at its end: the history of the pass, and the process.
Commit(p, g) ==
    /\ overtaken' = [overtaken EXCEPT ![g] = @ \/ doc[g] # Copy(p)]
    /\ txn' = [txn EXCEPT ![p] = Idle]
    /\ UNCHANGED sweeps

\* A refusal or an error: the transaction leaves nothing behind.
Abandon(p) ==
    /\ txn[p] # Idle
    /\ txn' = [txn EXCEPT ![p] = Idle]
    /\ UNCHANGED <<doc, late, stock, sweeps, left, vetted, leftAs, overtaken>>

-----------------------------------------------------------------------------
(* The handlers.                                                           *)

\* The columns submit and amend write at their end: routing asks n levels or approves
\* at once, with a deadline that has yet to pass.
Route(g, c, reqs, n) ==
    /\ Round(reqs) < MaxRounds
    /\ doc' = [doc EXCEPT ![g].reqs = Routed(reqs, n),
                          ![g].status = IF n = 0 THEN "APPROVED" ELSE "PENDING_APPROVAL",
                          ![g].deadline = n = 0 \/ c.deadline]
    /\ late' = [late EXCEPT ![g] = @ /\ n # 0]
    /\ vetted' = [vetted EXCEPT ![g] = IF n = 0 THEN @ \cup {c.head} ELSE @]

\* submit_gate_out
Submit(p, g) ==
    /\ Loaded(p, g)
    /\ Copy(p).status \in {"DRAFT", "REJECTED", "EXPIRED"}
    /\ MayBecome(Copy(p), "PENDING_APPROVAL") /\ Saves(Copy(p))
    /\ stock >= Requested
    /\ \E n \in LevelCounts : Route(g, Copy(p), doc[g].reqs, n)
    /\ Commit(p, g)
    /\ UNCHANGED <<stock, left, leftAs>>

\* approve_gate_out: the request is the one that was open when the handler looked; what
\* remains is asked again after it is answered.  The last answer approves the pass.
\* F: any answer approves the pass.
ApprovesUnasked(reqs) == TRUE
Approves(reqs) == OpenOf(reqs) = {}

Approve(p, g) ==
    /\ Loaded(p, g)
    /\ LET k == NextPending(Copy(p).reqs)
           answered == Answer(doc[g].reqs, k, "APPROVED")
       IN  /\ k # 0
           /\ IF Approves(answered)
              THEN /\ MayBecome(Copy(p), "APPROVED") /\ Saves(Copy(p))
                   /\ doc' = [doc EXCEPT ![g].reqs = answered,
                                         ![g].status = "APPROVED",
                                         ![g].deadline = TRUE]
                   /\ late' = [late EXCEPT ![g] = FALSE]
                   /\ vetted' = [vetted EXCEPT ![g] = @ \cup {Copy(p).head}]
              ELSE /\ doc' = [doc EXCEPT ![g].reqs = answered]
                   /\ UNCHANGED <<late, vetted>>
    /\ Commit(p, g)
    /\ UNCHANGED <<stock, left, leftAs>>

\* reject_gate_out: levels not yet asked are moot, but only the PENDING ones go.
\* F: they stay as they are.
MootNone(reqs) == reqs
Moot(reqs) == Supersede(reqs, {"PENDING"})

Reject(p, g) ==
    /\ Loaded(p, g)
    /\ MayBecome(Copy(p), "REJECTED") /\ Saves(Copy(p))
    /\ LET k == NextPending(Copy(p).reqs)
       IN  /\ k # 0
           /\ doc' = [doc EXCEPT ![g].reqs = Moot(Answer(doc[g].reqs, k, "REJECTED")),
                                 ![g].status = "REJECTED"]
    /\ Commit(p, g)
    /\ UNCHANGED <<late, stock, left, vetted, leftAs>>

\* amend_gate_out: the approval is voided and routing runs again.
Voided(reqs) == Supersede(reqs, Open \cup {"APPROVED"})

Amend(p, g) ==
    /\ Loaded(p, g)
    /\ Copy(p).status \in {"REJECTED", "APPROVED", "PENDING_APPROVAL", "EXPIRED"}
    /\ Copy(p).gone = 0
    /\ Saves(Copy(p))
    /\ \E n \in LevelCounts :
          Route(g, [Copy(p) EXCEPT !.deadline = FALSE], Voided(doc[g].reqs), n)
    /\ Commit(p, g)
    /\ UNCHANGED <<stock, left, leftAs>>

\* cancel_gate_out
Cancel(p, g) ==
    /\ Loaded(p, g)
    /\ Copy(p).gone = 0
    /\ MayBecome(Copy(p), "CANCELLED") /\ Saves(Copy(p))
    /\ doc' = [doc EXCEPT ![g].reqs = Supersede(@, Open), ![g].status = "CANCELLED"]
    /\ Commit(p, g)
    /\ UNCHANGED <<late, stock, left, vetted, leftAs>>

\* is_releasable: an approval that has run out releases nothing.
IsReleasable(t) ==
    /\ t.copy.status \in Releasable
    /\ ~(t.copy.status = "APPROVED" /\ t.copy.deadline /\ t.late)

\* The released quantity: the outstanding one as read, or less (a short load).
LoadsOf(c) == 0 .. (Requested - c.gone)

\* InsufficientStock, under the lock of the balance row.
InStock(q) == q <= stock

\* released_qty afterwards: `line.released_qty += quantity`, on the copy.
\* F: this load alone.
TotalOfThisLoad(c, q) == q
Total(c, q) == c.gone + q

\* release_gate_out and _release_line: the movement is checked against the balance under
\* its lock; released_qty is written from the copy.
Release(p, g) ==
    /\ Loaded(p, g)
    /\ IsReleasable(txn[p]) /\ Saves(Copy(p))
    /\ \E q \in LoadsOf(Copy(p)) :
          LET total  == Total(Copy(p), q)
              status == IF total >= Requested THEN "RELEASED" ELSE "PARTIALLY_RELEASED"
          IN  /\ InStock(q)
              /\ MayBecome(Copy(p), status)
              /\ stock' = stock - q
              /\ left' = [left EXCEPT ![g] = @ + q]
              /\ leftAs' = [leftAs EXCEPT ![g] = IF q = 0 THEN @ ELSE @ \cup {Copy(p).head}]
              /\ doc' = [doc EXCEPT ![g].status = status,
                                    ![g].gone = IF q = 0 THEN @ ELSE total]
    /\ Commit(p, g)
    /\ UNCHANGED <<late, vetted>>

\* close_gate_out
Close(p, g) ==
    /\ Loaded(p, g)
    /\ MayBecome(Copy(p), "CLOSED") /\ Saves(Copy(p))
    /\ doc' = [doc EXCEPT ![g].status = "CLOSED"]
    /\ Commit(p, g)
    /\ UNCHANGED <<late, stock, left, vetted, leftAs>>

\* GateOutSerializer.update, a PATCH of the header in any status: every column of the
\* row is saved, and the pass may be given another job.
Edit(p, g) ==
    /\ Loaded(p, g)
    /\ doc[g].head < MaxEdits
    /\ \E otherJob \in BOOLEAN :
          /\ otherJob \/ Saves(Copy(p))
          /\ doc' = [doc EXCEPT ![g].head = @ + 1,
                                ![g].status = Copy(p).status,
                                ![g].deadline = Copy(p).deadline,
                                ![g].settled = @ /\ ~otherJob]
    /\ Commit(p, g)
    /\ UNCHANGED <<late, stock, left, vetted, leftAs>>

-----------------------------------------------------------------------------
(* The sweep and the world around.                                         *)

\* The approved passes whose window is over.
Stale == {g \in Passes : doc[g].status = "APPROVED" /\ doc[g].deadline /\ late[g]}

\* expire_stale_passes, the query.
SweepLoad ==
    /\ sweep = {} /\ Stale # {}
    /\ sweep' = Stale
    /\ UNCHANGED <<doc, late, stock, txn, unanswered, left, vetted, leftAs, overtaken>>

\* The loop: a pass whose save is refused raises, and ends it.  The passes before it
\* stay expired, the ones after it are not reached.
\* F: none is expired.
ReachedNone(stale) == {}
Reached(stale) ==
    {g \in stale : \A k, m \in DOMAIN Newest :
        (Newest[k] = g /\ m <= k /\ Newest[m] \in stale) => ~doc[Newest[m]].settled}

Sweep ==
    /\ sweep # {}
    /\ LET done == Reached(sweep)
       IN  /\ doc' = [g \in Passes |-> IF g \in done THEN [doc[g] EXCEPT !.status = "EXPIRED"]
                                                     ELSE doc[g]]
           /\ overtaken' = [g \in Passes |->
                overtaken[g] \/ (g \in done /\ g \notin Stale)]
    /\ sweep' = {}
    /\ UNCHANGED <<late, stock, txn, unanswered, left, vetted, leftAs>>

\* escalate_overdue_approvals, the query: pending requests nobody answered in time.
\* Those that ask a person rather than a role are never due.
EscalateLoad(g) ==
    /\ unanswered[g] = {}
    /\ \E due \in SUBSET {k \in DOMAIN doc[g].reqs : doc[g].reqs[k].status = "PENDING"} :
          /\ due # {}
          /\ unanswered' = [unanswered EXCEPT ![g] = due]
    /\ UNCHANGED <<doc, late, stock, txn, sweep, left, vetted, leftAs, overtaken>>

\* The loop saves each as ESCALATED, whatever has become of it since.
Escalate(g) ==
    /\ unanswered[g] # {}
    /\ doc' = [doc EXCEPT ![g].reqs =
          [k \in DOMAIN doc[g].reqs |-> IF k \in unanswered[g]
                                        THEN [doc[g].reqs[k] EXCEPT !.status = "ESCALATED"]
                                        ELSE doc[g].reqs[k]]]
    /\ unanswered' = [unanswered EXCEPT ![g] = {}]
    /\ overtaken' = [overtaken EXCEPT ![g] =
          @ \/ \E k \in unanswered[g] : doc[g].reqs[k].status # "PENDING"]
    /\ UNCHANGED <<late, stock, txn, sweep, left, vetted, leftAs>>

\* The window of an approval ends.
TimePasses(g) ==
    /\ doc[g].deadline /\ ~late[g]
    /\ late' = [late EXCEPT ![g] = TRUE]
    /\ UNCHANGED <<doc, stock, txn, sweeps, left, vetted, leftAs, overtaken>>

\* jobs.close_job does not look at the passes that name the job.
JobCloses(g) ==
    /\ ~doc[g].settled
    /\ doc' = [doc EXCEPT ![g].settled = TRUE]
    /\ UNCHANGED <<late, stock, txn, sweeps, left, vetted, leftAs, overtaken>>

Handler(p, g) ==
    \/ Submit(p, g) \/ Approve(p, g) \/ Reject(p, g) \/ Amend(p, g)
    \/ Cancel(p, g) \/ Release(p, g) \/ Close(p, g) \/ Edit(p, g)

Next ==
    \/ \E p \in Procs : \/ Load(p) \/ Abandon(p)
                        \/ \E g \in Passes : Handler(p, g)
    \/ \E g \in Passes : EscalateLoad(g) \/ Escalate(g) \/ TimePasses(g) \/ JobCloses(g)
    \/ SweepLoad \/ Sweep

Spec == Init /\ [][Next]_vars

\* The sweep is scheduled (Celery beat), so it keeps running while there is something
\* to expire.  Nothing else is sure to happen.
FairSpec == Spec /\ WF_vars(SweepLoad) /\ WF_vars(Sweep)

-----------------------------------------------------------------------------
(* Properties.                                                             *)

\* F7: "a line can be released short, never over" -- as long as no handler works on
\* an out-of-date copy, and then what the line says is what left.
NeverOver == \A g \in Passes : left[g] <= Requested
NeverOverUnlessOvertaken ==
    \A g \in Passes : ~overtaken[g] => left[g] <= Requested /\ doc[g].gone = left[g]

\* A pass waits for approval exactly while there is somebody to ask: a PENDING request
\* belongs to a pass in PENDING_APPROVAL, and such a pass always has an open request
\* (amend_gate_out recalls a pass that "sat in pending approval for ever").
WaitsForSomebody ==
    \A g \in Passes : ~overtaken[g] =>
        /\ \A k \in DOMAIN doc[g].reqs :
              doc[g].reqs[k].status = "PENDING" => doc[g].status = "PENDING_APPROVAL"
        /\ doc[g].status = "PENDING_APPROVAL" => OpenOf(doc[g].reqs) # {}

LastRound(reqs) == {k \in DOMAIN reqs : reqs[k].round = Round(reqs)}

\* Material leaves only when every level of the pass's current routing has approved it,
\* over any number of rejections, amendments, expiries and resubmissions (G1, F3, F6).
LeavesApproved ==
    [][\A g \in Passes : left'[g] # left[g] /\ ~overtaken'[g] =>
          /\ LastRound(doc[g].reqs) # {}
          /\ \A k \in LastRound(doc[g].reqs) : doc[g].reqs[k].status = "APPROVED"]_vars

\* The status moves along ALLOWED_TRANSITIONS only.  An amended pass may move through
\* PENDING_APPROVAL within one transaction.
FollowsTheMap ==
    [][\A g \in Passes :
          LET s == doc[g].status
              t == doc'[g].status
          IN  ~overtaken'[g] /\ s # t =>
                \/ t \in AllowedTransitions[s]
                \/ /\ "PENDING_APPROVAL" \in AllowedTransitions[s]
                   /\ t = "APPROVED" ]_vars

\* Material leaves under the header that was approved: editing an approved pass
\* "voids the approval and routes again" (dispatch/views.py).
LeavesAsVetted == \A g \in Passes : leftAs[g] \subseteq vetted[g]

\* Q3: an approval that is not used within its window does not stay usable: the sweep
\* expires it, or the pass is of a job that has been settled (which blocks the write),
\* or a newer pass of such a job stands before it in the sweep.
ExpiresUnlessBlocked ==
    \A g \in Passes :
        g \in Stale
            ~> (g \notin Stale \/ \E h \in Passes : doc[h].settled)

\* Q3 as it is documented: "an approved pass not released within the window expires".
Expires ==
    \A g \in Passes :
        g \in Stale
            ~> g \notin Stale
=============================================================================
