------------------------------ MODULE Custody ------------------------------
(***************************************************************************)
(* Who owes material back, and the chase (custody, jobs): a release or a   *)
(* closeout writes an expectation, a handover moves it to another person,  *)
(* the nightly sweep marks the late ones and reminds one stage at a time,  *)
(* and the guards of close_job and deactivate_user read what is left.      *)
(*                                                                         *)
(* A request whose answer depends on what it has read is two steps (the    *)
(* read, then the save); one that only writes is a single step.  A sweep   *)
(* is one transaction (TenantTask), so what it wrote appears at its commit *)
(* and the rows it has marked stay locked till then.  Its notifications go *)
(* out one by one AFTER the commit (transaction.on_commit): a worker that  *)
(* dies in between has stamped a stage nobody heard of.                    *)
(*                                                                         *)
(* Faulty variants of an operator (used by no action) stand just before it *)
(* and are marked F.                                                       *)
(***************************************************************************)
EXTENDS Integers, Sequences, FiniteSets, SequencesExt

CONSTANTS
    People,         \* who may hold material
    Owner,          \* of the tenant: told of everything late
    Jobs, Assignee, \* each job and who works on it
    Closeouts,      \* each: its job, the units gone for good, and those to come back
    Workers,        \* Celery workers that may run a sweep
    Procs,          \* web workers
    EscalateAfter,  \* days late before the second stage; twice that, the third
    Opening,        \* what each person holds to begin with
    Bounds          \* how many requests, days, crashes and units a behaviour has

Stages == <<"holder", "supervisor", "owner">>
NoDate == 0         \* an expectation without a return date
Idle == << >>       \* a worker with nothing to do

ASSUME CustodyAssumption ==
    /\ Assignee \in [Jobs -> People]
    /\ \A c \in Closeouts : c.job \in Jobs /\ c.gone \in Nat /\ c.back \in 0 .. 1
    /\ EscalateAfter \in Nat \ {0}
    /\ Opening \in [People -> Nat]

VARIABLES
    today,
    holds,      \* the balance of each person's PERSON node, one kind of item
    owed,       \* the expectations, in the order they were made
    job,        \* of each job: its status, and closed_with_variance
    submitted,  \* the closeouts that are
    active,     \* the people who have an account
    req,        \* of each web worker: the request it is in
    sweep,      \* of each Celery worker: the sweep it is in
    told,       \* <<e, who>>: who has had a message about expectation e
    rung,       \* of each expectation: the stages announced, in order
    crossed,    \* history: two sweeps ran at once
    left        \* what remains of the bounds

vars == <<today, holds, owed, job, submitted, active, req, sweep, told, rung, crossed, left>>
books == <<holds, owed>>
chase == <<sweep, told, rung, crossed>>

Init ==
    /\ today = 1
    /\ holds = Opening
    /\ owed = << >>
    /\ job = [j \in Jobs |-> [status |-> "OPEN", flagged |-> FALSE]]
    /\ submitted = {}
    /\ active = People
    /\ req = [p \in Procs |-> Idle]
    /\ sweep = [w \in Workers |-> Idle]
    /\ told = {} /\ rung = << >> /\ crossed = FALSE
    /\ left \in Bounds

Spend(what) == left[what] > 0 /\ left' = [left EXCEPT ![what] = @ - 1]

-----------------------------------------------------------------------------
(* Expectations.                                                           *)

IsOpen(e) == owed[e].status \in {"OPEN", "OVERDUE"}

\* F: an expectation that is late already does not count.
StillOpenOf(h) == {e \in DOMAIN owed : owed[e].holder = h /\ owed[e].status = "OPEN"}
\* outstanding_for_job: all the assignee owes, whichever job it went out on.
OutstandingOf(h) == {e \in DOMAIN owed : owed[e].holder = h /\ IsOpen(e)}

Expectation(h, due) == [holder |-> h, due |-> due, status |-> "OPEN", reminded |-> {}]

\* Somebody now has more than a request in flight has seen.
Overtake(h) ==
    [p \in Procs |-> IF req[p] # Idle /\ req[p].who = h
                     THEN [req[p] EXCEPT !.overtaken = TRUE] ELSE req[p]]

\* The rows a sweep has marked stay locked until it ends.
Locked == UNION {IF sweep[w] = Idle THEN {} ELSE sweep[w].marked : w \in Workers}

-----------------------------------------------------------------------------
(* What changes hands.                                                     *)

\* release_gate_out, one line: the unit goes to the custody holder's node, and a
\* returnable line starts an expectation.  Nobody asks whether the holder is active.
ReleaseLine(h) ==
    /\ Spend("units")
    /\ \E returnable \in BOOLEAN : \E due \in {NoDate, today} :
          /\ (~returnable) => due = NoDate
          /\ owed' = IF returnable THEN Append(owed, Expectation(h, due)) ELSE owed
          /\ rung' = IF returnable THEN Append(rung, << >>) ELSE rung
    /\ holds' = [holds EXCEPT ![h] = @ + 1]
    /\ req' = Overtake(h)
    /\ UNCHANGED <<today, job, submitted, active, sweep, told, crossed>>

\* Every open expectation of the giver, however little is handed over: only the holder
\* is written, the reminders already given stay on it.
MoveExpectations(from, to) ==
    [e \in DOMAIN owed |-> IF e \in OutstandingOf(from) THEN [owed[e] EXCEPT !.holder = to]
                                                        ELSE owed[e]]

\* acknowledge_transfer: only the receiver can, so an active person.
Handover(from, to) ==
    /\ from # to /\ to \in active
    /\ OutstandingOf(from) \cap Locked = {}
    /\ Spend("requests")
    /\ \E qty \in 1 .. holds[from] :
          holds' = [holds EXCEPT ![from] = @ - qty, ![to] = @ + qty]
    /\ owed' = MoveExpectations(from, to)
    /\ req' = Overtake(to)
    /\ UNCHANGED <<today, job, submitted, active, chase>>

\* post_gate_in of a RETURN_FROM_SITE: the units leave the holder's node.  Nothing calls
\* match_return, so no expectation changes.
Return(h) ==
    /\ Spend("requests")
    /\ \E qty \in 1 .. holds[h] : holds' = [holds EXCEPT ![h] = @ - qty]
    /\ UNCHANGED <<today, owed, job, submitted, active, req, chase>>

-----------------------------------------------------------------------------
(* Closing out, closing, leaving.                                          *)

Start(p, op, about, who, seen) ==
    /\ req[p] = Idle
    /\ Spend("requests")
    /\ req' = [req EXCEPT ![p] = [op |-> op, about |-> about, who |-> who, job |-> seen,
                                  overtaken |-> FALSE]]
    /\ UNCHANGED <<today, books, job, submitted, active, chase>>

\* The request is over, and nothing of it remains.
End(p) == [req EXCEPT ![p] = Idle]
Fail(p) ==
    /\ req[p] # Idle
    /\ req' = End(p)
    /\ UNCHANGED <<today, books, job, submitted, active, chase, left>>

\* get_object() and submitted_at, of the closeout and its job as they are now.
StartCloseout(p) ==
    \E c \in Closeouts \ submitted :
       Start(p, "CLOSEOUT", c, Assignee[c.job], job[c.job].status)

\* submit_closeout: what is gone leaves the assignee's node, or the ledger refuses it;
\* what comes back is expected today.  A job that had another status is set to
\* AWAITING_CLOSEOUT, a closed one too.
SubmitCloseout(p) ==
    /\ req[p] # Idle /\ req[p].op = "CLOSEOUT"
    /\ LET c == req[p].about
           h == Assignee[c.job]
           new == [k \in 1 .. c.back |-> Expectation(h, today)]
       IN  /\ holds[h] >= c.gone
           /\ holds' = [holds EXCEPT ![h] = @ - c.gone]
           /\ owed' = owed \o new
           /\ rung' = rung \o [k \in 1 .. c.back |-> << >>]
           /\ submitted' = submitted \cup {c}
           /\ job' = IF req[p].job = "AWAITING_CLOSEOUT" THEN job
                     ELSE [job EXCEPT ![c.job].status = "AWAITING_CLOSEOUT"]
           /\ req' = [q \in Procs |-> IF q = p THEN Idle
                                      ELSE IF c.back > 0 THEN Overtake(h)[q] ELSE req[q]]
    /\ UNCHANGED <<today, active, sweep, told, crossed, left>>

\* close_job reads what is outstanding, without a lock and whatever the job's status.
\* Only somebody who may override goes on when something is.
StartClose(p) ==
    \E j \in Jobs : \E override \in BOOLEAN :
       LET outstanding == OutstandingOf(Assignee[j])
       IN  /\ outstanding = {} \/ override
           /\ Start(p, "CLOSE", j, Assignee[j], IF outstanding = {} THEN "CLEAN" ELSE "VARIANCE")

Close(p) ==
    /\ req[p] # Idle /\ req[p].op = "CLOSE"
    /\ job' = [job EXCEPT ![req[p].about] =
                [status |-> "CLOSED", flagged |-> req[p].job = "VARIANCE"]]
    /\ req' = End(p)
    /\ UNCHANGED <<today, books, submitted, active, chase, left>>

\* F: whoever is asked for may go.
AnybodyMayLeave(h) == TRUE
\* assert_can_deactivate: nothing on the person's node.  What they owe is not asked.
MayLeave(h) == holds[h] = 0

StartDeactivate(p) ==
    \E h \in active :
       MayLeave(h) /\ Start(p, "DEACTIVATE", h, h, "CLEAN")

Deactivate(p) ==
    /\ req[p] # Idle /\ req[p].op = "DEACTIVATE"
    /\ active' = active \ {req[p].about}
    /\ req' = End(p)
    /\ UNCHANGED <<today, books, job, submitted, chase, left>>

Reactivate(h) ==
    /\ h \notin active
    /\ Spend("requests")
    /\ active' = active \cup {h}
    /\ UNCHANGED <<today, books, job, submitted, req, chase>>

-----------------------------------------------------------------------------
(* The sweep.                                                              *)

NewDay ==
    /\ Spend("days")
    /\ today' = today + 1
    /\ UNCHANGED <<books, job, submitted, active, req, chase>>

\* F: only what was due yesterday.
LateSinceYesterday == {e \in DOMAIN owed : owed[e].status = "OPEN" /\ owed[e].due # NoDate
                                           /\ owed[e].due + 1 = today}
\* mark_overdue: a null date compares to nothing, so it is never late.
Late == {e \in DOMAIN owed : owed[e].status = "OPEN" /\ owed[e].due # NoDate
                             /\ owed[e].due < today}

\* The stage an overdue expectation has reached, or none: the first that is not stamped,
\* once it is late enough for it.  A later stage never overtakes an earlier one.
\* F: the stages already stamped are not looked at.
DueStageAgain(x) == IF today - x.due >= EscalateAfter THEN "supervisor" ELSE "holder"
DueStage(x) ==
    IF "holder" \notin x.reminded THEN "holder"
    ELSE IF "supervisor" \notin x.reminded /\ today - x.due >= EscalateAfter THEN "supervisor"
    ELSE IF "owner" \notin x.reminded /\ today - x.due >= 2 * EscalateAfter THEN "owner"
    ELSE "none"

\* mark_overdue, and the query of escalate_overdue: rows that another sweep has marked
\* are locked, and this one waits for them.
SweepLoad(w) ==
    /\ sweep[w] = Idle
    /\ Late \cap Locked = {}
    /\ LET overdue == {e \in DOMAIN owed : owed[e].status = "OVERDUE"} \cup Late
           ring == {<<e, DueStage(owed[e])>> : e \in overdue}
           todo == {r \in ring : r[2] # "none"}
       IN  /\ todo # {} \/ Late # {}
           /\ sweep' = [sweep EXCEPT ![w] =
                 [marked |-> Late, todo |-> todo, committed |-> FALSE]]
    /\ crossed' = (crossed \/ \E v \in Workers : sweep[v] # Idle /\ ~sweep[v].committed)
    /\ UNCHANGED <<today, books, job, submitted, active, req, told, rung, left>>

\* The transaction of the task commits: the marks and the stamps, one column each.
SweepCommit(w) ==
    /\ sweep[w] # Idle /\ ~sweep[w].committed
    /\ owed' = [e \in DOMAIN owed |->
          [owed[e] EXCEPT
             !.status = IF e \in sweep[w].marked THEN "OVERDUE" ELSE @,
             !.reminded = @ \cup {s \in ToSet(Stages) : <<e, s>> \in sweep[w].todo}]]
    /\ rung' = [e \in DOMAIN rung |->
          rung[e] \o SetToSeq({s \in ToSet(Stages) : <<e, s>> \in sweep[w].todo})]
    /\ sweep' = [sweep EXCEPT ![w] =
          IF @.todo = {} THEN Idle ELSE [@ EXCEPT !.committed = TRUE, !.marked = {}]]
    /\ UNCHANGED <<today, holds, job, submitted, active, req, told, crossed, left>>

\* dispatch_event, in the order the events were made: it reads the expectation as it is
\* now, and the matrix knows no stages, so the holder of the day (if they have an
\* account), the storekeepers and the owner are told each time.
Dispatch(w) ==
    /\ sweep[w] # Idle /\ sweep[w].committed
    /\ \E m \in sweep[w].todo :
          /\ \A n \in sweep[w].todo : m[1] <= n[1]
          /\ told' = told \cup {<<m[1], who>> : who \in (active \cap {owed[m[1]].holder}) \cup {Owner}}
          /\ LET rest == sweep[w].todo \ {m} IN
                sweep' = [sweep EXCEPT ![w] =
                    IF rest = {} THEN Idle ELSE [@ EXCEPT !.todo = rest]]
    /\ UNCHANGED <<today, books, job, submitted, active, req, rung, crossed, left>>

\* The worker dies.  Before its commit nothing has happened; after it, the messages that
\* had not gone out never will: nothing looks for events without deliveries.
WorkerDies(w) ==
    /\ sweep[w] # Idle
    /\ Spend("crashes")
    /\ sweep' = [sweep EXCEPT ![w] = Idle]
    /\ UNCHANGED <<today, books, job, submitted, active, req, told, rung, crossed>>

-----------------------------------------------------------------------------

Request(p) ==
    \/ StartCloseout(p) \/ SubmitCloseout(p) \/ StartClose(p) \/ Close(p)
    \/ StartDeactivate(p) \/ Deactivate(p) \/ Fail(p)

Next ==
    \/ \E h \in People : ReleaseLine(h) \/ Return(h) \/ Reactivate(h)
    \/ \E h, k \in People : Handover(h, k)
    \/ \E p \in Procs : Request(p)
    \/ NewDay
    \/ \E w \in Workers : SweepLoad(w) \/ SweepCommit(w) \/ Dispatch(w) \/ WorkerDies(w)

Spec == Init /\ [][Next]_vars

\* Beat starts a sweep every morning and a worker that does not die finishes it; days go
\* by.  Nobody is sure to return, hand over or close anything.
FairSpec ==
    /\ Spec
    /\ WF_vars(NewDay)
    /\ \A w \in Workers : WF_vars(SweepLoad(w)) /\ WF_vars(SweepCommit(w)) /\ WF_vars(Dispatch(w))

-----------------------------------------------------------------------------
(* Properties.                                                             *)

\* What a person owes: no expectation is ever settled.
Owes(h) == {e \in DOMAIN owed : owed[e].holder = h}
PastItsDate(e) == e \in DOMAIN owed /\ owed[e].due # NoDate /\ owed[e].due < today

\* H5: a job is closed as fully reconciled only when its assignee owes nothing, unless
\* an expectation reached them between the read and the save of close_job.
CleanCloseUnlessOvertaken ==
    [][\A p \in Procs :
          (Close(p) /\ req[p].job = "CLEAN")
             => Owes(req[p].who) = {} \/ req[p].overtaken]_vars

\* B3: nobody leaves with material in their name, unless it reached them between
\* assert_can_deactivate and the save of deactivate_user.
LeaverHeldNothingUnlessOvertaken ==
    [][\A h \in active \ active' :
          holds[h] = 0 \/ \E p \in Procs : /\ req[p] # Idle /\ req[p].op = "DEACTIVATE"
                                        /\ req[p].who = h /\ req[p].overtaken]_vars

\* I3: each stage of the chase fires once and in its turn, through handovers and workers
\* that die, unless two sweeps of the tenant ran at once.
StagesInTurn == crossed \/ \A e \in DOMAIN rung : IsPrefix(rung[e], Stages)

\* The third stage comes within the days that are modelled.
InTime(e) == owed[e].due + 2 * EscalateAfter <= today + left.days

\* I3: whatever is past its date is brought to the owner's attention: three stages
\* outlive two workers that die between a stamp and its message.
OwnerHearsOfIt ==
    \A e \in 1 .. 3 :
       (PastItsDate(e) /\ InTime(e)) ~> (<<e, Owner>> \in told)

\* custody/services.py:258: an expectation follows the person who holds the material, so
\* the overdue chase goes to the right phone.
HolderIsChased ==
    \A e \in 1 .. 3 : \A h \in People :
       (PastItsDate(e) /\ e \in Owes(h))
          ~> (<<e, h>> \in told \/ e \notin Owes(h) \/ h \notin active)

\* custody/views.py:69: an expectation is closed by a receipt.  Nobody owes more than
\* they hold.
OwesWhatIsHeld == \A h \in People : Cardinality(Owes(h)) <= holds[h]
=============================================================================
