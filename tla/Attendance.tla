----------------------------- MODULE Attendance -----------------------------
(***************************************************************************)
(* Clocking in and out (attendance/): one person's sessions, the hourly    *)
(* sweep that closes forgotten ones and sends past days to the managers of *)
(* their projects, the answers, and the corrections of a rejected day.     *)
(*                                                                         *)
(* Two locks meet here and neither covers the other.  Clocking, and a day  *)
(* added by the Director, hold the person; routing, answering and          *)
(* correcting hold the day.  A transaction that checks what the other kind *)
(* writes is two steps: what it reads, then its commit.  Routing and       *)
(* correcting also save every column of sessions they have read without a  *)
(* lock.  At its commit a transaction must also share the person, or the   *)
(* day, that a new row of its points at (the foreign keys are deferred),   *)
(* so each kind may wait for the other, and both for each other.           *)
(*                                                                         *)
(* One run of the sweep is one transaction for its tenant, with savepoints *)
(* around closing and forming: the days it has formed stay locked to its   *)
(* end, and an error in one undoes those of the run.  Here each day, and   *)
(* the closing, commits by itself, and the waiting of one person for the   *)
(* days of another is left out.                                            *)
(*                                                                         *)
(* Time counts in hours of a short day, and a behaviour has two days, and  *)
(* one person: no rule relates the sessions of two.  A capture's client    *)
(* uuid is the moment it was made.  Positions, areas, escalation and who   *)
(* may not answer for themselves are left out.                             *)
(*                                                                         *)
(* Faulty variants of an operator (used by no action) stand just before it *)
(* and are marked F.                                                       *)
(***************************************************************************)
EXTENDS Integers, Sequences, FiniteSets, SequencesExt, TLC

CONSTANTS
    Projects,       \* at whose sites one clocks in
    Managers,       \* who may manage one
    Director,       \* asked where there is no manager; Nobody if no Director may be
    NoProject, Nobody,
    FirstManager,   \* of each project, to begin with
    DayLength,      \* hours
    CloseHour,      \* clock_auto_close_hour
    Horizon,        \* the last moment of a behaviour
    MaxAge,         \* how long a clock-in may be on its way
    Window,         \* how long a rejection may be corrected
    Bounds          \* how many sessions, corrections and the like a behaviour has

Days == {0, 1}
NoTime == -1
Idle == << >>

ASSUME AttendanceAssumption ==
    /\ DayLength \in Nat \ {0} /\ CloseHour \in 0 .. DayLength - 1
    /\ Horizon \in DayLength .. 2 * DayLength - 1 /\ MaxAge \in Nat /\ Window \in Nat
    /\ FirstManager \in [Projects -> Managers \cup {Nobody}]
    /\ NoProject \notin Projects /\ {Director, Nobody} \cap Managers = {}

VARIABLES
    now,
    sessions,   \* WorkSession, in the order they were made, with their corrections
    requests,   \* ApprovalRequest, one per slice
    day,        \* WorkDay.status, or NONE while there is no row
    manager,    \* of each project
    clock,      \* the transaction that holds the person
    desk,       \* of each day, the transaction that holds it
    left        \* what remains of the bounds

attendanceVars == <<now, sessions, requests, day, manager, clock, desk, left>>

AttendanceInit ==
    /\ now = 0
    /\ sessions = << >> /\ requests = << >>
    /\ day = [d \in Days |-> "NONE"]
    /\ manager = FirstManager
    /\ clock = Idle /\ desk = [d \in Days |-> Idle]
    /\ left \in Bounds

Spend(what) == left[what] > 0 /\ left' = [left EXCEPT ![what] = @ - 1]

-----------------------------------------------------------------------------
(* Times.                                                                  *)

DayOf(t) == t \div DayLength
HoursOf(d) == d * DayLength .. (d + 1) * DayLength - 1

\* A session as clock_in, correct_session and add_day make it.  blind: history, the
\* sessions it was not, or could not be, compared with.
Session(start, end, by, captured, project, blind) ==
    [in |-> start, out |-> end, by |-> by, captured |-> captured, project |-> project,
     req |-> 0, fixIn |-> NoTime, fixOut |-> NoTime, blind |-> blind]

IsOpen(s) == s.out = NoTime
Edited(s) == s.fixIn # NoTime \/ s.fixOut # NoTime
OnDay(d) == {k \in DOMAIN sessions : DayOf(sessions[k].in) = d}

\* effective_times: the latest correction of each end, else what was recorded.
EffIn(s) == IF s.fixIn # NoTime THEN s.fixIn ELSE s.in
EffOut(s) == IF s.fixOut # NoTime THEN s.fixOut ELSE s.out

\* cutoff_for: the closing hour of the day it began, or midnight.
Cutoff(s) ==
    LET hour == DayOf(s.in) * DayLength + CloseHour
    IN  IF s.in < hour THEN hour ELSE (DayOf(s.in) + 1) * DayLength

\* _clock_in_locked: nothing of the person's ends after a new session begins.  It looks
\* at the recorded times, not at the corrected ones.
\* F: what has ended is not looked at.
AdmitsOpen(at) == \A k \in DOMAIN sessions : IsOpen(sessions[k]) => sessions[k].in <= at
Admits(at) ==
    \A k \in DOMAIN sessions :
       IF IsOpen(sessions[k]) THEN sessions[k].in <= at ELSE sessions[k].out <= at

\* _check_span: against the effective times of the sessions of that day and its neighbours,
\* which are all there are.
SpanFree(start, end, but) ==
    \A k \in DOMAIN sessions \ but :
       LET s == sessions[k]
       IN  IF EffOut(s) = NoTime THEN end <= EffIn(s)
                                 ELSE start >= EffOut(s) \/ end <= EffIn(s)

-----------------------------------------------------------------------------
(* Slices.                                                                 *)

Waiting(r) == requests[r].status = "PENDING"
Decided(r) == r # 0 /\ ~Waiting(r)
Request(d, to) == [day |-> d, to |-> to, status |-> "PENDING", at |-> NoTime]

\* addressee_of: the manager of the project; the Director where there is none.
Addressee(s) ==
    IF s.project = NoProject \/ manager[s.project] = Nobody THEN Director ELSE manager[s.project]

\* refresh_status, of a day with these sessions and requests.
\* F: one rejection is enough.
ProjectedAtOnce(ss, rs, d) ==
    LET said == {rs[ss[k].req].status : k \in {k \in DOMAIN ss : DayOf(ss[k].in) = d /\ ss[k].req # 0}}
    IN  IF "REJECTED" \in said THEN "REJECTED"
        ELSE IF said = {"APPROVED"} THEN "APPROVED" ELSE "PENDING"
Projected(ss, rs, d) ==
    LET of == {ss[k].req : k \in {k \in DOMAIN ss : DayOf(ss[k].in) = d}}
        said == {rs[r].status : r \in of \ {0}}
    IN  IF "PENDING" \in said \/ 0 \in of THEN "PENDING"
        ELSE IF "REJECTED" \in said THEN "REJECTED" ELSE "APPROVED"
Refresh(d) == day' = [day EXCEPT ![d] = Projected(sessions', requests', d)]

\* route_day, with the copies it has read (whom each is for, its end and who closed it):
\* one request per addressee, an open one of theirs taken over; all columns are saved.
OpenFor(rs, d, to) == {r \in DOMAIN rs : rs[r].day = d /\ rs[r].to = to /\ rs[r].status = "PENDING"}
Unasked(d, copies) == {to \in {copies[k].to : k \in DOMAIN copies} : OpenFor(requests, d, to) = {}}
Slices(d, copies) ==
    LET new == SetToSeq(Unasked(d, copies))
    IN  requests \o [i \in DOMAIN new |-> Request(d, new[i])]
\* The end a session had when it was read is put back.
PutBack(s, copy) ==
    [s EXCEPT !.out = copy.out, !.by = copy.by,
              !.blind = IF copy.out = s.out THEN @ ELSE 1 .. Len(sessions)]
Saved(ss, rs, d, copies) ==
    [k \in DOMAIN ss |->
        IF k \in DOMAIN copies
        THEN [PutBack(ss[k], copies[k]) EXCEPT !.req = Min(OpenFor(rs, d, copies[k].to))]
        ELSE ss[k]]

\* Closed, on no request yet, and somebody can be asked.
ToRoute(ss, d) ==
    {k \in DOMAIN ss : /\ DayOf(ss[k].in) = d /\ ~IsOpen(ss[k]) /\ ss[k].req = 0
                       /\ Addressee(ss[k]) # Nobody}
Copies(ss, d) ==
    [k \in ToRoute(ss, d) |-> [out |-> ss[k].out, by |-> ss[k].by, to |-> Addressee(ss[k])]]

\* The row a clock-out holds, from find_session to its commit.
RowHeld == IF clock # Idle /\ clock.op = "OUT" THEN {clock.session} ELSE {}

-----------------------------------------------------------------------------
(* Clocking: the person is locked.                                         *)

\* clock_in, up to its checks; a known uuid returns its session and does nothing.  The
\* moment may be hours ago: a phone was out of reach.
ClockIn ==
    /\ clock = Idle
    /\ \E at \in 0 .. now : \E j \in Projects \cup {NoProject} :
          /\ at >= now - MaxAge
          /\ \A k \in DOMAIN sessions : ~(sessions[k].captured /\ sessions[k].in = at)
          /\ Admits(at)
          /\ clock' = [op |-> "IN", at |-> at, project |-> j]
    /\ Spend("sessions")
    /\ UNCHANGED <<now, sessions, requests, day, manager, desk>>

\* What is open is read again, under its lock, and closed at that moment; the overlap is
\* not looked at again.  The new row points at the day.
ClockInCommits ==
    /\ clock # Idle /\ clock.op = "IN"
    /\ desk[DayOf(clock.at)] = Idle
    /\ LET at == clock.at
           closed == [k \in DOMAIN sessions |->
                        IF IsOpen(sessions[k])
                        THEN [sessions[k] EXCEPT !.out = at, !.by = "NEXT_CLOCK_IN"]
                        ELSE sessions[k]]
           blind == IF Admits(at) THEN {k \in DOMAIN sessions : Edited(sessions[k])}
                                  ELSE DOMAIN sessions
       IN  /\ sessions' = Append(closed, Session(at, NoTime, "NONE", TRUE, clock.project, blind))
           /\ day' = [day EXCEPT ![DayOf(at)] = IF @ = "NONE" THEN "OPEN" ELSE @]
    /\ clock' = Idle
    /\ UNCHANGED <<now, requests, manager, desk, left>>

\* A close that was not the person's may be replaced by an earlier one of theirs.
\* F: whatever was answered.
ReplaceableAlways(s, at) == s.by \in {"AUTO", "NEXT_CLOCK_IN"} /\ at < s.out
Replaceable(s, at) == s.by \in {"AUTO", "NEXT_CLOCK_IN"} /\ at < s.out /\ ~Decided(s.req)

\* clock_out: of the open session, or of the one the phone names.  The answer its slice
\* has is looked at (by the guard of save, too) before the row is written.
ClockOut ==
    /\ clock = Idle
    /\ \E k \in DOMAIN sessions : \E at \in sessions[k].in .. now :
          /\ IsOpen(sessions[k]) \/ (sessions[k].captured /\ Replaceable(sessions[k], at))
          /\ clock' = [op |-> "OUT", session |-> k, at |-> at, overtaken |-> FALSE]
    /\ Spend("outs")
    /\ UNCHANGED <<now, sessions, requests, day, manager, desk>>

ClockOutCommits ==
    /\ clock # Idle /\ clock.op = "OUT"
    /\ sessions' = [sessions EXCEPT ![clock.session].out = clock.at, ![clock.session].by = "PERSON"]
    /\ clock' = Idle
    /\ UNCHANGED <<now, requests, day, manager, desk, left>>

\* add_day: the Director adds a session of a person who could not clock in.
AddDay ==
    /\ clock = Idle
    /\ \E d \in Days : \E start, end \in HoursOf(d) : \E j \in Projects \cup {NoProject} :
          /\ start <= end /\ end <= now
          /\ SpanFree(start, end, {})
          /\ clock' = [op |-> "ADD", day |-> d, start |-> start, end |-> end, project |-> j]
    /\ Spend("added")
    /\ UNCHANGED <<now, sessions, requests, day, manager, desk>>

\* It is routed at once, with the day's other sessions, once the day can be locked.
AddDayCommits ==
    /\ clock # Idle /\ clock.op = "ADD"
    /\ desk[clock.day] = Idle
    /\ LET d == clock.day
           blind == IF SpanFree(clock.start, clock.end, {}) THEN {} ELSE DOMAIN sessions
           with == Append(sessions, Session(clock.start, clock.end, "PERSON", FALSE,
                                            clock.project, blind))
       IN  /\ requests' = Slices(d, Copies(with, d))
           /\ sessions' = Saved(with, requests', d, Copies(with, d))
           /\ Refresh(d)
    /\ clock' = Idle
    /\ UNCHANGED <<now, manager, desk, left>>

-----------------------------------------------------------------------------
(* The hourly sweep.                                                       *)

\* close_stale_sessions: closed at the cutoff, however late the sweep.  A row that a
\* clock-out holds is waited for, and found closed.
CloseStale ==
    /\ \E k \in DOMAIN sessions \ RowHeld : IsOpen(sessions[k]) /\ Cutoff(sessions[k]) <= now
    /\ sessions' = [k \in DOMAIN sessions |->
          IF IsOpen(sessions[k]) /\ Cutoff(sessions[k]) <= now
          THEN [sessions[k] EXCEPT !.out = Cutoff(sessions[k]), !.by = "AUTO"]
          ELSE sessions[k]]
    /\ UNCHANGED <<now, requests, day, manager, clock, desk, left>>

\* F: a day that has been formed is not looked at again.
FormedOnce(d) ==
    d < DayOf(now) /\ day[d] = "OPEN" /\ \A k \in OnDay(d) : ~IsOpen(sessions[k])
\* form_days: a past day, nothing open on it, and something on no request yet.
Formable(d) ==
    /\ d < DayOf(now)
    /\ day[d] = "OPEN" \/ (day[d] # "NONE" /\ \E k \in OnDay(d) : sessions[k].req = 0)
    /\ \A k \in OnDay(d) : ~IsOpen(sessions[k])

\* form_days finds the day.  (A run that would ask nobody and change nothing is left out.)
FormDay(d) ==
    /\ desk[d] = Idle /\ Formable(d)
    /\ day[d] # "OPEN" => ToRoute(sessions, d) # {}
    /\ desk' = [desk EXCEPT ![d] = [op |-> "FORM"]]
    /\ UNCHANGED <<now, sessions, requests, day, manager, clock, left>>

\* route_day, the day locked, reads what there is to route now, unlocked, and for whom.
RouteReads(d) ==
    /\ desk[d] # Idle /\ desk[d].op = "FORM"
    /\ desk' = [desk EXCEPT ![d] = [op |-> "ROUTE", copies |-> Copies(sessions, d)]]
    /\ UNCHANGED <<now, sessions, requests, day, manager, clock, left>>

\* Whether the transaction at the desk makes a request, whose row points at the person.
NeedsPerson(d) ==
    /\ desk[d] # Idle
    /\ \/ desk[d].op \in {"EDIT", "ADD"}
       \/ desk[d].op = "ROUTE" /\ Unasked(d, desk[d].copies) # {}

FormDayCommits(d) ==
    /\ desk[d] # Idle /\ desk[d].op = "ROUTE"
    /\ NeedsPerson(d) => clock = Idle
    /\ LET copies == desk[d].copies
       IN  /\ DOMAIN copies \cap RowHeld = {}
           /\ requests' = Slices(d, copies)
           /\ sessions' = Saved(sessions, requests', d, copies)
           /\ Refresh(d)
    /\ desk' = [desk EXCEPT ![d] = Idle]
    /\ UNCHANGED <<now, manager, clock, left>>

-----------------------------------------------------------------------------
(* Answers and corrections: the day is locked.                             *)

\* decide: one answer to all the slices of the day addressed to whoever answers.
Decide(d, who) ==
    /\ desk[d] = Idle
    /\ LET mine == {r \in DOMAIN requests : /\ requests[r].day = d /\ requests[r].to = who
                                            /\ Waiting(r)}
       IN  /\ mine # {}
           /\ \E verdict \in {"APPROVED", "REJECTED"} :
                 requests' = [r \in DOMAIN requests |->
                    IF r \in mine THEN [requests[r] EXCEPT !.status = verdict, !.at = now]
                                  ELSE requests[r]]
           /\ clock' = IF \E k \in RowHeld : sessions[k].req \in mine
                       THEN [clock EXCEPT !.overtaken = TRUE] ELSE clock
    /\ sessions' = sessions
    /\ Refresh(d)
    /\ UNCHANGED <<now, manager, desk, left>>

\* What a correction of k may state: its own times (EDIT), which replace what was said
\* before, or those of another session (ADD); and the rows of the slice as they are read.
Statements(k, d) ==
    LET s == sessions[k]
        members == {l \in DOMAIN sessions : sessions[l].req = s.req}
        say(op, start, end, from, to) ==
           [op |-> op, session |-> k, start |-> start, end |-> end, from |-> from, to |-> to,
            copies |-> [l \in members |-> sessions[l]]]
        from(start) == IF start # NoTime THEN start ELSE EffIn(s)
        to(end) == IF end # NoTime THEN end ELSE EffOut(s)
    IN  {say("EDIT", t[1], t[2], from(t[1]), to(t[2])) :
            t \in (HoursOf(d) \cup {NoTime}) \X (HoursOf(d) \cup {NoTime}) \ {<<NoTime, NoTime>>}}
        \cup {say("ADD", t[1], t[2], t[1], t[2]) : t \in HoursOf(d) \X HoursOf(d)}
Except(c) == IF c.op = "EDIT" THEN {c.session} ELSE {}

\* correct_session, up to its checks.
Correct(d) ==
    /\ desk[d] = Idle
    /\ \E k \in OnDay(d) :
          LET old == sessions[k].req
          IN  /\ old # 0 /\ requests[old].status = "REJECTED"
              /\ now - requests[old].at <= Window
              /\ \E c \in Statements(k, d) :
                    /\ {c.from, c.to} \subseteq HoursOf(d) /\ c.from <= c.to
                    /\ SpanFree(c.from, c.to, Except(c))
                    /\ desk' = [desk EXCEPT ![d] = c]
    /\ Spend("corrections")
    /\ UNCHANGED <<now, sessions, requests, day, manager, clock>>

\* A new request to whom the old one was addressed, and all sessions of the old one on it,
\* with all their columns as they were read: at first, or only now.
CorrectCommits(d) ==
    /\ NeedsPerson(d) /\ desk[d].op # "ROUTE"
    /\ clock = Idle
    /\ LET c == desk[d]
           old == sessions[c.session].req
           new == Len(requests) + 1
           blind == IF SpanFree(c.from, c.to, Except(c)) THEN {} ELSE DOMAIN sessions
           moved(fresh) ==
              [k \in DOMAIN sessions |->
                 IF k \in DOMAIN c.copies
                 THEN [PutBack(sessions[k], IF fresh THEN sessions[k] ELSE c.copies[k]) EXCEPT !.req = new]
                 ELSE sessions[k]]
           edited(ss) ==
              [ss EXCEPT ![c.session].fixIn = IF c.start # NoTime THEN c.start ELSE @,
                         ![c.session].fixOut = IF c.end # NoTime THEN c.end ELSE @,
                         ![c.session].blind = @ \cup blind]
       IN  /\ requests' = Append(requests, Request(d, requests[old].to))
           /\ \E fresh \in BOOLEAN :
                \/ c.op = "EDIT" /\ sessions' = edited(moved(fresh))
                \/ /\ c.op = "ADD"
                   /\ \E j \in Projects \cup {NoProject} :
                         sessions' = Append(moved(fresh),
                            [Session(c.start, c.end, "PERSON", FALSE, j, blind) EXCEPT !.req = new])
           /\ Refresh(d)
    /\ desk' = [desk EXCEPT ![d] = Idle]
    /\ UNCHANGED <<now, manager, clock, left>>

\* A project changes hands: readdress_project_requests gives the new manager, if there is
\* one, every open slice of the old one that has a session of the project.
Reassign(j, m) ==
    /\ m # manager[j]
    /\ Spend("managers")
    /\ manager' = [manager EXCEPT ![j] = m]
    /\ requests' = [r \in DOMAIN requests |->
          IF /\ Waiting(r) /\ requests[r].to = manager[j] /\ m # Nobody
             /\ \E k \in DOMAIN sessions : sessions[k].req = r /\ sessions[k].project = j
          THEN [requests[r] EXCEPT !.to = m] ELSE requests[r]]
    /\ UNCHANGED <<now, sessions, day, clock, desk>>

-----------------------------------------------------------------------------

\* A worker dies, or a client goes away: nothing of its transaction remains.
ClockFails ==
    /\ clock # Idle
    /\ Spend("crashes")
    /\ clock' = Idle
    /\ UNCHANGED <<now, sessions, requests, day, manager, desk>>
DeskFails(d) ==
    /\ desk[d] # Idle
    /\ Spend("crashes")
    /\ desk' = [desk EXCEPT ![d] = Idle]
    /\ UNCHANGED <<now, sessions, requests, day, manager, clock>>

\* Each waits for what the other holds: the database ends one of them.
Deadlock(d) ==
    /\ clock # Idle /\ NeedsPerson(d)
    /\ \/ clock.op = "IN" /\ DayOf(clock.at) = d
       \/ clock.op = "ADD" /\ clock.day = d
    /\ \/ clock' = Idle /\ desk' = desk
       \/ clock' = clock /\ desk' = [desk EXCEPT ![d] = Idle]
    /\ UNCHANGED <<now, sessions, requests, day, manager, left>>

Hour ==
    /\ now < Horizon
    /\ now' = now + 1
    /\ UNCHANGED <<sessions, requests, day, manager, clock, desk, left>>

Clocking == ClockInCommits \/ ClockOutCommits \/ AddDayCommits

AttendanceNext ==
    \/ ClockIn \/ ClockOut \/ AddDay \/ Clocking \/ ClockFails
    \/ CloseStale
    \/ \E d \in Days :
          \/ FormDay(d) \/ RouteReads(d) \/ FormDayCommits(d)
          \/ Correct(d) \/ CorrectCommits(d) \/ DeskFails(d) \/ Deadlock(d)
          \/ \E who \in Managers \cup {Director} : Decide(d, who)
    \/ \E j \in Projects : \E m \in Managers \cup {Nobody} : Reassign(j, m)
    \/ Hour

AttendanceSpec == AttendanceInit /\ [][AttendanceNext]_attendanceVars

\* Beat runs the sweep every hour, a transaction ends, and hours pass.  Clocking in ends
\* even when it meets one sweep after another: it takes less than the hour between them.
\* Nobody is sure to clock, answer or correct.
FairAttendance ==
    /\ AttendanceSpec
    /\ WF_attendanceVars(Hour) /\ WF_attendanceVars(CloseStale) /\ SF_attendanceVars(Clocking)
    /\ \A d \in Days : /\ WF_attendanceVars(FormDay(d)) /\ WF_attendanceVars(RouteReads(d))
                       /\ WF_attendanceVars(FormDayCommits(d)) /\ WF_attendanceVars(CorrectCommits(d))
                       /\ WF_attendanceVars(Deadlock(d))

-----------------------------------------------------------------------------
(* Properties.                                                             *)

Apart(s, t) ==
    \/ EffOut(s) # NoTime /\ EffOut(s) <= EffIn(t)
    \/ EffOut(t) # NoTime /\ EffOut(t) <= EffIn(s)

\* No hour is worked twice: two sessions do not overlap, corrections counted, unless one
\* of them could not be compared with the other: the sweep closed it meanwhile, it had
\* been corrected before a clock-in, or it was added, corrected or put back by another
\* transaction at the same time (_clock_in_locked, _check_span).
NoHourTwiceUnlessBlind ==
    \A k, l \in DOMAIN sessions :
       k < l => \/ Apart(sessions[k], sessions[l])
                \/ k \in sessions[l].blind \/ l \in sessions[k].blind

\* A transaction at a desk is about to put back an end of k that is no longer its end.
ReadBefore(k) ==
    \E d \in Days :
       /\ desk[d] # Idle /\ desk[d].op # "FORM"
       /\ k \in DOMAIN desk[d].copies /\ desk[d].copies[k].out # sessions[k].out

\* The end a person gave, and any end that has been answered for, stays, unless a
\* transaction that read the session before puts an old one back, or the answer came while
\* the clock-out was on its way (_clock_out_locked, _guard_changes).
TimesStandUnlessCrossed ==
    [][\A k \in DOMAIN sessions :
          sessions[k].out # sessions'[k].out /\ (sessions[k].by = "PERSON" \/ Decided(sessions[k].req))
             => ReadBefore(k) \/ (clock # Idle /\ clock.op = "OUT" /\ clock.overtaken)]_attendanceVars

\* What a day says is what the slices of its sessions say, whatever is added, corrected or
\* answered in whatever order: approved only when all are, rejected only when none waits
\* (refresh_status).
DayTellsItsSlices ==
    \A d \in Days :
       LET routed == {sessions[k].req : k \in OnDay(d)} \ {0}
           waits == \E r \in routed : Waiting(r)
       IN  /\ day[d] = "PENDING" => waits \/ \E k \in OnDay(d) : sessions[k].req = 0
           /\ day[d] \in {"APPROVED", "REJECTED"} => routed # {} /\ ~waits
           /\ day[d] = "APPROVED" => \A r \in routed : requests[r].status = "APPROVED"
           /\ day[d] = "REJECTED" => \E r \in routed : requests[r].status = "REJECTED"

Past(k) == k \in DOMAIN sessions /\ DayOf(sessions[k].in) < DayOf(Horizon)
Asked(k) == k \in DOMAIN sessions /\ (sessions[k].req # 0 \/ Addressee(sessions[k]) = Nobody)

\* A session of a day that has gone by comes before somebody who can answer, if there is
\* such a person, however late it arrives and whatever fails meanwhile (form_days).
EveryHourIsAsked == \A k \in 1 .. 3 : Past(k) ~> Asked(k)
=============================================================================
