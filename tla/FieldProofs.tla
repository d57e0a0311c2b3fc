---------------------------- MODULE FieldProofs ----------------------------
(***************************************************************************)
(* What is captured in the field: the hours of a person, and the phone's   *)
(* queue.                                                                  *)
(*                                                                         *)
(* For any days, projects and managers, and any bounds: the status of a    *)
(* day is what its slices say, no hour is worked twice by sessions that    *)
(* saw each other, and an end that was given stands unless it is crossed.  *)
(*                                                                         *)
(* The queue keeps its promise, for every set of captures, any number of   *)
(* overlapping drains and any number of faults: what the server has        *)
(* answered once it answers for ever, the phone shows that answer, and     *)
(* nothing overtakes the supplier it names.                                *)
(***************************************************************************)
EXTENDS SyncQueue, Attendance, SequenceTheorems, FiniteSetTheorems, WellFoundedInduction, TLAPS

-----------------------------------------------------------------------------
(* What the rows look like.                                                *)

\* How a session ended, what an approver answers, hours, approvers and projects.
Bys == {"NONE", "PERSON", "AUTO", "NEXT_CLOCK_IN"}
Answers == {"PENDING", "APPROVED", "REJECTED"}
Times == Nat \cup {NoTime}
Anyone == Managers \cup {Director, Nobody}
Places == Projects \cup {NoProject}
SessionRow ==
    [in : Nat, out : Times, by : Bys, captured : BOOLEAN,
     project : Places, req : Nat, fixIn : Times, fixOut : Times, blind : SUBSET Nat]
RequestRow ==
    [day : Days, to : Anyone, status : Answers, at : Int]

\* The rows and whoever is addressed.
RowsTyped ==
    /\ now \in Nat
    /\ sessions \in Seq(SessionRow) /\ requests \in Seq(RequestRow)
    /\ DOMAIN day = Days /\ DOMAIN desk = Days
    /\ manager \in [Projects -> Managers \cup {Nobody}]

\* A session is open until it is closed, before anybody is asked about it.
OpenIsPlain ==
    \A k \in DOMAIN sessions :
       IsOpen(sessions[k]) => sessions[k].req = 0 /\ sessions[k].by # "PERSON"
\* A person has one open session (unique_open_session of attendance/models.py).
OneOpen == \A k, l \in DOMAIN sessions : IsOpen(sessions[k]) /\ IsOpen(sessions[l]) => k = l

\* The slice of a session is of its day.
SliceOfItsDay ==
    \A k \in DOMAIN sessions : sessions[k].req # 0 =>
       /\ sessions[k].req \in DOMAIN requests
       /\ requests[sessions[k].req].day = DayOf(sessions[k].in)

\* Whatever there is of a day, there is a session on it.
HasSome(d) ==
    day[d] # "NONE" \/ desk[d] # Idle \/ \E r \in DOMAIN requests : requests[r].day = d
DaysAreWorked == \A d \in Days : HasSome(d) => OnDay(d) # {}

\* The transaction that holds the person.
ClockSound ==
    clock # Idle =>
       \/ clock.op = "IN" /\ clock.at \in Nat /\ clock.project \in Places
       \/ /\ clock.op = "ADD" /\ clock.day \in Days /\ clock.project \in Places
          /\ {clock.start, clock.end} \subseteq HoursOf(clock.day)
       \/ /\ clock \in [op : {"OUT"}, session : DOMAIN sessions, at : Nat, overtaken : BOOLEAN]
          /\ sessions[clock.session].by # "PERSON"
          /\ IsOpen(sessions[clock.session]) \/ clock.at < sessions[clock.session].out
          /\ ~clock.overtaken => ~Decided(sessions[clock.session].req)

\* What a desk has read of its day is closed; what it corrects is on it, and had an answer.
Corrects(d) == desk[d] # Idle /\ desk[d].op \in {"EDIT", "ADD"}
DeskSound(d) ==
    desk[d] # Idle /\ desk[d].op # "FORM" =>
       /\ desk[d].op \in {"ROUTE", "EDIT", "ADD"}
       /\ \A k \in DOMAIN desk[d].copies :
             /\ k \in OnDay(d) /\ ~ IsOpen(sessions[k]) /\ desk[d].copies[k].out \in Nat
             /\ desk[d].copies[k].by \in Bys
             /\ desk[d].op = "ROUTE" => desk[d].copies[k].to \in Anyone
CorrectionSound(d) ==
    Corrects(d) =>
       LET c == desk[d]  s == sessions[c.session] IN
       /\ c.session \in OnDay(d) /\ s.req # 0
       /\ {c.from, c.to} \subseteq HoursOf(d)
       /\ c.start \in Times /\ c.end \in Times
       /\ c.op = "ADD" => c.start = c.from /\ c.end = c.to
       /\ c.op = "EDIT" =>
             /\ c.from = IF c.start # NoTime THEN c.start ELSE EffIn(s)
             /\ IF c.end # NoTime THEN c.to = c.end ELSE EffOut(s) <= c.to
       /\ \A k \in DOMAIN c.copies :
             /\ EffIn(c.copies[k]) = EffIn(sessions[k]) /\ c.copies[k].fixOut = sessions[k].fixOut
             /\ k \notin Except(c) => c.from >= EffOut(c.copies[k]) \/ c.to <= EffIn(c.copies[k])

\* What every committed step of attendance keeps.
AttendanceInv ==
    /\ RowsTyped /\ OpenIsPlain /\ OneOpen /\ SliceOfItsDay /\ DaysAreWorked /\ ClockSound
    /\ \A d \in Days : DeskSound(d) /\ CorrectionSound(d)
    /\ DayTellsItsSlices /\ NoHourTwiceUnlessBlind
-----------------------------------------------------------------------------
(* Times, smallest members, and a set put into a sequence.                 *)

\* An hour of a day is of that day.
LEMMA HourIsOfItsDay ==
    ASSUME NEW d \in Days, NEW t \in HoursOf(d)
    PROVE  t \in Nat /\ DayOf(t) = d
<1>1. DayLength \in Nat /\ DayLength > 0
  BY AttendanceAssumption
<1>2. CASE d = 0
  <2>1. t \in 0 .. DayLength - 1
    BY <1>1, <1>2 DEF HoursOf
  <2> QED BY <1>1, <1>2, <2>1 DEF DayOf
<1>3. CASE d = 1
  <2>1. t \in DayLength .. 2 * DayLength - 1
    BY <1>1, <1>3 DEF HoursOf
  <2> QED BY <1>1, <1>3, <2>1 DEF DayOf
<1> QED BY <1>2, <1>3 DEF Days

\* Days are counted.
LEMMA DayIsCounted == ASSUME NEW t \in Nat PROVE DayOf(t) \in Nat /\ DayOf(t) * DayLength \in Nat
<1>1. DayLength \in Nat /\ DayLength > 0
  BY AttendanceAssumption
<1>2. DayOf(t) \in Nat
  BY <1>1 DEF DayOf
<1> HIDE DEF DayOf
<1> QED BY <1>1, <1>2

\* The smallest of some numbers is one of them.
LEMMA MinIsOne ==
    ASSUME NEW S \in SUBSET Nat, S # {}
    PROVE  Min(S) \in S
<1> DEFINE less == {ss \in Nat \X Nat : ss[1] < ss[2]}
<1>1. IsWellFoundedOn(less, Nat)
  BY NatLessThanWellFounded DEF OpToRel
<1> HIDE DEF less
<1>2. PICK n \in S : \A m \in S : ~ (<<m, n>> \in less)
  BY <1>1, WFMin
<1>3. \A m \in S : n <= m
  <2> TAKE m \in S
  <2>1. ~ (m < n)
    BY <1>2 DEF less
  <2> QED BY <2>1
<1> QED BY <1>2, <1>3 DEF Min

\* A finite set put into a sequence is all there, and nothing else is.
LEMMA SequenceOfASet ==
    ASSUME NEW S, IsFiniteSet(S)
    PROVE  /\ SetToSeq(S) \in Seq(S)
           /\ \A x \in S : \E i \in DOMAIN SetToSeq(S) : SetToSeq(S)[i] = x
<1> DEFINE n == Cardinality(S)
           seq == SetToSeq(S)
<1>1. n \in Nat /\ ExistsBijection(1 .. n, S)
  BY FS_CardinalityType
<1>2. \E f : f \in [1 .. n -> S] /\ IsInjective(f)
  BY <1>1 DEF ExistsBijection, Bijection, Injection
<1>3. seq \in [1 .. n -> S] /\ IsInjective(seq)
  BY <1>2 DEF SetToSeq
<1>4. seq \in Injection(1 .. n, S)
  BY <1>3 DEF Injection
<1>5. Cardinality(1 .. n) = n /\ IsFiniteSet(1 .. n)
  BY <1>1, FS_Interval
<1>6. seq \in Surjection(1 .. n, S)
  BY <1>4, <1>5, FS_Injection
<1> HIDE DEF seq
<1>7. seq \in Seq(S)
  BY <1>1, <1>3
<1> QED BY <1>3, <1>6, <1>7 DEF seq, Surjection

-----------------------------------------------------------------------------
(* Rows.                                                                   *)

\* The fields of a session that is a row.
LEMMA RowFields ==
    ASSUME NEW s \in SessionRow
    PROVE  /\ s.in \in Nat /\ s.out \in Times /\ s.by \in Bys /\ s.captured \in BOOLEAN
           /\ s.project \in Places /\ s.req \in Nat /\ s.fixIn \in Times /\ s.fixOut \in Times
           /\ s.blind \in SUBSET Nat
  BY DEF SessionRow, Bys

\* The session as routing saves it, with its slice.
Put(s, copy, q) == [PutBack(s, copy) EXCEPT !.req = q]

\* What is put back of a row, and what stays.
LEMMA WhatIsPutBack ==
    ASSUME NEW s \in SessionRow, NEW copy, copy.out \in Nat, copy.by \in Bys, NEW q \in Nat
    PROVE  /\ Put(s, copy, q) \in SessionRow
           /\ Put(s, copy, q).in = s.in /\ Put(s, copy, q).out = copy.out
           /\ Put(s, copy, q).by = copy.by /\ Put(s, copy, q).req = q
           /\ Put(s, copy, q).fixIn = s.fixIn /\ Put(s, copy, q).fixOut = s.fixOut
           /\ Put(s, copy, q).project = s.project /\ Put(s, copy, q).captured = s.captured
           /\ Put(s, copy, q).blind = IF copy.out = s.out THEN s.blind ELSE 1 .. Len(sessions)
<1>1. Put(s, copy, q) =
        [s EXCEPT !.out = copy.out, !.by = copy.by,
                  !.blind = IF copy.out = s.out THEN s.blind ELSE 1 .. Len(sessions), !.req = q]
  BY DEF Put, PutBack, SessionRow
<1>2. 1 .. Len(sessions) \in SUBSET Nat
  OBVIOUS
<1> DEFINE b == IF copy.out = s.out THEN s.blind ELSE 1 .. Len(sessions)
<1>3. b \in SUBSET Nat /\ Put(s, copy, q) =
        [s EXCEPT !.out = copy.out, !.by = copy.by, !.blind = b, !.req = q]
  BY <1>1, <1>2, RowFields
<1> HIDE DEF b
<1>4. Put(s, copy, q) \in SessionRow
  BY <1>3 DEF SessionRow, Bys, Times
<1>5. /\ Put(s, copy, q).in = s.in /\ Put(s, copy, q).out = copy.out
      /\ Put(s, copy, q).by = copy.by /\ Put(s, copy, q).req = q
      /\ Put(s, copy, q).fixIn = s.fixIn /\ Put(s, copy, q).fixOut = s.fixOut
      /\ Put(s, copy, q).project = s.project /\ Put(s, copy, q).captured = s.captured
      /\ Put(s, copy, q).blind = b
  BY <1>3 DEF SessionRow
<1> QED BY <1>4, <1>5 DEF b

\* What putting back moves is the end and the slice, never the start.
LEMMA PutMoves ==
    ASSUME NEW s \in SessionRow, NEW copy, copy.out \in Nat, copy.by \in Bys, NEW q \in Nat
    PROVE  /\ Put(s, copy, q).in = s.in /\ Put(s, copy, q).out = copy.out
           /\ Put(s, copy, q).req = q
<1> DEFINE t == Put(s, copy, q)
<1>1. t.in = s.in /\ t.out = copy.out /\ t.req = q
  BY WhatIsPutBack
<1> QED BY <1>1

\* A new row.
LEMMA NewSession ==
    ASSUME NEW start \in Nat, NEW end \in Times, NEW by \in Bys, NEW captured \in BOOLEAN,
           NEW project \in Places, NEW blind \in SUBSET Nat, NEW q \in Nat
    PROVE  /\ Session(start, end, by, captured, project, blind) \in SessionRow
           /\ [Session(start, end, by, captured, project, blind) EXCEPT !.req = q] \in SessionRow
  BY DEF Session, SessionRow, Bys, Times, NoTime

\* A function on the first numbers is a sequence.
LEMMA SequenceOfAFunction ==
    ASSUME NEW S, NEW n \in Nat, NEW f \in [1 .. n -> S]
    PROVE  f \in Seq(S) /\ Len(f) = n
<1>1. f \in Seq(S)
  BY SeqDef
<1>2. Len(f) \in Nat /\ 1 .. Len(f) = 1 .. n
  BY <1>1, LenProperties
<1>3. 1 .. Len(f) = 1 .. n => Len(f) = n
  BY <1>2
<1> QED BY <1>1, <1>2, <1>3

\* What typed rows are good for.
LEMMA Rows ==
    ASSUME RowsTyped
    PROVE  /\ Len(sessions) \in Nat /\ DOMAIN sessions = 1 .. Len(sessions)
           /\ Len(requests) \in Nat /\ DOMAIN requests = 1 .. Len(requests)
           /\ \A k \in DOMAIN sessions : sessions[k] \in SessionRow
           /\ \A r \in DOMAIN requests : requests[r] \in RequestRow
<1>1. Len(sessions) \in Nat /\ DOMAIN sessions = 1 .. Len(sessions)
      /\ sessions \in [1 .. Len(sessions) -> SessionRow]
  BY LenProperties DEF RowsTyped
<1>2. Len(requests) \in Nat /\ DOMAIN requests = 1 .. Len(requests)
      /\ requests \in [1 .. Len(requests) -> RequestRow]
  BY LenProperties DEF RowsTyped
<1> QED BY <1>1, <1>2

\* So it is after a step.
LEMMA NextRows ==
    ASSUME RowsTyped'
    PROVE  /\ Len(sessions') \in Nat /\ DOMAIN sessions' = 1 .. Len(sessions')
           /\ Len(requests') \in Nat /\ DOMAIN requests' = 1 .. Len(requests')
           /\ \A k \in DOMAIN sessions' : sessions'[k] \in SessionRow
           /\ \A r \in DOMAIN requests' : requests'[r] \in RequestRow
<1>1. Len(sessions') \in Nat /\ DOMAIN sessions' = 1 .. Len(sessions')
      /\ sessions' \in [1 .. Len(sessions') -> SessionRow]
  BY LenProperties DEF RowsTyped
<1>2. Len(requests') \in Nat /\ DOMAIN requests' = 1 .. Len(requests')
      /\ requests' \in [1 .. Len(requests') -> RequestRow]
  BY LenProperties DEF RowsTyped
<1> QED BY <1>1, <1>2

\* Requests are only added, for what nobody is asked about yet, and everyone addressed is
\* asked.
LEMMA SlicesAsk ==
    ASSUME RowsTyped, NEW d \in Days, NEW copies, IsFiniteSet(DOMAIN copies),
           \A k \in DOMAIN copies : copies[k].to \in Anyone
    PROVE  LET rs == Slices(d, copies)
           IN  /\ rs \in Seq(RequestRow) /\ Len(requests) <= Len(rs)
               /\ \A r \in DOMAIN requests : rs[r] = requests[r]
               /\ \A r \in DOMAIN rs \ DOMAIN requests : rs[r].day = d /\ rs[r].status = "PENDING"
               /\ \A k \in DOMAIN copies : OpenFor(rs, d, copies[k].to) # {}
<1> DEFINE who == {copies[k].to : k \in DOMAIN copies}
           un == Unasked(d, copies)
           new == SetToSeq(un)
           asks == [i \in DOMAIN new |-> Request(d, new[i])]
           rs == requests \o asks
<1>1. IsFiniteSet(un) /\ un \subseteq Anyone /\ un \subseteq who
  <2>1. [k \in DOMAIN copies |-> copies[k].to] \in Surjection(DOMAIN copies, who)
    BY DEF Surjection
  <2>2. IsFiniteSet(who)
    BY <2>1, FS_Surjection
  <2>3. un \in SUBSET who /\ who \subseteq Anyone
    BY DEF Unasked
  <2>4. IsFiniteSet(un)
    <3> HIDE DEF who, un
    <3> QED BY <2>2, <2>3, FS_Subset
  <2> QED BY <2>3, <2>4
<1> HIDE DEF un
<1>2. new \in Seq(un) /\ \A x \in un : \E i \in DOMAIN new : new[i] = x
  BY <1>1, SequenceOfASet
<1> HIDE DEF new
<1>3. Len(new) \in Nat /\ DOMAIN new = 1 .. Len(new) /\ new \in [1 .. Len(new) -> un]
  BY <1>2, LenProperties
<1>4. \A to \in un : Request(d, to) \in RequestRow
  BY <1>1 DEF Request, RequestRow, Answers, NoTime
<1>5. asks \in [1 .. Len(new) -> RequestRow]
  BY <1>3, <1>4
<1>6. \A i \in 1 .. Len(new) : asks[i] = Request(d, new[i])
  BY <1>3
<1> HIDE DEF asks
<1>7. asks \in Seq(RequestRow) /\ Len(asks) = Len(new)
  BY <1>3, <1>5, SequenceOfAFunction
<1>8. requests \in Seq(RequestRow) /\ Len(requests) \in Nat /\ DOMAIN requests = 1 .. Len(requests)
  BY Rows DEF RowsTyped
<1> HIDE DEF RequestRow
<1>b. /\ rs \in Seq(RequestRow) /\ Len(rs) = Len(requests) + Len(asks)
      /\ \A i \in 1 .. Len(requests) + Len(asks) :
            rs[i] = IF i <= Len(requests) THEN requests[i] ELSE asks[i - Len(requests)]
  BY <1>7, <1>8, ConcatProperties, Zenon
<1>9. /\ rs \in Seq(RequestRow) /\ Len(rs) = Len(requests) + Len(new)
      /\ \A i \in 1 .. Len(requests) + Len(new) :
            rs[i] = IF i <= Len(requests) THEN requests[i] ELSE asks[i - Len(requests)]
  BY <1>7, <1>b, Zenon
<1>10. DOMAIN rs = 1 .. Len(requests) + Len(new)
  BY <1>9, LenProperties
<1> HIDE DEF rs
<1>11. \A r \in DOMAIN requests : rs[r] = requests[r] /\ r \in DOMAIN rs
  BY <1>3, <1>8, <1>9, <1>10
<1>12. ASSUME NEW i \in DOMAIN new
       PROVE  /\ Len(requests) + i \in DOMAIN rs
              /\ rs[Len(requests) + i] = Request(d, new[i])
  <2>1. i \in 1 .. Len(new) /\ Len(requests) + i \in 1 .. Len(requests) + Len(new)
        /\ ~ (Len(requests) + i <= Len(requests)) /\ Len(requests) + i - Len(requests) = i
    BY <1>3, <1>8
  <2> QED BY <2>1, <1>6, <1>9, <1>10
<1>a. \A to : /\ Request(d, to).day = d /\ Request(d, to).status = "PENDING"
               /\ Request(d, to).to = to
  BY DEF Request
<1>13. ASSUME NEW r \in DOMAIN rs \ DOMAIN requests PROVE rs[r].day = d /\ rs[r].status = "PENDING"
  <2>1. r - Len(requests) \in DOMAIN new /\ Len(requests) + (r - Len(requests)) = r
    BY <1>3, <1>8, <1>10
  <2> QED BY <2>1, <1>12, <1>a
<1>14. ASSUME NEW k \in DOMAIN copies PROVE OpenFor(rs, d, copies[k].to) # {}
  <2>1. CASE copies[k].to \in un
    <3>1. PICK i \in DOMAIN new : new[i] = copies[k].to
      BY <1>2, <2>1
    <3>2. Len(requests) + i \in OpenFor(rs, d, copies[k].to)
      BY <3>1, <1>12, <1>a DEF OpenFor
    <3> QED BY <3>2
  <2>2. CASE copies[k].to \notin un
    <3>1. PICK r \in OpenFor(requests, d, copies[k].to) : TRUE
      BY <2>2 DEF un, Unasked
    <3>2. r \in OpenFor(rs, d, copies[k].to)
      BY <3>1, <1>11 DEF OpenFor
    <3> QED BY <3>2
  <2> QED BY <2>1, <2>2
<1>15. Slices(d, copies) = rs /\ Len(requests) <= Len(rs)
  BY <1>3, <1>8, <1>9 DEF rs, asks, new, un, Slices
<1> QED BY <1>9, <1>11, <1>13, <1>14, <1>15

\* Whom a slice is asked of first.
LEMMA FirstAsked ==
    ASSUME NEW rs \in Seq(RequestRow), NEW d, NEW to, OpenFor(rs, d, to) # {}
    PROVE  LET q == Min(OpenFor(rs, d, to))
           IN  /\ q \in DOMAIN rs /\ q \in Nat /\ q # 0
               /\ rs[q].day = d /\ rs[q].status = "PENDING"
<1>1. DOMAIN rs = 1 .. Len(rs) /\ Len(rs) \in Nat
  BY LenProperties
<1>2. OpenFor(rs, d, to) \in SUBSET Nat /\ 0 \notin OpenFor(rs, d, to)
  BY <1>1 DEF OpenFor
<1>3. Min(OpenFor(rs, d, to)) \in OpenFor(rs, d, to)
  BY <1>2, MinIsOne
<1> QED BY <1>2, <1>3 DEF OpenFor

-----------------------------------------------------------------------------
(* What becomes of a row.                                                  *)

\* It keeps its beginning, a closed one stays closed, and a slice is not lost.
Follows(s, t) ==
    /\ t.in = s.in
    /\ IsOpen(t) => t = s
    /\ s.req # 0 => t.req # 0

\* Its corrections stay as they are, and its end is not put off.
Stays(s, t) ==
    /\ t.fixIn = s.fixIn /\ t.fixOut = s.fixOut
    /\ ~ IsOpen(s) => t.out <= s.out /\ ~ IsOpen(t)

\* It takes no more time than before.
Shrinks(s, t) ==
    /\ EffIn(t) = EffIn(s)
    /\ EffOut(s) # NoTime => EffOut(t) # NoTime /\ EffOut(t) <= EffOut(s)
    /\ s.blind \subseteq t.blind

\* No session is lost, and each follows from what it was; those of a day keep their ends.
RowsFollow == \A k \in DOMAIN sessions : k \in DOMAIN sessions' /\ Follows(sessions[k], sessions'[k])
DayStays(d) == \A k \in OnDay(d) : Stays(sessions[k], sessions'[k])

\* A row left alone follows from itself.
LEMMA SameRow == \A s : Follows(s, s)
  BY DEF Follows

\* A row left alone stays, and shrinks.
LEMMA SameStays == ASSUME NEW s \in SessionRow PROVE Stays(s, s) /\ Shrinks(s, s)
  BY DEF Stays, Shrinks, SessionRow, EffOut, EffIn, IsOpen, Times, NoTime

\* A row that stays, and is blind to no less, shrinks.
LEMMA StaysShrinks ==
    ASSUME NEW s \in SessionRow, NEW t \in SessionRow, t.in = s.in, Stays(s, t), s.blind \subseteq t.blind
    PROVE  Shrinks(s, t)
  BY DEF Stays, Shrinks, SessionRow, EffOut, EffIn, IsOpen, Times, NoTime

\* Two sessions apart are apart when both have shrunk.
LEMMA ApartStays ==
    ASSUME NEW s \in SessionRow, NEW t \in SessionRow, NEW u \in SessionRow, NEW v \in SessionRow,
           Shrinks(s, u), Shrinks(t, v), Apart(s, t)
    PROVE  Apart(u, v)
<1>1. /\ EffIn(s) \in Int /\ EffIn(t) \in Int /\ EffIn(u) \in Int /\ EffIn(v) \in Int
      /\ EffOut(s) \in Int /\ EffOut(t) \in Int /\ EffOut(u) \in Int /\ EffOut(v) \in Int
  BY DEF SessionRow, EffIn, EffOut, Times, NoTime
<1> QED BY <1>1 DEF Shrinks, Apart

\* A row that a commit puts back, at its desk.
LEMMA PutFollows ==
    ASSUME RowsTyped, NEW s \in SessionRow, NEW copy, copy.out \in Nat, copy.by \in Bys,
           NEW q \in Nat, q # 0
    PROVE  /\ Follows(s, Put(s, copy, q))
           /\ copy.out = s.out => Stays(s, Put(s, copy, q)) /\ Shrinks(s, Put(s, copy, q))
           /\ Shrinks(s, Put(s, copy, q)) \/ DOMAIN sessions \subseteq Put(s, copy, q).blind
<1> DEFINE t == Put(s, copy, q)
<1>1. /\ t \in SessionRow /\ t.in = s.in /\ t.out = copy.out /\ t.req = q
      /\ t.fixIn = s.fixIn /\ t.fixOut = s.fixOut
      /\ t.blind = IF copy.out = s.out THEN s.blind ELSE 1 .. Len(sessions)
  BY WhatIsPutBack
<1> HIDE DEF t
<1>2. Follows(s, t)
  BY <1>1 DEF Follows, IsOpen, NoTime
<1>3. ASSUME copy.out = s.out PROVE Stays(s, t) /\ Shrinks(s, t)
  <2>1. Stays(s, t)
    BY <1>1, <1>3 DEF Stays, IsOpen, NoTime
  <2>2. s.blind \subseteq t.blind
    BY <1>1, <1>3
  <2> QED BY <1>1, <2>1, <2>2, StaysShrinks
<1>4. copy.out # s.out => DOMAIN sessions \subseteq t.blind
  BY <1>1, Rows
<1> QED BY <1>2, <1>3, <1>4 DEF t

\* What route_day makes of the rows it saves.
LEMMA SavedRows ==
    ASSUME RowsTyped, NEW d \in Days, NEW ss \in Seq(SessionRow), NEW copies,
           DOMAIN copies \subseteq DOMAIN ss,
           \A k \in DOMAIN copies :
              copies[k].out \in Nat /\ copies[k].by \in Bys /\ copies[k].to \in Anyone
    PROVE  LET rs == Slices(d, copies)
               tt == Saved(ss, rs, d, copies)
           IN  /\ rs \in Seq(RequestRow) /\ Len(requests) <= Len(rs)
               /\ \A r \in DOMAIN requests : rs[r] = requests[r]
               /\ \A r \in DOMAIN rs \ DOMAIN requests : rs[r].day = d /\ rs[r].status = "PENDING"
               /\ tt \in Seq(SessionRow) /\ Len(tt) = Len(ss)
               /\ \A k \in DOMAIN ss \ DOMAIN copies : tt[k] = ss[k]
               /\ \A k \in DOMAIN copies : \E q \in DOMAIN rs :
                     /\ q \in Nat /\ q # 0 /\ rs[q].day = d /\ rs[q].status = "PENDING"
                     /\ tt[k] = Put(ss[k], copies[k], q)
<1> DEFINE rs == Slices(d, copies)
           tt == Saved(ss, rs, d, copies)
           q(k) == Min(OpenFor(rs, d, copies[k].to))
<1>1. Len(ss) \in Nat /\ DOMAIN ss = 1 .. Len(ss) /\ \A k \in DOMAIN ss : ss[k] \in SessionRow
  <2>1. ss \in [1 .. Len(ss) -> SessionRow] /\ Len(ss) \in Nat
    BY LenProperties
  <2> QED BY <2>1
<1>2. IsFiniteSet(DOMAIN copies)
  <2>1. IsFiniteSet(1 .. Len(ss))
    BY <1>1, FS_Interval
  <2>2. DOMAIN copies \in SUBSET (1 .. Len(ss))
    BY <1>1
  <2> QED BY <2>1, <2>2, FS_Subset
<1>3. /\ rs \in Seq(RequestRow) /\ Len(requests) <= Len(rs)
      /\ \A r \in DOMAIN requests : rs[r] = requests[r]
      /\ \A r \in DOMAIN rs \ DOMAIN requests : rs[r].day = d /\ rs[r].status = "PENDING"
      /\ \A k \in DOMAIN copies : OpenFor(rs, d, copies[k].to) # {}
  BY <1>2, SlicesAsk
<1> HIDE DEF rs
<1>4. \A k \in DOMAIN copies : /\ q(k) \in DOMAIN rs /\ q(k) \in Nat /\ q(k) # 0
                               /\ rs[q(k)].day = d /\ rs[q(k)].status = "PENDING"
  <2> TAKE k \in DOMAIN copies
  <2>1. OpenFor(rs, d, copies[k].to) # {}
    BY <1>3
  <2>2. \A to : OpenFor(rs, d, to) # {} =>
            LET r == Min(OpenFor(rs, d, to))
            IN  /\ r \in DOMAIN rs /\ r \in Nat /\ r # 0
                /\ rs[r].day = d /\ rs[r].status = "PENDING"
    BY <1>3, FirstAsked
  <2> QED BY <2>1, <2>2
<1> HIDE DEF q
<1>5. tt = [k \in DOMAIN ss |-> IF k \in DOMAIN copies THEN Put(ss[k], copies[k], q(k)) ELSE ss[k]]
  BY DEF Saved, Put, q, tt
<1> HIDE DEF tt
<1>6. \A k \in DOMAIN ss : tt[k] \in SessionRow
  <2> TAKE k \in DOMAIN ss
  <2>1. CASE k \in DOMAIN copies
    <3>1. Put(ss[k], copies[k], q(k)) \in SessionRow
      BY <1>1, <1>4, <2>1, WhatIsPutBack
    <3> QED BY <1>5, <2>1, <3>1
  <2>2. CASE k \notin DOMAIN copies
    BY <1>1, <1>5, <2>2
  <2> QED BY <2>1, <2>2
<1>7. tt \in [1 .. Len(ss) -> SessionRow]
  BY <1>1, <1>5, <1>6
<1>8. tt \in Seq(SessionRow) /\ Len(tt) = Len(ss)
  BY <1>1, <1>7, SequenceOfAFunction
<1>9. \A k \in DOMAIN ss \ DOMAIN copies : tt[k] = ss[k]
  BY <1>5
<1>10. \A k \in DOMAIN copies : \E r \in DOMAIN rs :
          /\ r \in Nat /\ r # 0 /\ rs[r].day = d /\ rs[r].status = "PENDING"
          /\ tt[k] = Put(ss[k], copies[k], r)
  <2> TAKE k \in DOMAIN copies
  <2>1. tt[k] = Put(ss[k], copies[k], q(k))
    BY <1>5
  <2> QED BY <1>4, <2>1
<1> QED BY <1>3, <1>8, <1>9, <1>10 DEF tt, rs

-----------------------------------------------------------------------------
(* What a day says.                                                        *)

\* The slices of a day, and a day that tells what they say.
Routed(d) == {sessions[k].req : k \in OnDay(d)} \ {0}
DayTells(d) ==
    LET waits == \E r \in Routed(d) : Waiting(r)
    IN  /\ day[d] = "PENDING" => waits \/ \E k \in OnDay(d) : sessions[k].req = 0
        /\ day[d] \in {"APPROVED", "REJECTED"} => Routed(d) # {} /\ ~ waits
        /\ day[d] = "APPROVED" => \A r \in Routed(d) : requests[r].status = "APPROVED"
        /\ day[d] = "REJECTED" => \E r \in Routed(d) : requests[r].status = "REJECTED"

\* The invariant, day by day.
LEMMA AllTell == DayTellsItsSlices <=> \A d \in Days : DayTells(d)
  BY DEF DayTellsItsSlices, DayTells, Routed

\* A row of a day is still on it.
LEMMA StillOnDay == ASSUME RowsFollow, NEW d PROVE OnDay(d) \subseteq OnDay(d)'
  BY DEF RowsFollow, Follows, OnDay

\* A day whose rows are on the slices they were on, with the answers they had, says what it
\* said.
LEMMA DayKept ==
    ASSUME NEW d \in Days, DayTells(d), day'[d] = day[d], OnDay(d)' = OnDay(d),
           \A k \in OnDay(d) : sessions'[k].req = sessions[k].req,
           \A k \in OnDay(d) : sessions[k].req # 0 =>
              requests'[sessions[k].req].status = requests[sessions[k].req].status
    PROVE  DayTells(d)'
<1>1. Routed(d)' = Routed(d)
  BY DEF Routed
<1>2. \A r \in Routed(d) : requests'[r].status = requests[r].status
  BY DEF Routed
<1>3. \A r \in Routed(d) : Waiting(r)' <=> Waiting(r)
  BY <1>2 DEF Waiting
<1>4. (\E k \in OnDay(d) : sessions[k].req = 0) => (\E k \in OnDay(d)' : sessions'[k].req = 0)
  OBVIOUS
<1> HIDE DEF Routed
<1> QED BY <1>1, <1>2, <1>3, <1>4 DEF DayTells

\* A day that has been looked at again says what its slices say.
LEMMA DayRefreshed ==
    ASSUME NEW d \in Days, DOMAIN day = Days, Refresh(d), OnDay(d)' # {},
           \A k \in OnDay(d)' : sessions'[k].req # 0 => requests'[sessions'[k].req].status \in Answers
    PROVE  DayTells(d)'
<1> DEFINE of == {sessions'[k].req : k \in {k \in DOMAIN sessions' : DayOf(sessions'[k].in) = d}}
           said == {requests'[r].status : r \in of \ {0}}
<1>1. day'[d] = IF "PENDING" \in said \/ 0 \in of THEN "PENDING"
                ELSE IF "REJECTED" \in said THEN "REJECTED" ELSE "APPROVED"
  BY DEF Refresh, Projected
<1>2. of = {sessions'[k].req : k \in OnDay(d)'} /\ Routed(d)' = of \ {0}
  BY DEF OnDay, Routed
<1>3. of # {} /\ said \subseteq Answers
  BY <1>2
<1>4. 0 \in of => \E k \in OnDay(d)' : sessions'[k].req = 0
  BY <1>2
<1> HIDE DEF of
<1>5. "PENDING" \in said <=> \E r \in Routed(d)' : requests'[r].status = "PENDING"
  BY <1>2
<1>6. "REJECTED" \in said <=> \E r \in Routed(d)' : requests'[r].status = "REJECTED"
  BY <1>2
<1>7. \A r \in Routed(d)' : requests'[r].status \in said
  BY <1>2
<1> HIDE DEF said
<1>8. (\E r \in Routed(d) : Waiting(r))' <=> "PENDING" \in said
  BY <1>5 DEF Waiting
<1>9. CASE "PENDING" \in said \/ 0 \in of
  BY <1>1, <1>4, <1>8, <1>9 DEF DayTells
<1>10. CASE ~ ("PENDING" \in said) /\ 0 \notin of
  <2>1. Routed(d)' # {}
    BY <1>2, <1>3, <1>10
  <2>2. ~ (\E r \in Routed(d) : Waiting(r))'
    BY <1>8, <1>10
  <2>3. CASE "REJECTED" \in said
    <3>1. day'[d] = "REJECTED"
      BY <1>1, <1>10, <2>3
    <3> QED BY <1>6, <2>1, <2>2, <2>3, <3>1 DEF DayTells
  <2>4. CASE ~ ("REJECTED" \in said)
    <3>1. day'[d] = "APPROVED"
      BY <1>1, <1>10, <2>4
    <3>2. \A r \in Routed(d)' : requests'[r].status = "APPROVED"
      BY <1>3, <1>7, <1>10, <2>4 DEF Answers
    <3> QED BY <2>1, <2>2, <3>1, <3>2 DEF DayTells
  <2> QED BY <2>3, <2>4
<1> QED BY <1>9, <1>10

-----------------------------------------------------------------------------
(* No hour twice.                                                          *)

\* A session that still covers no more than it did, or is blind to every other.
Kept(k) ==
    Shrinks(sessions[k], sessions'[k]) \/ DOMAIN sessions \subseteq sessions'[k].blind

\* Rows that take no more time than before stay apart, beside one that is new or has been
\* stated again and is apart from them or was not compared.
LEMMA PairsStay ==
    ASSUME RowsTyped, RowsTyped', NoHourTwiceUnlessBlind, NEW n,
           DOMAIN sessions' \subseteq DOMAIN sessions \cup {n},
           \A k \in DOMAIN sessions \ {n} : Kept(k),
           \A k \in DOMAIN sessions \ {n} : n \in DOMAIN sessions' =>
              \/ k \in sessions'[n].blind \/ n \in sessions'[k].blind
              \/ Apart(sessions'[n], sessions'[k])
    PROVE  NoHourTwiceUnlessBlind'
<1>1. \A s, t : Apart(s, t) => Apart(t, s)
  BY DEF Apart
<1> SUFFICES ASSUME NEW k \in DOMAIN sessions', NEW l \in DOMAIN sessions', k < l
             PROVE  \/ Apart(sessions'[k], sessions'[l])
                    \/ k \in sessions'[l].blind \/ l \in sessions'[k].blind
  BY DEF NoHourTwiceUnlessBlind, Apart, EffIn, EffOut
<1>2. CASE k # n /\ l # n
  <2>1. k \in DOMAIN sessions /\ l \in DOMAIN sessions
    BY <1>2
  <2>2. /\ sessions[k] \in SessionRow /\ sessions[l] \in SessionRow
    BY <2>1, Rows
  <2>3. sessions'[k] \in SessionRow /\ sessions'[l] \in SessionRow
    BY NextRows
  <2>4. CASE Shrinks(sessions[k], sessions'[k]) /\ Shrinks(sessions[l], sessions'[l])
    <3>1. \/ Apart(sessions[k], sessions[l])
          \/ k \in sessions[l].blind \/ l \in sessions[k].blind
      BY <2>1 DEF NoHourTwiceUnlessBlind
    <3>2. sessions[k].blind \subseteq sessions'[k].blind /\ sessions[l].blind \subseteq sessions'[l].blind
      BY <2>4 DEF Shrinks
    <3>3. Apart(sessions[k], sessions[l]) => Apart(sessions'[k], sessions'[l])
      BY <2>2, <2>3, <2>4, ApartStays
    <3> QED BY <3>1, <3>2, <3>3
  <2>5. CASE ~ (Shrinks(sessions[k], sessions'[k]) /\ Shrinks(sessions[l], sessions'[l]))
    BY <1>2, <2>1, <2>5 DEF Kept
  <2> QED BY <2>4, <2>5
<1>3. CASE k = n /\ l # n
  BY <1>1, <1>3
<1>4. CASE k # n /\ l = n
  BY <1>1, <1>4
<1>5. k # l
  <2>1. k \in Int /\ l \in Int
    <3>1. Len(sessions') \in Nat /\ DOMAIN sessions' = 1 .. Len(sessions')
      BY LenProperties DEF RowsTyped
    <3> QED BY <3>1
  <2> QED BY <2>1
<1> QED BY <1>2, <1>3, <1>4, <1>5

-----------------------------------------------------------------------------
(* What a step leaves alone.                                               *)

\* A day stays worked when whatever begins on it has a session.
LEMMA WorkedStays ==
    ASSUME DaysAreWorked, RowsFollow,
           \A d \in Days : HasSome(d)' => HasSome(d) \/ OnDay(d)' # {}
    PROVE  DaysAreWorked'
<1>1. \A d \in Days : OnDay(d) # {} => OnDay(d)' # {}
  <2> TAKE d \in Days
  <2>1. OnDay(d) \subseteq OnDay(d)'
    BY StillOnDay
  <2> QED BY <2>1
<1>2. \A d \in Days : HasSome(d)' => OnDay(d)' # {}
  BY <1>1 DEF DaysAreWorked
<1> QED BY <1>2 DEF DaysAreWorked

\* The transaction that holds another day, or this one still.
LEMMA DeskKept ==
    ASSUME NEW d \in Days, RowsTyped, RowsTyped', OpenIsPlain, DeskSound(d), CorrectionSound(d),
           RowsFollow, DayStays(d), desk'[d] = desk[d]
    PROVE  DeskSound(d)' /\ CorrectionSound(d)'
<1>1. OnDay(d) \subseteq OnDay(d)'
  BY StillOnDay
<1>2. DeskSound(d)'
  <2>1. \A k \in OnDay(d) : ~ IsOpen(sessions[k]) => ~ IsOpen(sessions'[k])
    BY DEF RowsFollow, Follows, OnDay
  <2> QED BY <1>1, <2>1 DEF DeskSound, IsOpen
<1>3. CASE ~ Corrects(d)
  BY <1>2, <1>3 DEF CorrectionSound, Corrects
<1>4. CASE Corrects(d)
  <2> DEFINE c == desk[d]
             s == sessions[c.session]
             t == sessions'[c.session]
  <2>1. /\ c.session \in OnDay(d) /\ s.req # 0
        /\ {c.from, c.to} \subseteq HoursOf(d)
        /\ c.start \in Times /\ c.end \in Times
        /\ c.op = "ADD" => c.start = c.from /\ c.end = c.to
        /\ c.op = "EDIT" =>
              /\ c.from = IF c.start # NoTime THEN c.start ELSE EffIn(s)
              /\ IF c.end # NoTime THEN c.to = c.end ELSE EffOut(s) <= c.to
        /\ \A k \in DOMAIN c.copies :
              /\ EffIn(c.copies[k]) = EffIn(sessions[k]) /\ c.copies[k].fixOut = sessions[k].fixOut
              /\ k \notin Except(c) => c.from >= EffOut(c.copies[k]) \/ c.to <= EffIn(c.copies[k])
    BY <1>4 DEF CorrectionSound
  <2>2. \A k \in OnDay(d) : /\ EffIn(sessions'[k]) = EffIn(sessions[k])
                            /\ sessions'[k].fixOut = sessions[k].fixOut
    BY DEF RowsFollow, Follows, DayStays, Stays, OnDay, EffIn
  <2>3. \A k \in DOMAIN c.copies : k \in OnDay(d)
    BY <1>4 DEF DeskSound, Corrects
  <2>4. s \in SessionRow /\ t \in SessionRow
    <3>1. c.session \in DOMAIN sessions /\ c.session \in DOMAIN sessions'
      BY <1>1, <2>1 DEF OnDay
    <3> QED BY <3>1, Rows, NextRows
  <2>5. Follows(s, t) /\ Stays(s, t) /\ ~ IsOpen(s)
    BY <2>1 DEF RowsFollow, DayStays, OnDay, OpenIsPlain
  <2>6. EffOut(t) <= EffOut(s) /\ EffOut(s) \in Int /\ EffOut(t) \in Int
    BY <2>4, <2>5 DEF Stays, EffOut, SessionRow, Times, NoTime
  <2>7. t.req # 0
    BY <2>1, <2>5 DEF Follows
  <2>8. c.to \in Int
    BY <2>1, HourIsOfItsDay
  <2>9. c.op = "EDIT" =>
              /\ c.from = IF c.start # NoTime THEN c.start ELSE EffIn(t)
              /\ IF c.end # NoTime THEN c.to = c.end ELSE EffOut(t) <= c.to
    BY <2>1, <2>2, <2>6, <2>8
  <2>10. \A k \in DOMAIN c.copies :
            /\ EffIn(c.copies[k]) = EffIn(sessions'[k]) /\ c.copies[k].fixOut = sessions'[k].fixOut
            /\ k \notin Except(c) => c.from >= EffOut(c.copies[k]) \/ c.to <= EffIn(c.copies[k])
    BY <2>1, <2>2, <2>3
  <2>11. c.session \in OnDay(d)'
    BY <1>1, <2>1
  <2>12. desk'[d] = c
    OBVIOUS
  <2> HIDE DEF c
  <2>13. CorrectionSound(d)'
    BY <2>1, <2>7, <2>9, <2>10, <2>11, <2>12 DEF CorrectionSound, Except, EffIn, EffOut
  <2> QED BY <1>2, <2>13
<1> QED BY <1>3, <1>4

\* The transaction that holds the person, when the row it is about to close is left alone.
LEMMA ClockKept ==
    ASSUME ClockSound, clock' = clock,
           clock # Idle /\ clock.op = "OUT" =>
              /\ clock.session \in DOMAIN sessions'
              /\ sessions'[clock.session].out = sessions[clock.session].out
              /\ sessions'[clock.session].by = sessions[clock.session].by
              /\ sessions'[clock.session].req = sessions[clock.session].req
              /\ Decided(sessions[clock.session].req)' => Decided(sessions[clock.session].req)
    PROVE  ClockSound'
<1>1. CASE clock # Idle /\ clock.op = "OUT"
  BY <1>1 DEF ClockSound, IsOpen, Decided, Waiting
<1>2. CASE ~ (clock # Idle /\ clock.op = "OUT")
  BY <1>2 DEF ClockSound
<1> QED BY <1>1, <1>2

-----------------------------------------------------------------------------
(* The initial state, and the steps that change no row.                    *)

\* Nothing is recorded at first, so everything holds.
LEMMA AttendanceBegins == AttendanceInit => AttendanceInv
<1> SUFFICES ASSUME AttendanceInit PROVE AttendanceInv
  OBVIOUS
<1>1. sessions \in Seq(SessionRow) /\ requests \in Seq(RequestRow)
      /\ DOMAIN sessions = {} /\ DOMAIN requests = {}
  BY DEF AttendanceInit
<1>2. RowsTyped
  BY <1>1, AttendanceAssumption DEF AttendanceInit, RowsTyped
<1>3. \A d \in Days : OnDay(d) = {} /\ ~ HasSome(d)
  BY <1>1 DEF AttendanceInit, OnDay, HasSome
<1>4. OpenIsPlain /\ OneOpen /\ SliceOfItsDay /\ DaysAreWorked /\ ClockSound
  BY <1>1, <1>3 DEF AttendanceInit, OpenIsPlain, OneOpen, SliceOfItsDay, DaysAreWorked, ClockSound
<1>5. \A d \in Days : DeskSound(d) /\ CorrectionSound(d)
  BY DEF AttendanceInit, DeskSound, CorrectionSound, Corrects
<1>6. DayTellsItsSlices
  BY AttendanceAssumption DEF AttendanceInit, DayTellsItsSlices
<1>7. NoHourTwiceUnlessBlind
  BY <1>1 DEF NoHourTwiceUnlessBlind
<1> QED BY <1>2, <1>4, <1>5, <1>6, <1>7 DEF AttendanceInv

\* A step that only reads.
RowsLeft == sessions' = sessions /\ requests' = requests /\ day' = day /\ manager' = manager

\* A step that saves no row keeps the invariant when its clock and its desks are sound.
LEMMA QuietStep ==
    ASSUME AttendanceInv, RowsLeft, now' \in Nat, DOMAIN desk' = Days, ClockSound',
           \A d \in Days : DeskSound(d)' /\ CorrectionSound(d)',
           \A d \in Days : desk'[d] = desk[d] \/ OnDay(d) # {}
    PROVE  AttendanceInv'
<1>1. RowsTyped' /\ OpenIsPlain' /\ OneOpen' /\ SliceOfItsDay'
  BY DEF AttendanceInv, RowsLeft, RowsTyped, OpenIsPlain, OneOpen, SliceOfItsDay
<1>2. \A d \in Days : OnDay(d)' = OnDay(d)
  BY DEF RowsLeft, OnDay
<1>3. DaysAreWorked'
  BY <1>2 DEF AttendanceInv, RowsLeft, DaysAreWorked, HasSome
<1>4. \A d \in Days : DayTells(d)'
  <2> TAKE d \in Days
  <2>1. DayTells(d)
    BY AllTell DEF AttendanceInv
  <2> QED BY <1>2, <2>1, DayKept DEF RowsLeft
<1>5. DayTellsItsSlices'
  <2>1. (DayTellsItsSlices <=> \A d \in Days : DayTells(d))'
    BY AllTell, PTL
  <2> QED BY <1>4, <2>1
<1>6. NoHourTwiceUnlessBlind'
  BY DEF AttendanceInv, RowsLeft, NoHourTwiceUnlessBlind, Apart, EffIn, EffOut
<1> QED BY <1>1, <1>3, <1>5, <1>6 DEF AttendanceInv

\* The clocking left alone stays sound.
LEMMA SameClock == ASSUME ClockSound, sessions' = sessions, requests' = requests, clock' = clock PROVE ClockSound'
  BY DEF ClockSound, IsOpen, Decided, Waiting

\* A desk left alone stays sound.
LEMMA SameDesk ==
    ASSUME NEW d, DeskSound(d), CorrectionSound(d), sessions' = sessions, desk'[d] = desk[d]
    PROVE  DeskSound(d)' /\ CorrectionSound(d)'
  BY DEF DeskSound, CorrectionSound, Corrects, OnDay, EffIn, EffOut, Except, IsOpen

\* Clocking in up to its lock (_clock_in_locked) reads only.
LEMMA ClockInKeeps == AttendanceInv /\ ClockIn => AttendanceInv'
<1> SUFFICES ASSUME AttendanceInv, ClockIn PROVE AttendanceInv'
  OBVIOUS
<1>1. RowsLeft /\ now' = now /\ desk' = desk
  BY DEF ClockIn, RowsLeft
<1>2. ClockSound'
  <2>1. PICK at \in 0 .. now, j \in Projects \cup {NoProject} :
           clock' = [op |-> "IN", at |-> at, project |-> j]
    BY DEF ClockIn
  <2> QED BY <2>1 DEF ClockSound, Places, AttendanceInv, RowsTyped
<1>3. \A d \in Days : DeskSound(d)' /\ CorrectionSound(d)'
  BY <1>1, SameDesk DEF AttendanceInv, RowsLeft
<1> QED BY <1>1, <1>2, <1>3, QuietStep DEF AttendanceInv, RowsTyped

\* Clocking out up to its lock (_clock_out_locked) has the session that is open, or one nobody gave an end.
LEMMA ClockOutKeeps == AttendanceInv /\ ClockOut => AttendanceInv'
<1> SUFFICES ASSUME AttendanceInv, ClockOut PROVE AttendanceInv'
  OBVIOUS
<1>1. RowsLeft /\ now' = now /\ desk' = desk
  BY DEF ClockOut, RowsLeft
<1>2. ClockSound'
  <2>0. PICK k \in DOMAIN sessions : \E at \in sessions[k].in .. now :
           /\ IsOpen(sessions[k]) \/ (sessions[k].captured /\ Replaceable(sessions[k], at))
           /\ clock' = [op |-> "OUT", session |-> k, at |-> at, overtaken |-> FALSE]
    BY DEF ClockOut
  <2>1. PICK at \in sessions[k].in .. now :
           /\ IsOpen(sessions[k]) \/ (sessions[k].captured /\ Replaceable(sessions[k], at))
           /\ clock' = [op |-> "OUT", session |-> k, at |-> at, overtaken |-> FALSE]
    BY <2>0
  <2>2. at \in Nat
    <3>1. sessions[k].in \in Nat
      BY Rows, RowFields DEF AttendanceInv
    <3> QED BY <3>1 DEF AttendanceInv, RowsTyped
  <2>3. sessions[k].by # "PERSON" /\ ~ Decided(sessions[k].req)
        /\ (IsOpen(sessions[k]) \/ at < sessions[k].out)
    BY <2>1 DEF AttendanceInv, OpenIsPlain, Decided, Replaceable
  <2> QED BY <1>1, <2>1, <2>2, <2>3 DEF ClockSound, RowsLeft, IsOpen, Decided, Waiting
<1>3. \A d \in Days : DeskSound(d)' /\ CorrectionSound(d)'
  BY <1>1, SameDesk DEF AttendanceInv, RowsLeft
<1> QED BY <1>1, <1>2, <1>3, QuietStep DEF AttendanceInv, RowsTyped

\* Adding a day up to its lock reads only.
LEMMA AddDayKeeps == AttendanceInv /\ AddDay => AttendanceInv'
<1> SUFFICES ASSUME AttendanceInv, AddDay PROVE AttendanceInv'
  OBVIOUS
<1>1. RowsLeft /\ now' = now /\ desk' = desk
  BY DEF AddDay, RowsLeft
<1>2. ClockSound'
  <2>1. PICK d \in Days : \E start, end \in HoursOf(d) : \E j \in Projects \cup {NoProject} :
           clock' = [op |-> "ADD", day |-> d, start |-> start, end |-> end, project |-> j]
    BY DEF AddDay
  <2> QED BY <2>1 DEF ClockSound, Places
<1>3. \A d \in Days : DeskSound(d)' /\ CorrectionSound(d)'
  BY <1>1, SameDesk DEF AttendanceInv, RowsLeft
<1> QED BY <1>1, <1>2, <1>3, QuietStep DEF AttendanceInv, RowsTyped

\* A step at one desk.
LEMMA AtOneDesk ==
    ASSUME AttendanceInv, NEW d \in Days, RowsLeft, now' = now, clock' = clock \/ clock' = Idle,
           NEW c, desk' = [desk EXCEPT ![d] = c],
           DeskSound(d)', CorrectionSound(d)', c # Idle => OnDay(d) # {}
    PROVE  AttendanceInv'
<1>1. ClockSound'
  BY SameClock DEF ClockSound, AttendanceInv, RowsLeft
<1>2. DOMAIN desk = Days /\ DOMAIN desk' = Days
  BY DEF AttendanceInv, RowsTyped
<1>3. \A e \in Days \ {d} : desk'[e] = desk[e]
  BY <1>2
<1>4. \A e \in Days : DeskSound(e)' /\ CorrectionSound(e)'
  BY <1>3, SameDesk DEF AttendanceInv, RowsLeft
<1>5. \A e \in Days : desk'[e] = desk[e] \/ OnDay(e) # {} \/ (e = d /\ c = Idle)
  BY <1>3
<1>6. OnDay(d) # {} \/ desk[d] = Idle
  BY DEF AttendanceInv, DaysAreWorked, HasSome
<1>7. \A e \in Days : desk'[e] = desk[e] \/ OnDay(e) # {}
  BY <1>2, <1>5, <1>6
<1> QED BY <1>1, <1>2, <1>4, <1>7, QuietStep DEF AttendanceInv, RowsTyped

\* The sweep takes up a day that has sessions and no row yet.
LEMMA FormDayKeeps == ASSUME AttendanceInv, NEW d \in Days, FormDay(d) PROVE AttendanceInv'
<1>1. RowsLeft /\ now' = now /\ clock' = clock
  BY DEF FormDay, RowsLeft
<1>2. desk' = [desk EXCEPT ![d] = [op |-> "FORM"]] /\ day[d] # "NONE"
  BY DEF FormDay, Formable
<1>3. desk'[d] = [op |-> "FORM"]
  BY <1>2 DEF AttendanceInv, RowsTyped
<1>4. DeskSound(d)' /\ CorrectionSound(d)'
  BY <1>3 DEF DeskSound, CorrectionSound, Corrects
<1>5. OnDay(d) # {}
  BY <1>2 DEF AttendanceInv, DaysAreWorked, HasSome
<1> QED BY <1>1, <1>2, <1>4, <1>5, AtOneDesk

\* What routing reads are the closed sessions of the day that are on no slice.
LEMMA CopiesAreSound ==
    ASSUME AttendanceInv, NEW d \in Days, NEW ss \in Seq(SessionRow), NEW k \in DOMAIN Copies(ss, d)
    PROVE  /\ k \in DOMAIN ss /\ DayOf(ss[k].in) = d /\ ~ IsOpen(ss[k]) /\ ss[k].req = 0
           /\ Copies(ss, d)[k].out = ss[k].out /\ Copies(ss, d)[k].by = ss[k].by
           /\ ss[k] \in SessionRow
           /\ Copies(ss, d)[k].out \in Nat /\ Copies(ss, d)[k].by \in Bys
           /\ Copies(ss, d)[k].to \in Anyone
<1>1. k \in DOMAIN ss /\ DayOf(ss[k].in) = d /\ ~ IsOpen(ss[k]) /\ ss[k].req = 0
  BY DEF Copies, ToRoute
<1>2. ss[k] \in SessionRow
  BY <1>1
<1>3. Copies(ss, d)[k] = [out |-> ss[k].out, by |-> ss[k].by, to |-> Addressee(ss[k])]
  BY DEF Copies
<1>4. Addressee(ss[k]) \in Anyone
  BY <1>2, RowFields DEF Addressee, Anyone, Places, AttendanceInv, RowsTyped
<1>5. ss[k].out \in Nat /\ ss[k].by \in Bys
  BY <1>1, <1>2, RowFields DEF IsOpen, Times
<1> QED BY <1>1, <1>2, <1>3, <1>4, <1>5

\* Routing reads the sessions it will save (route_day).
LEMMA RouteReadsKeeps == ASSUME AttendanceInv, NEW d \in Days, RouteReads(d) PROVE AttendanceInv'
<1>1. RowsLeft /\ now' = now /\ clock' = clock
  BY DEF RouteReads, RowsLeft
<1>2. desk' = [desk EXCEPT ![d] = [op |-> "ROUTE", copies |-> Copies(sessions, d)]] /\ desk[d] # Idle
  BY DEF RouteReads
<1>3. desk'[d] = [op |-> "ROUTE", copies |-> Copies(sessions, d)]
  BY <1>2 DEF AttendanceInv, RowsTyped
<1>4. \A k \in DOMAIN Copies(sessions, d) :
         /\ k \in OnDay(d) /\ ~ IsOpen(sessions[k]) /\ Copies(sessions, d)[k].out \in Nat
         /\ Copies(sessions, d)[k].by \in Bys /\ Copies(sessions, d)[k].to \in Anyone
  <2> TAKE k \in DOMAIN Copies(sessions, d)
  <2> sessions \in Seq(SessionRow)
    BY DEF AttendanceInv, RowsTyped
  <2> QED BY CopiesAreSound DEF OnDay
<1>5. OnDay(d)' = OnDay(d)
  BY <1>1 DEF OnDay, RowsLeft
<1>6. DeskSound(d)' /\ CorrectionSound(d)'
  BY <1>1, <1>3, <1>4, <1>5 DEF DeskSound, CorrectionSound, Corrects, RowsLeft, IsOpen
<1>7. OnDay(d) # {}
  BY <1>2 DEF AttendanceInv, DaysAreWorked, HasSome
<1> QED BY <1>1, <1>2, <1>6, <1>7, AtOneDesk

\* A clocking that fails leaves no row.
LEMMA ClockFailsKeeps == AttendanceInv /\ ClockFails => AttendanceInv'
<1> SUFFICES ASSUME AttendanceInv, ClockFails PROVE AttendanceInv'
  OBVIOUS
<1>1. RowsLeft /\ now' = now /\ desk' = desk /\ clock' = Idle
  BY DEF ClockFails, RowsLeft
<1>2. ClockSound'
  BY <1>1 DEF ClockSound
<1>3. \A d \in Days : DeskSound(d)' /\ CorrectionSound(d)'
  BY <1>1, SameDesk DEF AttendanceInv, RowsLeft
<1> QED BY <1>1, <1>2, <1>3, QuietStep DEF AttendanceInv, RowsTyped

\* A desk given up leaves no row.
LEMMA DeskIsFreed ==
    ASSUME AttendanceInv, NEW d \in Days, RowsLeft, now' = now, clock' = clock,
           desk' = [desk EXCEPT ![d] = Idle]
    PROVE  AttendanceInv'
<1>1. desk'[d] = Idle
  BY DEF AttendanceInv, RowsTyped
<1>2. DeskSound(d)' /\ CorrectionSound(d)'
  BY <1>1 DEF DeskSound, CorrectionSound, Corrects
<1> QED BY <1>2, AtOneDesk

\* A desk that fails leaves no row.
LEMMA DeskFailsKeeps == ASSUME AttendanceInv, NEW d \in Days, DeskFails(d) PROVE AttendanceInv'
<1>1. RowsLeft /\ now' = now /\ clock' = clock /\ desk' = [desk EXCEPT ![d] = Idle]
  BY DEF DeskFails, RowsLeft
<1> QED BY <1>1, DeskIsFreed

\* A desk aborted for a deadlock leaves no row.
LEMMA DeadlockKeeps == ASSUME AttendanceInv, NEW d \in Days, Deadlock(d) PROVE AttendanceInv'
<1>1. RowsLeft /\ now' = now
  BY DEF Deadlock, RowsLeft
<1>2. CASE clock' = clock /\ desk' = [desk EXCEPT ![d] = Idle]
  BY <1>1, <1>2, DeskIsFreed
<1>3. CASE clock' = Idle /\ desk' = desk
  <2>1. ClockSound'
    BY <1>3 DEF ClockSound
  <2>2. \A e \in Days : DeskSound(e)' /\ CorrectionSound(e)'
    BY <1>1, <1>3, SameDesk DEF AttendanceInv, RowsLeft
  <2> QED BY <1>1, <1>3, <2>1, <2>2, QuietStep DEF AttendanceInv, RowsTyped
<1> QED BY <1>2, <1>3 DEF Deadlock

\* An hour passes over every row.
LEMMA HourKeeps == AttendanceInv /\ Hour => AttendanceInv'
<1> SUFFICES ASSUME AttendanceInv, Hour PROVE AttendanceInv'
  OBVIOUS
<1>1. RowsLeft /\ now' = now + 1 /\ desk' = desk /\ clock' = clock
  BY DEF Hour, RowsLeft
<1>2. ClockSound'
  BY <1>1, SameClock DEF AttendanceInv, RowsLeft
<1>3. \A d \in Days : DeskSound(d)' /\ CorrectionSound(d)'
  BY <1>1, SameDesk DEF AttendanceInv, RowsLeft
<1> QED BY <1>1, <1>2, <1>3, QuietStep DEF AttendanceInv, RowsTyped

\* A correction that passes _check_span states hours free of the other sessions it read.
LEMMA CorrectKeeps == ASSUME AttendanceInv, NEW d \in Days, Correct(d) PROVE AttendanceInv'
<1>1. RowsLeft /\ now' = now /\ clock' = clock
  BY DEF Correct, RowsLeft
<1>2. PICK k \in OnDay(d) :
        /\ sessions[k].req # 0
        /\ \E c \in Statements(k, d) :
              /\ {c.from, c.to} \subseteq HoursOf(d) /\ c.from <= c.to
              /\ SpanFree(c.from, c.to, Except(c))
              /\ desk' = [desk EXCEPT ![d] = c]
  BY DEF Correct
<1>3. PICK c \in Statements(k, d) :
              /\ {c.from, c.to} \subseteq HoursOf(d) /\ c.from <= c.to
              /\ SpanFree(c.from, c.to, Except(c))
              /\ desk' = [desk EXCEPT ![d] = c]
  BY <1>2
<1> DEFINE s == sessions[k]
           members == {l \in DOMAIN sessions : sessions[l].req = s.req}
           copies == [l \in members |-> sessions[l]]
<1>4. /\ c.session = k /\ c.copies = copies
      /\ c.op \in {"EDIT", "ADD"}
      /\ c.start \in HoursOf(d) \cup {NoTime} /\ c.end \in HoursOf(d) \cup {NoTime}
      /\ c.op = "ADD" => c.start = c.from /\ c.end = c.to
      /\ c.op = "EDIT" => /\ c.from = IF c.start # NoTime THEN c.start ELSE EffIn(s)
                          /\ c.to = IF c.end # NoTime THEN c.end ELSE EffOut(s)
  <2> DEFINE from(start) == IF start # NoTime THEN start ELSE EffIn(s)
             to(end) == IF end # NoTime THEN end ELSE EffOut(s)
             say(op, start, end, ff, tt) ==
                [op |-> op, session |-> k, start |-> start, end |-> end, from |-> ff, to |-> tt,
                 copies |-> copies]
             edits == (HoursOf(d) \cup {NoTime}) \X (HoursOf(d) \cup {NoTime}) \ {<<NoTime, NoTime>>}
  <2>1. c \in {say("EDIT", t[1], t[2], from(t[1]), to(t[2])) : t \in edits}
             \cup {say("ADD", t[1], t[2], t[1], t[2]) : t \in HoursOf(d) \X HoursOf(d)}
    BY Zenon DEF Statements
  <2> HIDE DEF copies
  <2>2. CASE c \in {say("EDIT", t[1], t[2], from(t[1]), to(t[2])) : t \in edits}
    <3> HIDE DEF from, to
    <3>1. PICK t \in edits : c = say("EDIT", t[1], t[2], from(t[1]), to(t[2]))
      BY <2>2
    <3>2. t[1] \in HoursOf(d) \cup {NoTime} /\ t[2] \in HoursOf(d) \cup {NoTime}
      OBVIOUS
    <3> QED BY <3>1, <3>2 DEF from, to
  <2>3. CASE c \in {say("ADD", t[1], t[2], t[1], t[2]) : t \in HoursOf(d) \X HoursOf(d)}
    <3>1. PICK t \in HoursOf(d) \X HoursOf(d) : c = say("ADD", t[1], t[2], t[1], t[2])
      BY <2>3
    <3> QED BY <3>1
  <2> QED BY <2>1, <2>2, <2>3
<1> HIDE DEF copies
<1>5. c.start \in Times /\ c.end \in Times
  BY <1>4, HourIsOfItsDay DEF Times
<1>6. k \in DOMAIN sessions /\ DayOf(s.in) = d
  BY DEF OnDay
<1>7. ASSUME NEW l \in DOMAIN copies
      PROVE  /\ l \in OnDay(d) /\ copies[l] = sessions[l] /\ sessions[l].out \in Nat
             /\ sessions[l].by \in Bys /\ l \in DOMAIN sessions /\ ~ IsOpen(sessions[l])
             /\ sessions[l] \in SessionRow
  <2>1. l \in DOMAIN sessions /\ sessions[l].req = s.req /\ copies[l] = sessions[l]
    BY DEF copies
  <2>2. DayOf(sessions[l].in) = DayOf(s.in)
    BY <1>2, <1>6, <2>1 DEF AttendanceInv, SliceOfItsDay
  <2>3. ~ IsOpen(sessions[l])
    BY <1>2, <2>1 DEF AttendanceInv, OpenIsPlain
  <2>4. sessions[l] \in SessionRow
    BY <2>1, Rows DEF AttendanceInv
  <2>5. sessions[l].out \in Nat /\ sessions[l].by \in Bys
    BY <2>3, <2>4, RowFields DEF IsOpen, Times
  <2> QED BY <1>6, <2>1, <2>2, <2>3, <2>4, <2>5 DEF OnDay
<1>8. desk'[d] = c
  BY <1>3 DEF AttendanceInv, RowsTyped
<1>9. OnDay(d)' = OnDay(d)
  BY <1>1 DEF OnDay, RowsLeft
<1>10. DeskSound(d)'
  BY <1>1, <1>4, <1>7, <1>8, <1>9 DEF DeskSound, RowsLeft, IsOpen
<1>11. \A l \in DOMAIN copies : l \notin Except(c) =>
          c.from >= EffOut(copies[l]) \/ c.to <= EffIn(copies[l])
  <2> TAKE l \in DOMAIN copies
  <2>1. EffOut(sessions[l]) # NoTime
    BY <1>7 DEF EffOut, NoTime
  <2> QED BY <1>3, <1>7, <2>1 DEF SpanFree
<1>12. EffOut(s) \in Int /\ EffIn(s) \in Int
  <2>1. s \in SessionRow
    BY <1>6, Rows DEF AttendanceInv
  <2> QED BY <2>1 DEF SessionRow, EffOut, EffIn, Times, NoTime
<1>13. c.op = "EDIT" => /\ c.from = IF c.start # NoTime THEN c.start ELSE EffIn(s)
                        /\ IF c.end # NoTime THEN c.to = c.end ELSE EffOut(s) <= c.to
  BY <1>4, <1>12
<1>14. sessions' = sessions
  BY <1>1 DEF RowsLeft
<1>15. CorrectionSound(d)'
  <2>1. \A l \in DOMAIN copies : /\ EffIn(copies[l]) = EffIn(sessions[l])
                                 /\ copies[l].fixOut = sessions[l].fixOut
    BY <1>7
  <2>2. k \in OnDay(d)' /\ sessions'[k] = s
    BY <1>9, <1>14
  <2> QED BY <1>2, <1>3, <1>4, <1>5, <1>8, <1>11, <1>13, <1>14, <2>1, <2>2 DEF CorrectionSound, EffIn, EffOut, Except
<1>16. c # Idle => OnDay(d) # {}
  OBVIOUS
<1> QED BY <1>1, <1>3, <1>10, <1>15, <1>16, AtOneDesk

-----------------------------------------------------------------------------
(* The steps that change rows.                                             *)

\* The sessions with one appended.
LEMMA RowAppended ==
    ASSUME RowsTyped, NEW ss \in Seq(SessionRow), Len(ss) = Len(sessions), NEW new \in SessionRow,
           sessions' = Append(ss, new)
    PROVE  /\ sessions' \in Seq(SessionRow)
           /\ Len(sessions) + 1 \notin DOMAIN sessions
           /\ DOMAIN sessions' = DOMAIN sessions \cup {Len(sessions) + 1}
           /\ \A k \in DOMAIN sessions : sessions'[k] = ss[k]
           /\ sessions'[Len(sessions) + 1] = new
<1>1. /\ sessions' \in Seq(SessionRow) /\ Len(sessions') = Len(ss) + 1
      /\ \A k \in 1 .. Len(ss) : sessions'[k] = ss[k]
      /\ sessions'[Len(ss) + 1] = new
  BY AppendProperties
<1>2. DOMAIN sessions' = 1 .. Len(ss) + 1
  BY <1>1, LenProperties
<1>3. Len(sessions) \in Nat /\ DOMAIN sessions = 1 .. Len(sessions)
  BY Rows
<1> QED BY <1>1, <1>2, <1>3

\* The invariant from its parts, for a step that saves rows.
LEMMA RowStep ==
    ASSUME AttendanceInv, RowsTyped', OpenIsPlain', OneOpen', SliceOfItsDay', RowsFollow,
           \A d \in Days : HasSome(d)' => HasSome(d) \/ OnDay(d)' # {},
           ClockSound', \A d \in Days : DeskSound(d)' /\ CorrectionSound(d)' /\ DayTells(d)',
           NoHourTwiceUnlessBlind'
    PROVE  AttendanceInv'
<1>1. DaysAreWorked'
  BY WorkedStays DEF AttendanceInv
<1>2. (DayTellsItsSlices <=> \A d \in Days : DayTells(d))'
  BY AllTell, PTL
<1> QED BY <1>1, <1>2 DEF AttendanceInv

\* No row is new and none is put on another slice: an open one may be closed, and a closed
\* one be closed earlier.
LEMMA EndsChange ==
    ASSUME AttendanceInv, sessions' \in Seq(SessionRow), DOMAIN sessions' = DOMAIN sessions,
           requests' = requests, day' = day, manager' = manager, now' = now, desk' = desk, ClockSound',
           \A k \in DOMAIN sessions :
              /\ sessions'[k].in = sessions[k].in /\ sessions'[k].req = sessions[k].req
              /\ sessions'[k].blind = sessions[k].blind
              /\ Stays(sessions[k], sessions'[k])
              /\ IsOpen(sessions'[k]) => sessions'[k] = sessions[k]
    PROVE  AttendanceInv'
<1>1. RowsTyped'
  BY DEF AttendanceInv, RowsTyped
<1>2. RowsFollow
  BY DEF RowsFollow, Follows
<1>3. OpenIsPlain' /\ OneOpen'
  BY DEF AttendanceInv, OpenIsPlain, OneOpen
<1>4. SliceOfItsDay'
  BY DEF AttendanceInv, SliceOfItsDay
<1>5. \A d \in Days : HasSome(d)' => HasSome(d)
  BY DEF HasSome
<1>6. \A d \in Days : OnDay(d)' = OnDay(d)
  BY DEF OnDay
<1>7. ASSUME NEW d \in Days PROVE DeskSound(d)' /\ CorrectionSound(d)' /\ DayTells(d)'
  <2>1. DeskSound(d) /\ CorrectionSound(d) /\ OpenIsPlain /\ DayTells(d) /\ RowsTyped
    BY AllTell DEF AttendanceInv
  <2>2. DayStays(d)
    BY DEF DayStays, OnDay
  <2>3. DeskSound(d)' /\ CorrectionSound(d)'
    BY <1>1, <1>2, <2>1, <2>2, DeskKept
  <2>4. \A k \in OnDay(d) : sessions'[k].req = sessions[k].req
    BY DEF OnDay
  <2>5. DayTells(d)'
    BY <1>6, <2>1, <2>4, DayKept
  <2> QED BY <2>3, <2>5
<1>8. \A k \in DOMAIN sessions : Kept(k)
  <2> TAKE k \in DOMAIN sessions
  <2>1. sessions[k] \in SessionRow /\ sessions'[k] \in SessionRow
    BY <1>1, Rows, NextRows DEF AttendanceInv
  <2> QED BY <2>1, StaysShrinks DEF Kept
<1>9. NoHourTwiceUnlessBlind'
  <2>1. 0 \notin DOMAIN sessions'
    BY <1>1, NextRows
  <2> QED BY <1>1, <1>8, <2>1, PairsStay DEF AttendanceInv
<1> QED BY <1>1, <1>2, <1>3, <1>4, <1>5, <1>7, <1>9, RowStep

\* A row that is closed, or closed earlier.
Closed(s, at, by) == [s EXCEPT !.out = at, !.by = by]
\* What ending a session keeps.
LEMMA Closing ==
    ASSUME NEW s \in SessionRow, NEW at \in Nat, NEW by \in Bys, IsOpen(s) \/ at < s.out
    PROVE  /\ Closed(s, at, by) \in SessionRow
           /\ Closed(s, at, by).in = s.in /\ Closed(s, at, by).req = s.req
           /\ Closed(s, at, by).blind = s.blind
           /\ Closed(s, at, by).out = at /\ Closed(s, at, by).by = by
           /\ Closed(s, at, by).fixIn = s.fixIn /\ Closed(s, at, by).fixOut = s.fixOut
           /\ Stays(s, Closed(s, at, by)) /\ ~ IsOpen(Closed(s, at, by))
<1> DEFINE t == Closed(s, at, by)
<1>1. t \in SessionRow
  BY DEF SessionRow, Times, Closed
<1>2. /\ t.in = s.in /\ t.req = s.req /\ t.blind = s.blind
      /\ t.out = at /\ t.by = by /\ t.fixIn = s.fixIn /\ t.fixOut = s.fixOut
  BY DEF SessionRow, Closed
<1> HIDE DEF t
<1>3. Stays(s, t) /\ ~ IsOpen(t)
  BY <1>2, RowFields DEF Stays, IsOpen, NoTime, Times
<1> QED BY <1>1, <1>2, <1>3 DEF t

\* Clocking out ends a session, or moves the end a clock-in or a sweep gave it.
LEMMA ClockOutCommitsKeeps == AttendanceInv /\ ClockOutCommits => AttendanceInv'
<1> SUFFICES ASSUME AttendanceInv, ClockOutCommits PROVE AttendanceInv'
  OBVIOUS
<1>1. /\ requests' = requests /\ day' = day /\ manager' = manager /\ now' = now /\ desk' = desk
      /\ clock' = Idle
  BY DEF ClockOutCommits
<1> DEFINE e == clock.session
           t == Closed(sessions[e], clock.at, "PERSON")
<1>2. clock # Idle /\ clock.op = "OUT"
  BY DEF ClockOutCommits
<1>3. /\ e \in DOMAIN sessions /\ clock.at \in Nat
      /\ IsOpen(sessions[e]) \/ clock.at < sessions[e].out
  BY <1>2 DEF AttendanceInv, ClockSound
<1>4. sessions' = [sessions EXCEPT ![e] = t]
  BY <1>3, Rows DEF ClockOutCommits, AttendanceInv, SessionRow, Closed
<1>5. sessions[e] \in SessionRow /\ Len(sessions) \in Nat /\ DOMAIN sessions = 1 .. Len(sessions)
      /\ sessions \in Seq(SessionRow)
  BY <1>3, Rows DEF AttendanceInv, RowsTyped
<1>6. "PERSON" \in Bys
  BY DEF Bys
<1>7. /\ t \in SessionRow /\ t.in = sessions[e].in /\ t.req = sessions[e].req
      /\ t.blind = sessions[e].blind /\ Stays(sessions[e], t) /\ ~ IsOpen(t)
  BY <1>3, <1>5, <1>6, Closing
<1> HIDE DEF t, e
<1>8. sessions' \in Seq(SessionRow) /\ DOMAIN sessions' = DOMAIN sessions
      /\ \A k \in DOMAIN sessions : sessions'[k] = IF k = e THEN t ELSE sessions[k]
  BY <1>3, <1>4, <1>5, <1>7, ExceptSeq
<1>9. \A k \in DOMAIN sessions :
              /\ sessions'[k].in = sessions[k].in /\ sessions'[k].req = sessions[k].req
              /\ sessions'[k].blind = sessions[k].blind
              /\ Stays(sessions[k], sessions'[k])
              /\ IsOpen(sessions'[k]) => sessions'[k] = sessions[k]
  <2> TAKE k \in DOMAIN sessions
  <2>1. CASE k = e
    BY <1>7, <1>8, <2>1
  <2>2. CASE k # e
    <3>1. sessions'[k] = sessions[k] /\ sessions[k] \in SessionRow
      BY <1>8, <2>2, Rows DEF AttendanceInv
    <3> QED BY <3>1, SameStays
  <2> QED BY <2>1, <2>2
<1>10. ClockSound'
  BY <1>1 DEF ClockSound
<1> QED BY <1>1, <1>8, <1>9, <1>10, EndsChange

\* The sweep ends what is still open (close_stale_sessions).
LEMMA CloseStaleKeeps == AttendanceInv /\ CloseStale => AttendanceInv'
<1> SUFFICES ASSUME AttendanceInv, CloseStale PROVE AttendanceInv'
  OBVIOUS
<1>1. /\ requests' = requests /\ day' = day /\ manager' = manager /\ now' = now /\ desk' = desk
      /\ clock' = clock
  BY Zenon DEF CloseStale
<1>2. /\ Len(sessions) \in Nat /\ DOMAIN sessions = 1 .. Len(sessions)
      /\ \A k \in DOMAIN sessions : sessions[k] \in SessionRow
  BY Rows DEF AttendanceInv
<1> DEFINE Stale(k) == IsOpen(sessions[k]) /\ Cutoff(sessions[k]) <= now
           t(k) == Closed(sessions[k], Cutoff(sessions[k]), "AUTO")
<1>3. sessions' = [k \in DOMAIN sessions |-> IF Stale(k) THEN t(k) ELSE sessions[k]]
  BY Zenon DEF CloseStale, Closed
<1>4. ASSUME NEW k \in DOMAIN sessions, Stale(k)
      PROVE  /\ t(k) \in SessionRow /\ t(k).in = sessions[k].in /\ t(k).req = sessions[k].req
             /\ t(k).blind = sessions[k].blind /\ Stays(sessions[k], t(k)) /\ ~ IsOpen(t(k))
  <2>1. Cutoff(sessions[k]) \in Nat
    <3>1. sessions[k].in \in Nat
      BY <1>2, RowFields
    <3> QED BY <3>1, DayIsCounted, AttendanceAssumption DEF Cutoff
  <2>2. "AUTO" \in Bys
    BY DEF Bys
  <2> QED BY <1>2, <1>4, <2>1, <2>2, Closing
<1> HIDE DEF t, Stale
<1>5. sessions' \in [1 .. Len(sessions) -> SessionRow]
  BY <1>2, <1>3, <1>4
<1>6. sessions' \in Seq(SessionRow) /\ DOMAIN sessions' = DOMAIN sessions
  BY <1>2, <1>3, <1>5, SequenceOfAFunction
<1>7. \A k \in DOMAIN sessions :
              /\ sessions'[k].in = sessions[k].in /\ sessions'[k].req = sessions[k].req
              /\ sessions'[k].blind = sessions[k].blind
              /\ Stays(sessions[k], sessions'[k])
              /\ IsOpen(sessions'[k]) => sessions'[k] = sessions[k]
  <2> TAKE k \in DOMAIN sessions
  <2>1. CASE Stale(k)
    BY <1>3, <1>4, <2>1
  <2>2. CASE ~ Stale(k)
    BY <1>2, <1>3, <2>2, SameStays
  <2> QED BY <2>1, <2>2
<1>8. ClockSound'
  <2>1. ASSUME clock # Idle, clock.op = "OUT"
        PROVE  clock.session \in DOMAIN sessions /\ ~ Stale(clock.session)
    <3>1. clock.session \in DOMAIN sessions
      BY <2>1 DEF AttendanceInv, ClockSound
    <3>2. PICK k \in DOMAIN sessions \ {clock.session} : IsOpen(sessions[k])
      <4>1. \E k \in DOMAIN sessions \ RowHeld : IsOpen(sessions[k])
        BY Zenon DEF CloseStale
      <4> QED BY <2>1, <4>1 DEF RowHeld
    <3>3. ~ IsOpen(sessions[clock.session])
      BY <3>1, <3>2 DEF AttendanceInv, OneOpen
    <3> QED BY <3>1, <3>3 DEF Stale
  <2>2. clock # Idle /\ clock.op = "OUT" =>
           clock.session \in DOMAIN sessions' /\ sessions'[clock.session] = sessions[clock.session]
    BY <1>3, <1>6, <2>1
  <2>3. \A r : Decided(r)' <=> Decided(r)
    BY <1>1 DEF Decided, Waiting
  <2> QED BY <1>1, <2>2, <2>3, ClockKept DEF AttendanceInv
<1> QED BY <1>1, <1>6, <1>7, <1>8, EndsChange

\* An answer closes a slice, and the day says what its slices say (refresh_status).
LEMMA DecideKeeps ==
    ASSUME AttendanceInv, NEW d \in Days, NEW who, Decide(d, who) PROVE AttendanceInv'
<1> DEFINE mine == {r \in DOMAIN requests : /\ requests[r].day = d /\ requests[r].to = who
                                            /\ Waiting(r)}
<1>1. /\ sessions' = sessions /\ now' = now /\ manager' = manager /\ desk' = desk
      /\ mine # {} /\ Refresh(d)
  BY Zenon DEF Decide
<1>2. clock' = IF \E k \in RowHeld : sessions[k].req \in mine
               THEN [clock EXCEPT !.overtaken = TRUE] ELSE clock
  BY Zenon DEF Decide
<1>3. PICK verdict \in {"APPROVED", "REJECTED"} :
         requests' = [r \in DOMAIN requests |->
                    IF r \in mine THEN [requests[r] EXCEPT !.status = verdict, !.at = now]
                                  ELSE requests[r]]
  BY Zenon DEF Decide
<1>4. /\ Len(requests) \in Nat /\ DOMAIN requests = 1 .. Len(requests)
      /\ \A r \in DOMAIN requests : requests[r] \in RequestRow
  BY Rows DEF AttendanceInv
<1>5. \A r \in mine : r \in DOMAIN requests /\ requests[r].day = d /\ requests[r].status = "PENDING"
  BY DEF Waiting
<1> HIDE DEF mine
<1>6. verdict \in Answers /\ verdict # "PENDING" /\ now \in Int
  BY DEF Answers, AttendanceInv, RowsTyped
<1>7. ASSUME NEW r \in DOMAIN requests
      PROVE  /\ requests'[r] \in RequestRow /\ requests'[r].day = requests[r].day
             /\ r \notin mine => requests'[r] = requests[r]
  <2>1. CASE r \in mine
    <3>1. requests'[r] = [requests[r] EXCEPT !.status = verdict, !.at = now]
      BY <1>3, <2>1
    <3> QED BY <1>4, <1>6, <2>1, <3>1 DEF RequestRow
  <2>2. CASE r \notin mine
    BY <1>3, <1>4, <2>2
  <2> QED BY <2>1, <2>2
<1>8. requests' \in [1 .. Len(requests) -> RequestRow] /\ DOMAIN requests' = DOMAIN requests
  BY <1>3, <1>4, <1>7
<1>9. requests' \in Seq(RequestRow)
  BY <1>4, <1>8, SequenceOfAFunction
<1>10. DOMAIN day' = DOMAIN day /\ \A e \in Days \ {d} : day'[e] = day[e]
  BY <1>1 DEF Refresh, AttendanceInv, RowsTyped
<1>11. RowsTyped'
  BY <1>1, <1>9, <1>10 DEF AttendanceInv, RowsTyped
<1>12. RowsFollow
  BY <1>1, SameRow DEF RowsFollow
<1>13. OpenIsPlain' /\ OneOpen' /\ NoHourTwiceUnlessBlind'
  BY <1>1 DEF AttendanceInv, OpenIsPlain, OneOpen, IsOpen, NoHourTwiceUnlessBlind, Apart, EffIn, EffOut
<1>14. SliceOfItsDay'
  BY <1>1, <1>7, <1>8 DEF AttendanceInv, SliceOfItsDay
<1>15. \A e \in Days : OnDay(e)' = OnDay(e)
  BY <1>1 DEF OnDay
<1>16. OnDay(d) # {}
  <2>1. PICK r \in mine : TRUE
    BY <1>1
  <2> QED BY <1>5, <2>1 DEF AttendanceInv, DaysAreWorked, HasSome
<1>17. \A e \in Days : HasSome(e)' => HasSome(e) \/ OnDay(e)' # {}
  <2> TAKE e \in Days
  <2>1. CASE e = d
    BY <1>15, <1>16, <2>1
  <2>2. CASE e # d
    BY <1>1, <1>7, <1>8, <1>10, <2>2 DEF HasSome
  <2> QED BY <2>1, <2>2
<1>18. ASSUME NEW e \in Days PROVE DeskSound(e)' /\ CorrectionSound(e)'
  BY <1>1, SameDesk DEF AttendanceInv
<1>19. ASSUME NEW e \in Days PROVE DayTells(e)'
  <2>1. CASE e = d
    <3>1. OnDay(d)' # {}
      BY <1>15, <1>16
    <3>2. \A k \in OnDay(d)' : sessions'[k].req # 0 => requests'[sessions'[k].req].status \in Answers
      <4> SUFFICES ASSUME NEW k \in OnDay(d), sessions[k].req # 0
                   PROVE  requests'[sessions[k].req].status \in Answers
        BY <1>1, <1>15
      <4>1. sessions[k].req \in DOMAIN requests
        BY DEF AttendanceInv, SliceOfItsDay, OnDay
      <4> QED BY <1>7, <4>1 DEF RequestRow
    <3>3. DOMAIN day = Days
      BY DEF AttendanceInv, RowsTyped
    <3> QED BY <1>1, <2>1, <3>1, <3>2, <3>3, DayRefreshed
  <2>2. CASE e # d
    <3>1. \A k \in OnDay(e) : sessions[k].req # 0 =>
             requests'[sessions[k].req].status = requests[sessions[k].req].status
      <4> SUFFICES ASSUME NEW k \in OnDay(e), sessions[k].req # 0
                   PROVE  requests'[sessions[k].req].status = requests[sessions[k].req].status
        OBVIOUS
      <4>1. sessions[k].req \in DOMAIN requests /\ requests[sessions[k].req].day = e
        BY DEF AttendanceInv, SliceOfItsDay, OnDay
      <4> QED BY <1>5, <1>7, <2>2, <4>1
    <3>2. DayTells(e)
      BY AllTell DEF AttendanceInv
    <3> QED BY <1>1, <1>10, <1>15, <2>2, <3>1, <3>2, DayKept
  <2> QED BY <2>1, <2>2
<1>20. ClockSound'
  <2>1. CASE ~ \E k \in RowHeld : sessions[k].req \in mine
    <3>1. clock' = clock
      BY <1>2, <2>1
    <3>2. ASSUME clock # Idle, clock.op = "OUT"
          PROVE  Decided(sessions[clock.session].req)' => Decided(sessions[clock.session].req)
      <4> DEFINE r == sessions[clock.session].req
      <4>1. r \notin mine
        BY <2>1, <3>2 DEF RowHeld
      <4>2. clock.session \in DOMAIN sessions
        BY <3>2 DEF AttendanceInv, ClockSound
      <4>3. CASE r = 0
        BY <1>1, <3>1, <4>3 DEF Decided
      <4>4. CASE r # 0
        <5>1. r \in DOMAIN requests
          BY <4>2, <4>4 DEF AttendanceInv, SliceOfItsDay
        <5>2. requests'[r] = requests[r]
          BY <1>7, <4>1, <5>1
        <5> QED BY <1>1, <3>1, <5>2 DEF Decided, Waiting
      <4> QED BY <4>3, <4>4
    <3>3. clock # Idle /\ clock.op = "OUT" => clock.session \in DOMAIN sessions
      BY DEF AttendanceInv, ClockSound
    <3> QED BY <1>1, <3>1, <3>2, <3>3, ClockKept DEF AttendanceInv
  <2>2. CASE \E k \in RowHeld : sessions[k].req \in mine
    <3>1. clock # Idle /\ clock.op = "OUT" /\ clock' = [clock EXCEPT !.overtaken = TRUE]
      BY <1>2, <2>2 DEF RowHeld
    <3>2. /\ clock \in [op : {"OUT"}, session : DOMAIN sessions, at : Nat, overtaken : BOOLEAN]
          /\ sessions[clock.session].by # "PERSON"
          /\ IsOpen(sessions[clock.session]) \/ clock.at < sessions[clock.session].out
      BY <3>1 DEF AttendanceInv, ClockSound
    <3>3. /\ clock' \in [op : {"OUT"}, session : DOMAIN sessions, at : Nat, overtaken : BOOLEAN]
          /\ clock'.session = clock.session /\ clock'.at = clock.at /\ clock'.overtaken
      BY <3>1, <3>2
    <3> QED BY <1>1, <3>2, <3>3 DEF ClockSound, IsOpen
  <2> QED BY <2>1, <2>2
<1> QED BY <1>11, <1>12, <1>13, <1>14, <1>17, <1>18, <1>19, <1>20, RowStep

\* A change of manager hands the pending slices on, and answers none.
LEMMA ReassignKeeps ==
    ASSUME AttendanceInv, NEW j \in Projects, NEW m \in Managers \cup {Nobody}, Reassign(j, m)
    PROVE  AttendanceInv'
<1> DEFINE Turned(r) == /\ Waiting(r) /\ requests[r].to = manager[j] /\ m # Nobody
                        /\ \E k \in DOMAIN sessions : sessions[k].req = r /\ sessions[k].project = j
<1>1. /\ sessions' = sessions /\ now' = now /\ day' = day /\ clock' = clock /\ desk' = desk
      /\ manager' = [manager EXCEPT ![j] = m]
      /\ requests' = [r \in DOMAIN requests |->
                         IF Turned(r) THEN [requests[r] EXCEPT !.to = m] ELSE requests[r]]
  BY Zenon DEF Reassign
<1> HIDE DEF Turned
<1>2. /\ Len(requests) \in Nat /\ DOMAIN requests = 1 .. Len(requests)
      /\ \A r \in DOMAIN requests : requests[r] \in RequestRow
  BY Rows DEF AttendanceInv
<1>3. ASSUME NEW r \in DOMAIN requests
      PROVE  /\ requests'[r] \in RequestRow /\ requests'[r].day = requests[r].day
             /\ requests'[r].status = requests[r].status
  <2>1. CASE Turned(r)
    <3>1. requests'[r] = [requests[r] EXCEPT !.to = m]
      BY <1>1, <2>1
    <3> QED BY <1>2, <3>1 DEF RequestRow, Anyone
  <2>2. CASE ~ Turned(r)
    BY <1>1, <1>2, <2>2
  <2> QED BY <2>1, <2>2
<1>4. requests' \in [1 .. Len(requests) -> RequestRow] /\ DOMAIN requests' = DOMAIN requests
  BY <1>1, <1>2, <1>3
<1>5. requests' \in Seq(RequestRow)
  BY <1>2, <1>4, SequenceOfAFunction
<1>6. RowsTyped'
  BY <1>1, <1>5 DEF AttendanceInv, RowsTyped
<1>7. RowsFollow
  BY <1>1, SameRow DEF RowsFollow
<1>8. OpenIsPlain' /\ OneOpen' /\ NoHourTwiceUnlessBlind'
  BY <1>1 DEF AttendanceInv, OpenIsPlain, OneOpen, IsOpen, NoHourTwiceUnlessBlind, Apart, EffIn, EffOut
<1>9. SliceOfItsDay'
  BY <1>1, <1>3, <1>4 DEF AttendanceInv, SliceOfItsDay
<1>10. \A e \in Days : OnDay(e)' = OnDay(e)
  BY <1>1 DEF OnDay
<1>11. \A e \in Days : HasSome(e)' => HasSome(e)
  BY <1>1, <1>3, <1>4 DEF HasSome
<1>12. ASSUME NEW e \in Days PROVE DeskSound(e)' /\ CorrectionSound(e)'
  BY <1>1, SameDesk DEF AttendanceInv
<1>13. ASSUME NEW e \in Days PROVE DayTells(e)'
  <2>1. \A k \in OnDay(e) : sessions[k].req # 0 =>
             requests'[sessions[k].req].status = requests[sessions[k].req].status
    BY <1>3 DEF AttendanceInv, SliceOfItsDay, OnDay
  <2>2. DayTells(e)
    BY AllTell DEF AttendanceInv
  <2> QED BY <1>1, <1>10, <2>1, <2>2, DayKept
<1>14. ClockSound'
  <2>1. ASSUME clock # Idle, clock.op = "OUT"
        PROVE  /\ clock.session \in DOMAIN sessions
               /\ Decided(sessions[clock.session].req)' => Decided(sessions[clock.session].req)
    <3> DEFINE r == sessions[clock.session].req
    <3>1. clock.session \in DOMAIN sessions
      BY <2>1 DEF AttendanceInv, ClockSound
    <3>2. CASE r = 0
      BY <1>1, <3>1, <3>2 DEF Decided
    <3>3. CASE r # 0
      <4>1. r \in DOMAIN requests
        BY <3>1, <3>3 DEF AttendanceInv, SliceOfItsDay
      <4> QED BY <1>1, <1>3, <3>1, <4>1 DEF Decided, Waiting
    <3> QED BY <3>2, <3>3
  <2> QED BY <1>1, <2>1, ClockKept DEF AttendanceInv
<1> QED BY <1>6, <1>7, <1>8, <1>9, <1>11, <1>12, <1>13, <1>14, RowStep

\* A day that is routed, by the sweep or with a row that is added to it.
LEMMA RouteStep ==
    ASSUME AttendanceInv, NEW d \in Days, NEW ss \in Seq(SessionRow), NEW n, n \notin DOMAIN sessions,
           DOMAIN sessions \subseteq DOMAIN ss, DOMAIN ss \subseteq DOMAIN sessions \cup {n},
           \A k \in DOMAIN sessions : ss[k] = sessions[k],
           n \in DOMAIN ss =>
              /\ ss[n].out \in Nat /\ ss[n].req = 0 /\ DayOf(ss[n].in) = d
              /\ \A k \in DOMAIN sessions : k \in ss[n].blind \/ Apart(ss[n], sessions[k]),
           \E k \in DOMAIN ss : DayOf(ss[k].in) = d,
           NEW copies,
           \A k \in DOMAIN copies :
              /\ k \in DOMAIN ss /\ DayOf(ss[k].in) = d
              /\ copies[k].out \in Nat /\ copies[k].by \in Bys /\ copies[k].to \in Anyone
              /\ n \in DOMAIN ss => copies[k].out = ss[k].out,
           clock' = Idle \/ (clock' = clock /\ DOMAIN copies \cap RowHeld = {}),
           requests' = Slices(d, copies), sessions' = Saved(ss, requests', d, copies), Refresh(d),
           DOMAIN desk' = Days, desk'[d] = Idle, \A e \in Days \ {d} : desk'[e] = desk[e],
           now' = now, manager' = manager
    PROVE  AttendanceInv'
<1>1. RowsTyped /\ DOMAIN copies \subseteq DOMAIN ss
  BY DEF AttendanceInv
<1>2. /\ requests' \in Seq(RequestRow) /\ Len(requests) <= Len(requests')
      /\ \A r \in DOMAIN requests : requests'[r] = requests[r]
      /\ \A r \in DOMAIN requests' \ DOMAIN requests : requests'[r].day = d /\ requests'[r].status = "PENDING"
      /\ sessions' \in Seq(SessionRow) /\ Len(sessions') = Len(ss)
      /\ \A k \in DOMAIN ss \ DOMAIN copies : sessions'[k] = ss[k]
      /\ \A k \in DOMAIN copies : \E q \in DOMAIN requests' :
            /\ q \in Nat /\ q # 0 /\ requests'[q].day = d /\ requests'[q].status = "PENDING"
            /\ sessions'[k] = Put(ss[k], copies[k], q)
  BY <1>1, SavedRows
<1>3. DOMAIN day' = DOMAIN day /\ \A e \in Days \ {d} : day'[e] = day[e]
  BY DEF Refresh, AttendanceInv, RowsTyped
<1>4. RowsTyped'
  BY <1>2, <1>3 DEF AttendanceInv, RowsTyped
<1>5. DOMAIN sessions' = DOMAIN ss /\ DOMAIN requests \subseteq DOMAIN requests'
      /\ \A k \in DOMAIN ss : ss[k] \in SessionRow
  <2>1. DOMAIN ss = 1 .. Len(ss) /\ DOMAIN sessions' = 1 .. Len(sessions')
        /\ DOMAIN requests' = 1 .. Len(requests') /\ ss \in [1 .. Len(ss) -> SessionRow]
    BY <1>2, LenProperties
  <2>2. DOMAIN requests = 1 .. Len(requests) /\ Len(requests) \in Nat /\ Len(requests') \in Nat
    BY <1>1, <1>2, Rows, LenProperties
  <2>3. DOMAIN requests \subseteq DOMAIN requests'
    BY <1>2, <2>1, <2>2
  <2> QED BY <1>2, <2>1, <2>3
<1>6. ASSUME NEW k \in DOMAIN copies
      PROVE  /\ sessions'[k].in = ss[k].in /\ sessions'[k].out \in Nat /\ ~ IsOpen(sessions'[k])
             /\ sessions'[k].req \in DOMAIN requests' /\ sessions'[k].req # 0
             /\ requests'[sessions'[k].req].day = d
             /\ Follows(ss[k], sessions'[k])
             /\ copies[k].out = ss[k].out => Shrinks(ss[k], sessions'[k])
             /\ Shrinks(ss[k], sessions'[k]) \/ DOMAIN sessions \subseteq sessions'[k].blind
  <2>1. PICK q \in DOMAIN requests' :
            /\ q \in Nat /\ q # 0 /\ requests'[q].day = d /\ requests'[q].status = "PENDING"
            /\ sessions'[k] = Put(ss[k], copies[k], q)
    BY <1>2
  <2>2. ss[k] \in SessionRow
    BY <1>1, <1>5
  <2>3. sessions'[k].in = ss[k].in /\ sessions'[k].out = copies[k].out /\ sessions'[k].req = q
    <3>1. copies[k].out \in Nat /\ copies[k].by \in Bys
      OBVIOUS
    <3>2. /\ Put(ss[k], copies[k], q).in = ss[k].in /\ Put(ss[k], copies[k], q).out = copies[k].out
          /\ Put(ss[k], copies[k], q).req = q
      BY <2>1, <2>2, <3>1, PutMoves
    <3> QED BY <2>1, <3>2, Zenon
  <2>4. /\ Follows(ss[k], sessions'[k])
        /\ copies[k].out = ss[k].out => Shrinks(ss[k], sessions'[k])
        /\ Shrinks(ss[k], sessions'[k]) \/ DOMAIN sessions \subseteq sessions'[k].blind
    BY <1>1, <2>1, <2>2, PutFollows
  <2> QED BY <2>1, <2>3, <2>4 DEF IsOpen, NoTime
<1>7. RowsFollow
  <2> SUFFICES ASSUME NEW k \in DOMAIN sessions
               PROVE  k \in DOMAIN sessions' /\ Follows(sessions[k], sessions'[k])
    BY DEF RowsFollow
  <2>1. CASE k \in DOMAIN copies
    BY <1>5, <1>6, <2>1
  <2>2. CASE k \notin DOMAIN copies
    BY <1>2, <1>5, <2>2, SameRow
  <2> QED BY <2>1, <2>2
<1>8. \A k \in DOMAIN sessions' : IsOpen(sessions'[k]) =>
         k \in DOMAIN sessions /\ sessions'[k] = sessions[k]
  BY <1>2, <1>5, <1>6 DEF IsOpen, NoTime
<1>9. OpenIsPlain' /\ OneOpen'
  BY <1>8 DEF AttendanceInv, OpenIsPlain, OneOpen
<1>10. SliceOfItsDay'
  <2> SUFFICES ASSUME NEW k \in DOMAIN sessions', sessions'[k].req # 0
               PROVE  /\ sessions'[k].req \in DOMAIN requests'
                      /\ requests'[sessions'[k].req].day = DayOf(sessions'[k].in)
    BY DEF SliceOfItsDay, DayOf
  <2>1. CASE k \in DOMAIN copies
    BY <1>6, <2>1
  <2>2. CASE k \notin DOMAIN copies
    <3>1. sessions'[k] = ss[k] /\ k \in DOMAIN ss
      BY <1>2, <1>5, <2>2
    <3>2. k \in DOMAIN sessions
      BY <3>1
    <3>3. sessions'[k] = sessions[k]
      BY <3>1, <3>2
    <3>4. sessions[k].req \in DOMAIN requests /\ requests[sessions[k].req].day = DayOf(sessions[k].in)
      BY <3>2, <3>3 DEF AttendanceInv, SliceOfItsDay
    <3> QED BY <1>2, <1>5, <3>3, <3>4
  <2> QED BY <2>1, <2>2
<1>11. \A k \in DOMAIN ss : sessions'[k].in = ss[k].in
  BY <1>2, <1>6
<1>12. OnDay(d)' # {} /\ \A e \in Days \ {d} : OnDay(e)' = OnDay(e)
  <2>1. \A e : OnDay(e)' = {k \in DOMAIN ss : DayOf(ss[k].in) = e}
    BY <1>5, <1>11 DEF OnDay, DayOf
  <2>2. ASSUME NEW e \in Days \ {d} PROVE OnDay(e)' = OnDay(e)
    <3>1. \A k \in DOMAIN ss : DayOf(ss[k].in) = e =>
             k \in DOMAIN sessions /\ DayOf(sessions[k].in) = e
      OBVIOUS
    <3>2. \A k \in DOMAIN sessions : DayOf(sessions[k].in) = e =>
             k \in DOMAIN ss /\ DayOf(ss[k].in) = e
      OBVIOUS
    <3>3. OnDay(e)' = {k \in DOMAIN ss : DayOf(ss[k].in) = e}
      BY <2>1
    <3>4. OnDay(e) = {k \in DOMAIN sessions : DayOf(sessions[k].in) = e}
      BY DEF OnDay
    <3> QED BY ONLY <3>1, <3>2, <3>3, <3>4
  <2>3. OnDay(d)' # {}
    BY <2>1
  <2> QED BY <2>2, <2>3
<1>13. \A e \in Days : HasSome(e)' => HasSome(e) \/ OnDay(e)' # {}
  <2> TAKE e \in Days
  <2>1. CASE e = d
    BY <1>12, <2>1
  <2>2. CASE e # d
    BY <1>2, <1>3, <2>2 DEF HasSome
  <2> QED BY <2>1, <2>2
<1>14. ASSUME NEW e \in Days \ {d}, NEW k \in OnDay(e)
       PROVE  k \in DOMAIN sessions /\ k \notin DOMAIN copies /\ sessions'[k] = sessions[k]
  BY <1>2 DEF OnDay
<1>15. ASSUME NEW e \in Days PROVE DeskSound(e)' /\ CorrectionSound(e)'
  <2>1. CASE e = d
    BY <2>1 DEF DeskSound, CorrectionSound, Corrects
  <2>2. CASE e # d
    <3>1. DayStays(e)
      <4> SUFFICES ASSUME NEW k \in OnDay(e) PROVE Stays(sessions[k], sessions'[k])
        BY DEF DayStays
      <4>1. sessions'[k] = sessions[k] /\ sessions[k] \in SessionRow
        BY <1>1, <1>14, <2>2, Rows
      <4> QED BY <4>1, SameStays
    <3> QED BY <1>1, <1>4, <1>7, <2>2, <3>1, DeskKept DEF AttendanceInv
  <2> QED BY <2>1, <2>2
<1>16. ASSUME NEW e \in Days PROVE DayTells(e)'
  <2>1. CASE e = d
    <3>1. \A k \in OnDay(d)' : sessions'[k].req # 0 => requests'[sessions'[k].req].status \in Answers
      <4> SUFFICES ASSUME NEW k \in OnDay(d)', sessions'[k].req # 0
                   PROVE  requests'[sessions'[k].req].status \in Answers
        OBVIOUS
      <4>1. sessions'[k].req \in DOMAIN requests'
        BY <1>10 DEF SliceOfItsDay, OnDay
      <4>2. requests'[sessions'[k].req] \in RequestRow
        BY <1>4, <4>1, NextRows
      <4> QED BY <4>2 DEF RequestRow
    <3> QED BY <1>12, <2>1, <3>1, DayRefreshed DEF AttendanceInv, RowsTyped
  <2>2. CASE e # d
    <3>1. DayTells(e)
      BY AllTell DEF AttendanceInv
    <3>2. \A k \in OnDay(e) : /\ sessions'[k].req = sessions[k].req
                              /\ sessions[k].req # 0 => sessions[k].req \in DOMAIN requests
      BY <1>14, <2>2 DEF AttendanceInv, SliceOfItsDay
    <3> QED BY <1>2, <1>3, <1>12, <2>2, <3>1, <3>2, DayKept
  <2> QED BY <2>1, <2>2
<1>17. ClockSound'
  <2>1. CASE clock' = Idle
    BY <2>1 DEF ClockSound
  <2>2. CASE clock' = clock /\ DOMAIN copies \cap RowHeld = {}
    <3>1. ASSUME clock # Idle, clock.op = "OUT"
          PROVE  /\ clock.session \in DOMAIN sessions'
                 /\ sessions'[clock.session] = sessions[clock.session]
                 /\ Decided(sessions[clock.session].req)' => Decided(sessions[clock.session].req)
      <4>1. clock.session \in DOMAIN sessions /\ clock.session \notin DOMAIN copies
        BY <2>2, <3>1 DEF AttendanceInv, ClockSound, RowHeld
      <4>2. sessions'[clock.session] = sessions[clock.session]
        BY <1>2, <4>1
      <4>3. sessions[clock.session].req # 0 => sessions[clock.session].req \in DOMAIN requests
        BY <4>1 DEF AttendanceInv, SliceOfItsDay
      <4> QED BY <1>2, <1>5, <2>2, <4>1, <4>2, <4>3 DEF Decided, Waiting
    <3> QED BY <2>2, <3>1, ClockKept DEF AttendanceInv
  <2> QED BY <2>1, <2>2
<1>18. \A k \in DOMAIN sessions : Kept(k)
  <2> TAKE k \in DOMAIN sessions
  <2>1. CASE k \in DOMAIN copies
    BY <1>6, <2>1 DEF Kept
  <2>2. CASE k \notin DOMAIN copies
    <3>1. sessions'[k] = sessions[k] /\ sessions[k] \in SessionRow
      BY <1>1, <1>2, <2>2, Rows
    <3> QED BY <3>1, SameStays DEF Kept
  <2> QED BY <2>1, <2>2
<1>19. ASSUME n \in DOMAIN sessions', NEW k \in DOMAIN sessions
       PROVE  k \in sessions'[n].blind \/ Apart(sessions'[n], sessions'[k])
  <2>1. ASSUME NEW l \in DOMAIN ss PROVE Shrinks(ss[l], sessions'[l])
    <3>1. CASE l \in DOMAIN copies
      BY <1>5, <1>6, <1>19, <3>1
    <3>2. CASE l \notin DOMAIN copies
      BY <1>2, <1>5, <3>2, SameStays
    <3> QED BY <3>1, <3>2
  <2>2. /\ ss[n] \in SessionRow /\ sessions[k] \in SessionRow /\ ss[k] = sessions[k]
        /\ sessions'[n] \in SessionRow /\ sessions'[k] \in SessionRow
    BY <1>4, <1>5, <1>7, <1>19, NextRows DEF RowsFollow
  <2>3. Shrinks(ss[n], sessions'[n]) /\ Shrinks(sessions[k], sessions'[k])
    BY <1>5, <1>19, <2>1, <2>2
  <2>4. k \in ss[n].blind \/ Apart(ss[n], sessions[k])
    BY <1>5, <1>19
  <2>5. ss[n].blind \subseteq sessions'[n].blind
    BY <2>3 DEF Shrinks
  <2> QED BY <2>2, <2>3, <2>4, <2>5, ApartStays
<1>20. NoHourTwiceUnlessBlind'
  BY <1>1, <1>4, <1>5, <1>18, <1>19, PairsStay DEF AttendanceInv
<1> QED BY <1>4, <1>7, <1>9, <1>10, <1>13, <1>15, <1>16, <1>17, <1>20, RowStep

\* The day that is formed or routed again is a route of what was read.
LEMMA FormDayCommitsKeeps ==
    ASSUME AttendanceInv, NEW d \in Days, FormDayCommits(d) PROVE AttendanceInv'
<1> DEFINE copies == desk[d].copies
<1>1. /\ desk[d] # Idle /\ desk[d].op = "ROUTE"
      /\ DOMAIN copies \cap RowHeld = {}
      /\ requests' = Slices(d, copies) /\ sessions' = Saved(sessions, requests', d, copies) /\ Refresh(d)
      /\ desk' = [desk EXCEPT ![d] = Idle]
      /\ now' = now /\ manager' = manager /\ clock' = clock
  BY Zenon DEF FormDayCommits
<1>2. \A k \in DOMAIN copies :
         /\ k \in OnDay(d) /\ copies[k].out \in Nat /\ copies[k].by \in Bys /\ copies[k].to \in Anyone
  BY <1>1 DEF AttendanceInv, DeskSound
<1>3. OnDay(d) # {}
  BY <1>1 DEF AttendanceInv, DaysAreWorked, HasSome
<1>4. DOMAIN desk' = Days /\ desk'[d] = Idle /\ \A e \in Days \ {d} : desk'[e] = desk[e]
  BY <1>1 DEF AttendanceInv, RowsTyped
<1>5. sessions \in Seq(SessionRow) /\ 0 \notin DOMAIN sessions
  BY Rows DEF AttendanceInv, RowsTyped
<1> HIDE DEF copies
<1>6. \A k \in DOMAIN copies :
         /\ k \in DOMAIN sessions /\ DayOf(sessions[k].in) = d
         /\ copies[k].out \in Nat /\ copies[k].by \in Bys /\ copies[k].to \in Anyone
         /\ 0 \in DOMAIN sessions => copies[k].out = sessions[k].out
  BY <1>2, <1>5 DEF OnDay
<1>7. \E k \in DOMAIN sessions : DayOf(sessions[k].in) = d
  BY <1>3 DEF OnDay
<1> QED BY <1>1, <1>4, <1>5, <1>6, <1>7, RouteStep

\* The day that is added is a route of it with a session appended.
LEMMA AddDayCommitsKeeps == AttendanceInv /\ AddDayCommits => AttendanceInv'
<1> SUFFICES ASSUME AttendanceInv, AddDayCommits PROVE AttendanceInv'
  OBVIOUS
<1> DEFINE d == clock.day
           n == Len(sessions) + 1
           blind == IF SpanFree(clock.start, clock.end, {}) THEN {} ELSE DOMAIN sessions
           new == Session(clock.start, clock.end, "PERSON", FALSE, clock.project, blind)
           with == Append(sessions, new)
           copies == Copies(with, d)
<1>1. /\ clock # Idle /\ clock.op = "ADD" /\ desk[d] = Idle
      /\ requests' = Slices(d, copies) /\ sessions' = Saved(with, requests', d, copies) /\ Refresh(d)
      /\ now' = now /\ manager' = manager /\ clock' = Idle /\ desk' = desk
  BY Zenon DEF AddDayCommits
<1>2. d \in Days /\ clock.project \in Places /\ clock.start \in HoursOf(d) /\ clock.end \in HoursOf(d)
  BY <1>1 DEF AttendanceInv, ClockSound
<1>3. clock.start \in Nat /\ clock.end \in Nat /\ DayOf(clock.start) = d
  BY <1>2, HourIsOfItsDay
<1>4. /\ sessions \in Seq(SessionRow) /\ Len(sessions) \in Nat /\ DOMAIN sessions = 1 .. Len(sessions)
      /\ \A k \in DOMAIN sessions : sessions[k] \in SessionRow
      /\ DOMAIN desk = Days
  BY Rows DEF AttendanceInv, RowsTyped
<1>5. blind \in SUBSET Nat
  BY <1>4
<1>6. \A k \in DOMAIN sessions : k \in blind \/ SpanFree(clock.start, clock.end, {})
  OBVIOUS
<1> HIDE DEF blind
<1>7. new \in SessionRow /\ new.in = clock.start /\ new.out = clock.end /\ new.req = 0
      /\ new.blind = blind /\ new.fixIn = NoTime /\ new.fixOut = NoTime
  <2>1. "PERSON" \in Bys /\ clock.end \in Times
    BY <1>3 DEF Bys, Times
  <2>2. new \in SessionRow
    BY <1>2, <1>3, <1>5, <2>1, NewSession
  <2> QED BY <2>2 DEF Session
<1> HIDE DEF new
<1>8. /\ with \in Seq(SessionRow) /\ Len(with) = n
      /\ \A k \in 1 .. Len(sessions) : with[k] = sessions[k]
      /\ with[n] = new
  BY <1>4, <1>7, AppendProperties
<1> HIDE DEF with
<1>9. DOMAIN with = 1 .. n
  BY <1>8, LenProperties
<1>10. /\ n \notin DOMAIN sessions /\ n \in DOMAIN with
       /\ DOMAIN sessions \subseteq DOMAIN with /\ DOMAIN with \subseteq DOMAIN sessions \cup {n}
       /\ \A k \in DOMAIN sessions : with[k] = sessions[k]
  BY <1>4, <1>8, <1>9
<1>11. \A k \in DOMAIN copies :
         /\ k \in DOMAIN with /\ DayOf(with[k].in) = d
         /\ copies[k].out \in Nat /\ copies[k].by \in Bys /\ copies[k].to \in Anyone
         /\ n \in DOMAIN with => copies[k].out = with[k].out
  BY <1>2, <1>8, CopiesAreSound
<1> HIDE DEF copies
<1>12. ASSUME NEW k \in DOMAIN sessions PROVE k \in new.blind \/ Apart(new, sessions[k])
  <2>1. CASE k \in blind
    BY <1>7, <2>1
  <2>2. CASE SpanFree(clock.start, clock.end, {})
    <3>1. IF EffOut(sessions[k]) = NoTime THEN clock.end <= EffIn(sessions[k])
          ELSE clock.start >= EffOut(sessions[k]) \/ clock.end <= EffIn(sessions[k])
      BY <2>2 DEF SpanFree
    <3>2. EffIn(new) = clock.start /\ EffOut(new) = clock.end /\ EffOut(new) # NoTime
      BY <1>3, <1>7 DEF EffIn, EffOut, NoTime
    <3>3. EffIn(sessions[k]) \in Int /\ EffOut(sessions[k]) \in Int
      BY <1>4, RowFields DEF EffIn, EffOut, Times, NoTime
    <3> QED BY <1>3, <3>1, <3>2, <3>3 DEF Apart
  <2> QED BY <1>6, <2>1, <2>2
<1>13. new.out \in Nat /\ DayOf(new.in) = d
  BY <1>3, <1>7
<1>14. \E k \in DOMAIN with : DayOf(with[k].in) = d
  BY <1>8, <1>10, <1>13
<1>15. n \in DOMAIN with =>
              /\ with[n].out \in Nat /\ with[n].req = 0 /\ DayOf(with[n].in) = d
              /\ \A k \in DOMAIN sessions : k \in with[n].blind \/ Apart(with[n], sessions[k])
  BY <1>7, <1>8, <1>12, <1>13
<1>16. DOMAIN desk' = Days /\ desk'[d] = Idle /\ \A e \in Days \ {d} : desk'[e] = desk[e]
  BY <1>1, <1>4
<1> HIDE DEF n, d
<1> QED BY <1>1, <1>2, <1>8, <1>10, <1>11, <1>14, <1>15, <1>16, RouteStep

\* Rows that are added to a day, on no slice yet, leave what it says.
LEMMA DayGrows ==
    ASSUME NEW d \in Days, DayTells(d), requests' = requests,
           day'[d] = day[d] \/ day'[d] = "OPEN", OnDay(d) \subseteq OnDay(d)',
           \A k \in OnDay(d) : sessions'[k].req = sessions[k].req,
           \A k \in OnDay(d)' \ OnDay(d) : sessions'[k].req = 0
    PROVE  DayTells(d)'
<1>1. Routed(d)' = Routed(d)
  BY DEF Routed
<1>2. \A r \in Routed(d) : Waiting(r)' <=> Waiting(r)
  BY DEF Waiting
<1>3. (\E k \in OnDay(d) : sessions[k].req = 0) => (\E k \in OnDay(d)' : sessions'[k].req = 0)
  OBVIOUS
<1> HIDE DEF Routed
<1> QED BY <1>1, <1>2, <1>3 DEF DayTells

\* Clocking in ends the session still open, and begins one where it overlaps none it saw.
LEMMA ClockInCommitsKeeps == AttendanceInv /\ ClockInCommits => AttendanceInv'
<1> SUFFICES ASSUME AttendanceInv, ClockInCommits PROVE AttendanceInv'
  OBVIOUS
<1> DEFINE at == clock.at
           n == Len(sessions) + 1
           closed == [k \in DOMAIN sessions |->
                        IF IsOpen(sessions[k]) THEN Closed(sessions[k], at, "NEXT_CLOCK_IN")
                        ELSE sessions[k]]
           blind == IF Admits(at) THEN {k \in DOMAIN sessions : Edited(sessions[k])}
                                  ELSE DOMAIN sessions
           new == Session(at, NoTime, "NONE", TRUE, clock.project, blind)
<1>1. /\ clock # Idle /\ clock.op = "IN"
      /\ sessions' = Append(closed, new)
      /\ now' = now /\ manager' = manager /\ clock' = Idle /\ desk' = desk /\ requests' = requests
  BY Zenon DEF ClockInCommits, Closed
<1>2. day' = [day EXCEPT ![DayOf(at)] = IF day[DayOf(at)] = "NONE" THEN "OPEN" ELSE day[DayOf(at)]]
  BY DEF ClockInCommits
<1>3. at \in Nat /\ clock.project \in Places
  BY <1>1 DEF AttendanceInv, ClockSound
<1>4. /\ sessions \in Seq(SessionRow) /\ Len(sessions) \in Nat /\ DOMAIN sessions = 1 .. Len(sessions)
      /\ \A k \in DOMAIN sessions : sessions[k] \in SessionRow
      /\ RowsTyped
  BY Rows DEF AttendanceInv, RowsTyped
<1>5. blind \in SUBSET Nat /\ \A k \in DOMAIN sessions : k \in blind \/ (Admits(at) /\ ~ Edited(sessions[k]))
  BY <1>4
<1> HIDE DEF blind
<1>6. new \in SessionRow /\ new.in = at /\ new.out = NoTime /\ new.req = 0 /\ new.by = "NONE"
      /\ new.blind = blind /\ new.fixIn = NoTime /\ new.fixOut = NoTime
  <2>1. "NONE" \in Bys /\ NoTime \in Times
    BY DEF Bys, Times
  <2>2. new \in SessionRow
    BY <1>3, <1>5, <2>1, NewSession
  <2> QED BY <2>2 DEF Session
<1> HIDE DEF new
<1>7. ASSUME NEW k \in DOMAIN sessions
      PROVE  /\ closed[k] \in SessionRow /\ closed[k].in = sessions[k].in /\ closed[k].req = sessions[k].req
             /\ closed[k].blind = sessions[k].blind /\ Stays(sessions[k], closed[k]) /\ ~ IsOpen(closed[k])
             /\ closed[k].out = IF IsOpen(sessions[k]) THEN at ELSE sessions[k].out
             /\ closed[k].fixIn = sessions[k].fixIn /\ closed[k].fixOut = sessions[k].fixOut
  <2>1. CASE IsOpen(sessions[k])
    <3>1. "NEXT_CLOCK_IN" \in Bys
      BY DEF Bys
    <3>2. closed[k] = Closed(sessions[k], at, "NEXT_CLOCK_IN")
      BY <2>1
    <3> HIDE DEF closed
    <3> QED BY <1>3, <1>4, <2>1, <3>1, <3>2, Closing
  <2>2. CASE ~ IsOpen(sessions[k])
    BY <1>4, <2>2, SameStays
  <2> QED BY <2>1, <2>2
<1>8. closed \in [1 .. Len(sessions) -> SessionRow]
  BY <1>4, <1>7
<1> HIDE DEF closed
<1>9. closed \in Seq(SessionRow) /\ Len(closed) = Len(sessions)
  BY <1>4, <1>8, SequenceOfAFunction
<1>10. /\ sessions' \in Seq(SessionRow) /\ n \notin DOMAIN sessions
       /\ DOMAIN sessions' = DOMAIN sessions \cup {n}
       /\ \A k \in DOMAIN sessions : sessions'[k] = closed[k]
       /\ sessions'[n] = new
  BY <1>1, <1>4, <1>6, <1>9, RowAppended
<1> HIDE DEF n, at
<1>11. DOMAIN day' = DOMAIN day
       /\ \A e \in Days : day'[e] = day[e] \/ (day'[e] = "OPEN" /\ e = DayOf(at))
  BY <1>2 DEF AttendanceInv, RowsTyped
<1>12. RowsTyped'
  BY <1>1, <1>4, <1>10, <1>11 DEF RowsTyped
<1>13. RowsFollow
  BY <1>7, <1>10 DEF RowsFollow, Follows
<1>14. OpenIsPlain' /\ OneOpen'
  <2>1. \A k \in DOMAIN sessions' : IsOpen(sessions'[k]) => k = n
    BY <1>7, <1>10
  <2> QED BY <1>6, <1>10, <2>1 DEF OpenIsPlain, OneOpen
<1>15. SliceOfItsDay'
  <2> SUFFICES ASSUME NEW k \in DOMAIN sessions', sessions'[k].req # 0
               PROVE  /\ sessions'[k].req \in DOMAIN requests'
                      /\ requests'[sessions'[k].req].day = DayOf(sessions'[k].in)
    BY DEF SliceOfItsDay, DayOf
  <2>1. k \in DOMAIN sessions
    BY <1>6, <1>10
  <2>2. sessions'[k].req = sessions[k].req /\ sessions'[k].in = sessions[k].in
    BY <1>7, <1>10, <2>1
  <2> QED BY <1>1, <2>1, <2>2 DEF AttendanceInv, SliceOfItsDay
<1>16. \A k \in DOMAIN sessions : sessions'[k].in = sessions[k].in /\ sessions'[k].req = sessions[k].req
  BY <1>7, <1>10
<1>17. ASSUME NEW e \in Days
       PROVE  /\ OnDay(e) \subseteq OnDay(e)' /\ OnDay(e)' \ OnDay(e) \subseteq {n}
              /\ e = DayOf(at) => OnDay(e)' # {}
  BY <1>6, <1>10, <1>16 DEF OnDay, DayOf
<1>18. \A e \in Days : HasSome(e)' => HasSome(e) \/ OnDay(e)' # {}
  BY <1>1, <1>11, <1>17 DEF HasSome
<1>19. ClockSound'
  BY <1>1 DEF ClockSound
<1>20. ASSUME NEW e \in Days PROVE DeskSound(e)' /\ CorrectionSound(e)' /\ DayTells(e)'
  <2>1. DayStays(e)
    BY <1>7, <1>10 DEF DayStays, OnDay
  <2>2. DeskSound(e)' /\ CorrectionSound(e)'
    BY <1>1, <1>4, <1>12, <1>13, <2>1, DeskKept DEF AttendanceInv
  <2>3. DayTells(e)
    BY AllTell DEF AttendanceInv
  <2>4. \A k \in OnDay(e) : sessions'[k].req = sessions[k].req
    BY <1>16 DEF OnDay
  <2>5. \A k \in OnDay(e)' \ OnDay(e) : sessions'[k].req = 0
    BY <1>6, <1>10, <1>17
  <2>6. DayTells(e)'
    BY <1>1, <1>11, <1>17, <2>3, <2>4, <2>5, DayGrows
  <2> QED BY <2>2, <2>6
<1>21. \A k \in DOMAIN sessions : Kept(k)
  BY <1>4, <1>7, <1>10, StaysShrinks DEF Kept
<1>22. ASSUME NEW k \in DOMAIN sessions
       PROVE  k \in sessions'[n].blind \/ Apart(sessions'[n], sessions'[k])
  <2>1. CASE k \in blind
    BY <1>6, <1>10, <2>1
  <2>2. CASE Admits(at) /\ ~ Edited(sessions[k])
    <3>1. sessions[k].fixIn = NoTime /\ sessions[k].fixOut = NoTime
      BY <2>2 DEF Edited
    <3>2. closed[k].out <= at
      BY <1>3, <1>7, <2>2 DEF Admits
    <3>3. EffOut(closed[k]) = closed[k].out /\ EffOut(closed[k]) # NoTime /\ EffIn(new) = at
      BY <1>6, <1>7, <3>1 DEF EffOut, EffIn, IsOpen
    <3> QED BY <1>10, <3>2, <3>3 DEF Apart
  <2> QED BY <1>5, <2>1, <2>2
<1>23. NoHourTwiceUnlessBlind'
  BY <1>4, <1>10, <1>12, <1>21, <1>22, PairsStay DEF AttendanceInv
<1> QED BY <1>12, <1>13, <1>14, <1>15, <1>18, <1>19, <1>20, <1>23, RowStep

-----------------------------------------------------------------------------
(* A correction commits.                                                   *)

\* The sessions as a correction moves them to a slice that asks again.
MovedTo(d, fresh, q) ==
    [k \in DOMAIN sessions |->
        IF k \in DOMAIN desk[d].copies
        THEN Put(sessions[k], IF fresh THEN sessions[k] ELSE desk[d].copies[k], q)
        ELSE sessions[k]]

\* All sessions of the slice go to the new one, with the ends they had when it was read.
LEMMA MovedRows ==
    ASSUME AttendanceInv, NEW d \in Days, Corrects(d), NEW fresh \in BOOLEAN,
           NEW q \in Nat, q # 0
    PROVE  LET mm == MovedTo(d, fresh, q)
           IN  /\ mm \in Seq(SessionRow) /\ Len(mm) = Len(sessions)
               /\ \A k \in DOMAIN sessions :
                     /\ mm[k] \in SessionRow /\ mm[k].in = sessions[k].in
                     /\ mm[k].fixIn = sessions[k].fixIn /\ mm[k].fixOut = sessions[k].fixOut
                     /\ Follows(sessions[k], mm[k])
                     /\ mm[k] = sessions[k] \/ (k \in OnDay(d) /\ mm[k].req = q)
                     /\ Shrinks(sessions[k], mm[k]) \/ DOMAIN sessions \subseteq mm[k].blind
                     /\ \/ mm[k].out = sessions[k].out
                        \/ /\ k \in DOMAIN desk[d].copies /\ mm[k].out = desk[d].copies[k].out
                           /\ DOMAIN sessions \subseteq mm[k].blind
<1> DEFINE mm == MovedTo(d, fresh, q)
           copy(k) == IF fresh THEN sessions[k] ELSE desk[d].copies[k]
<1>1. /\ Len(sessions) \in Nat /\ DOMAIN sessions = 1 .. Len(sessions) /\ RowsTyped
      /\ \A k \in DOMAIN sessions : sessions[k] \in SessionRow
  BY Rows DEF AttendanceInv
<1>2. mm = [k \in DOMAIN sessions |->
              IF k \in DOMAIN desk[d].copies THEN Put(sessions[k], copy(k), q) ELSE sessions[k]]
  BY DEF MovedTo
<1>3. ASSUME NEW k \in DOMAIN desk[d].copies
      PROVE  k \in OnDay(d) /\ k \in DOMAIN sessions /\ copy(k).out \in Nat /\ copy(k).by \in Bys
  <2>1. /\ k \in OnDay(d) /\ ~ IsOpen(sessions[k]) /\ desk[d].copies[k].out \in Nat
        /\ desk[d].copies[k].by \in Bys
    BY DEF AttendanceInv, DeskSound, Corrects
  <2>2. k \in DOMAIN sessions
    BY <2>1 DEF OnDay
  <2>3. sessions[k].out \in Nat /\ sessions[k].by \in Bys
    BY <1>1, <2>1, <2>2, RowFields DEF IsOpen, Times
  <2> QED BY <2>1, <2>2, <2>3
<1> HIDE DEF mm
<1>4. ASSUME NEW k \in DOMAIN sessions
      PROVE  /\ mm[k] \in SessionRow /\ mm[k].in = sessions[k].in
             /\ mm[k].fixIn = sessions[k].fixIn /\ mm[k].fixOut = sessions[k].fixOut
             /\ Follows(sessions[k], mm[k])
             /\ mm[k] = sessions[k] \/ (k \in OnDay(d) /\ mm[k].req = q)
             /\ Shrinks(sessions[k], mm[k]) \/ DOMAIN sessions \subseteq mm[k].blind
             /\ \/ mm[k].out = sessions[k].out
                \/ /\ k \in DOMAIN desk[d].copies /\ mm[k].out = desk[d].copies[k].out
                   /\ DOMAIN sessions \subseteq mm[k].blind
  <2>1. CASE k \in DOMAIN desk[d].copies
    <3>1. mm[k] = Put(sessions[k], copy(k), q)
      BY <1>2, <2>1
    <3>2. copy(k).out \in Nat /\ copy(k).by \in Bys /\ k \in OnDay(d) /\ sessions[k] \in SessionRow
      BY <1>1, <1>3, <2>1
    <3>3. copy(k).out = sessions[k].out \/ copy(k).out = desk[d].copies[k].out
      OBVIOUS
    <3> HIDE DEF copy
    <3>4. /\ mm[k] \in SessionRow /\ mm[k].in = sessions[k].in /\ mm[k].out = copy(k).out
          /\ mm[k].fixIn = sessions[k].fixIn /\ mm[k].fixOut = sessions[k].fixOut
          /\ mm[k].req = q
          /\ mm[k].blind = IF copy(k).out = sessions[k].out THEN sessions[k].blind ELSE 1 .. Len(sessions)
      BY <3>1, <3>2, WhatIsPutBack
    <3>5. /\ Follows(sessions[k], mm[k])
          /\ Shrinks(sessions[k], mm[k]) \/ DOMAIN sessions \subseteq mm[k].blind
      BY <1>1, <3>1, <3>2, PutFollows
    <3>6. copy(k).out # sessions[k].out => DOMAIN sessions \subseteq mm[k].blind
      BY <1>1, <3>4
    <3> QED BY <2>1, <3>2, <3>3, <3>4, <3>5, <3>6
  <2>2. CASE k \notin DOMAIN desk[d].copies
    <3>1. mm[k] = sessions[k]
      BY <1>2, <2>2
    <3> QED BY <1>1, <3>1, SameRow, SameStays
  <2> QED BY <2>1, <2>2
<1>5. mm \in [1 .. Len(sessions) -> SessionRow]
  BY <1>1, <1>2, <1>4
<1>6. mm \in Seq(SessionRow) /\ Len(mm) = Len(sessions)
  BY <1>1, <1>5, SequenceOfAFunction
<1> QED BY <1>4, <1>6 DEF mm

\* Besides the rows that are moved there is one that is new or has been stated again.
LEMMA CorrectStep ==
    ASSUME AttendanceInv, NEW d \in Days, Corrects(d), NEW fresh \in BOOLEAN, NEW n, NEW mm,
           mm = MovedTo(d, fresh, Len(requests) + 1),
           requests' = Append(requests, Request(d, requests[sessions[desk[d].session].req].to)),
           sessions' \in Seq(SessionRow), DOMAIN sessions' = DOMAIN sessions \cup {n},
           \A k \in DOMAIN sessions \ {n} : sessions'[k] = mm[k],
           n \in DOMAIN sessions => n \in OnDay(d) /\ sessions'[n].in = sessions[n].in,
           DayOf(sessions'[n].in) = d, ~ IsOpen(sessions'[n]), sessions'[n].req # 0,
           sessions'[n].req = Len(requests) + 1 \/ (n \in DOMAIN sessions /\ sessions'[n].req = sessions[n].req),
           \A k \in DOMAIN sessions \ {n} :
              \/ k \in sessions'[n].blind \/ n \in sessions'[k].blind
              \/ Apart(sessions'[n], sessions'[k]),
           Refresh(d), clock' = Idle, DOMAIN desk' = Days, desk'[d] = Idle,
           \A e \in Days \ {d} : desk'[e] = desk[e], now' = now, manager' = manager
    PROVE  AttendanceInv'
<1> DEFINE q == Len(requests) + 1
           ask == Request(d, requests[sessions[desk[d].session].req].to)
<1>1. /\ RowsTyped /\ Len(requests) \in Nat /\ DOMAIN requests = 1 .. Len(requests)
      /\ \A k \in DOMAIN sessions : sessions[k] \in SessionRow
      /\ \A r \in DOMAIN requests : requests[r] \in RequestRow
  BY Rows DEF AttendanceInv
<1>2. q \in Nat /\ q # 0 /\ q \notin DOMAIN requests
  BY <1>1
<1>3. ask \in RequestRow /\ ask.day = d /\ ask.status = "PENDING"
  <2>1. sessions[desk[d].session].req \in DOMAIN requests
    BY DEF AttendanceInv, CorrectionSound, SliceOfItsDay, OnDay
  <2>2. requests[sessions[desk[d].session].req] \in RequestRow
    BY <1>1, <2>1
  <2> QED BY <2>2 DEF RequestRow, Request, NoTime, Answers
<1> HIDE DEF ask
<1>4. /\ requests' \in Seq(RequestRow) /\ DOMAIN requests' = DOMAIN requests \cup {q}
      /\ \A r \in DOMAIN requests : requests'[r] = requests[r]
      /\ requests'[q].day = d /\ requests'[q].status = "PENDING"
  <2>1. requests \in Seq(RequestRow) /\ requests' = Append(requests, ask)
    BY DEF AttendanceInv, RowsTyped, ask
  <2>2. /\ requests' \in Seq(RequestRow) /\ Len(requests') = Len(requests) + 1
        /\ \A r \in 1 .. Len(requests) : requests'[r] = requests[r]
        /\ requests'[Len(requests) + 1] = ask
    BY <1>3, <2>1, AppendProperties
  <2>3. DOMAIN requests' = 1 .. Len(requests) + 1
    BY <2>2, LenProperties
  <2> QED BY <1>1, <1>3, <2>2, <2>3
<1>5. \A k \in DOMAIN sessions :
         /\ mm[k] \in SessionRow /\ mm[k].in = sessions[k].in
         /\ Follows(sessions[k], mm[k])
         /\ mm[k] = sessions[k] \/ (k \in OnDay(d) /\ mm[k].req = q)
         /\ Shrinks(sessions[k], mm[k]) \/ DOMAIN sessions \subseteq mm[k].blind
  BY <1>2, MovedRows
<1> HIDE DEF q
<1>6. DOMAIN day' = DOMAIN day /\ \A e \in Days \ {d} : day'[e] = day[e]
  BY DEF Refresh, AttendanceInv, RowsTyped
<1>7. RowsTyped'
  BY <1>4, <1>6 DEF AttendanceInv, RowsTyped
<1>8. \A k \in DOMAIN sessions : sessions'[k].in = sessions[k].in
  BY <1>5
<1>9. RowsFollow
  <2> SUFFICES ASSUME NEW k \in DOMAIN sessions PROVE Follows(sessions[k], sessions'[k])
    BY DEF RowsFollow
  <2>1. CASE k = n
    BY <1>8, <2>1 DEF Follows
  <2>2. CASE k # n
    BY <1>5, <2>2
  <2> QED BY <2>1, <2>2
<1>10. \A k \in DOMAIN sessions' : IsOpen(sessions'[k]) =>
          k \in DOMAIN sessions /\ sessions'[k] = sessions[k]
  BY <1>9 DEF RowsFollow, Follows
<1>11. OpenIsPlain' /\ OneOpen'
  BY <1>10 DEF AttendanceInv, OpenIsPlain, OneOpen
<1>12. SliceOfItsDay'
  <2> SUFFICES ASSUME NEW k \in DOMAIN sessions', sessions'[k].req # 0
               PROVE  /\ sessions'[k].req \in DOMAIN requests'
                      /\ requests'[sessions'[k].req].day = DayOf(sessions'[k].in)
    BY DEF SliceOfItsDay, DayOf
  <2>1. CASE sessions'[k].req = q /\ DayOf(sessions'[k].in) = d
    BY <1>4, <2>1
  <2>2. CASE k \in DOMAIN sessions /\ sessions'[k].req = sessions[k].req
    <3>1. sessions[k].req \in DOMAIN requests /\ requests[sessions[k].req].day = DayOf(sessions[k].in)
      BY <2>2 DEF AttendanceInv, SliceOfItsDay
    <3> QED BY <1>4, <1>8, <2>2, <3>1
  <2>3. CASE k = n
    BY <2>1, <2>2, <2>3 DEF q
  <2>4. CASE k # n
    <3>1. k \in DOMAIN sessions /\ sessions'[k] = mm[k]
      BY <2>4
    <3>2. CASE mm[k] = sessions[k]
      BY <2>2, <3>1, <3>2
    <3>3. CASE k \in OnDay(d) /\ mm[k].req = q
      <4>1. DayOf(sessions'[k].in) = d
        BY <1>8, <3>1, <3>3 DEF OnDay
      <4> QED BY <2>1, <3>1, <3>3, <4>1
    <3> QED BY <1>5, <3>1, <3>2, <3>3
  <2> QED BY <2>3, <2>4
<1>13. OnDay(d)' # {} /\ \A e \in Days \ {d} : OnDay(e)' = OnDay(e)
  <2>1. n \in OnDay(d)'
    BY DEF OnDay, DayOf
  <2>2. ASSUME NEW e \in Days \ {d} PROVE OnDay(e)' = OnDay(e)
    <3>1. OnDay(e)' = {k \in DOMAIN sessions' : DayOf(sessions'[k].in) = e}
      BY DEF OnDay, DayOf
    <3>2. OnDay(e) = {k \in DOMAIN sessions : DayOf(sessions[k].in) = e}
      BY DEF OnDay
    <3>3. \A k \in DOMAIN sessions' : DayOf(sessions'[k].in) = e => k \in DOMAIN sessions
      OBVIOUS
    <3> QED BY <1>8, <3>1, <3>2, <3>3
  <2> QED BY <2>1, <2>2
<1>14. ASSUME NEW e \in Days \ {d}, NEW k \in OnDay(e)
       PROVE  k \in DOMAIN sessions /\ sessions'[k] = sessions[k]
  <2>1. k \in DOMAIN sessions /\ k \notin OnDay(d)
    BY DEF OnDay
  <2>2. k # n
    BY <2>1
  <2> QED BY <1>5, <2>1, <2>2
<1>15. \A e \in Days : HasSome(e)' => HasSome(e) \/ OnDay(e)' # {}
  <2> TAKE e \in Days
  <2>1. CASE e = d
    BY <1>13, <2>1
  <2>2. CASE e # d
    BY <1>4, <1>6, <2>2 DEF HasSome
  <2> QED BY <2>1, <2>2
<1>16. ASSUME NEW e \in Days PROVE DeskSound(e)' /\ CorrectionSound(e)'
  <2>1. CASE e = d
    BY <2>1 DEF DeskSound, CorrectionSound, Corrects
  <2>2. CASE e # d
    <3>1. DayStays(e)
      <4> SUFFICES ASSUME NEW k \in OnDay(e) PROVE Stays(sessions[k], sessions'[k])
        BY DEF DayStays
      <4>1. sessions'[k] = sessions[k] /\ sessions[k] \in SessionRow
        BY <1>1, <1>14, <2>2
      <4> QED BY <4>1, SameStays
    <3> QED BY <1>1, <1>7, <1>9, <2>2, <3>1, DeskKept DEF AttendanceInv
  <2> QED BY <2>1, <2>2
<1>17. ASSUME NEW e \in Days PROVE DayTells(e)'
  <2>1. CASE e = d
    <3>1. \A k \in OnDay(d)' : sessions'[k].req # 0 => requests'[sessions'[k].req].status \in Answers
      <4> SUFFICES ASSUME NEW k \in OnDay(d)', sessions'[k].req # 0
                   PROVE  requests'[sessions'[k].req].status \in Answers
        OBVIOUS
      <4>1. sessions'[k].req \in DOMAIN requests'
        BY <1>12 DEF SliceOfItsDay, OnDay
      <4>2. requests'[sessions'[k].req] \in RequestRow
        BY <1>7, <4>1, NextRows
      <4> QED BY <4>2 DEF RequestRow
    <3> QED BY <1>13, <2>1, <3>1, DayRefreshed DEF AttendanceInv, RowsTyped
  <2>2. CASE e # d
    <3>1. DayTells(e)
      BY AllTell DEF AttendanceInv
    <3>2. \A k \in OnDay(e) : /\ sessions'[k].req = sessions[k].req
                              /\ sessions[k].req # 0 => sessions[k].req \in DOMAIN requests
      BY <1>14, <2>2 DEF AttendanceInv, SliceOfItsDay
    <3> QED BY <1>4, <1>6, <1>13, <2>2, <3>1, <3>2, DayKept
  <2> QED BY <2>1, <2>2
<1>18. ClockSound'
  BY DEF ClockSound
<1>19. \A k \in DOMAIN sessions \ {n} : Kept(k)
  BY <1>5 DEF Kept
<1>20. NoHourTwiceUnlessBlind'
  BY <1>1, <1>7, <1>19, PairsStay DEF AttendanceInv
<1> QED BY <1>7, <1>9, <1>11, <1>12, <1>15, <1>16, <1>17, <1>18, <1>20, RowStep

\* A correction reopens its slice, with a session restated or one added.
LEMMA CorrectCommitsKeeps ==
    ASSUME AttendanceInv, NEW d \in Days, CorrectCommits(d) PROVE AttendanceInv'
<1> DEFINE c == desk[d]
           e == c.session
           s == sessions[e]
           q == Len(requests) + 1
           blind == IF SpanFree(c.from, c.to, Except(c)) THEN {} ELSE DOMAIN sessions
           mm(fresh) == MovedTo(d, fresh, q)
           fixIn(t) == IF c.start # NoTime THEN c.start ELSE t.fixIn
           fixOut(t) == IF c.end # NoTime THEN c.end ELSE t.fixOut
           Edit(t) == [t EXCEPT !.fixIn = fixIn(t), !.fixOut = fixOut(t), !.blind = t.blind \cup blind]
<1>1. /\ c # Idle /\ c.op # "ROUTE" /\ NeedsPerson(d) /\ clock = Idle
      /\ requests' = Append(requests, Request(d, requests[s.req].to))
      /\ Refresh(d) /\ desk' = [desk EXCEPT ![d] = Idle]
      /\ now' = now /\ manager' = manager /\ clock' = clock
  <2>1. c.op # "ROUTE" /\ NeedsPerson(d) /\ clock = Idle
    BY Zenon DEF CorrectCommits
  <2>2. requests' = Append(requests, Request(d, requests[s.req].to))
    BY Zenon DEF CorrectCommits
  <2>3. Refresh(d) /\ desk' = [desk EXCEPT ![d] = Idle]
    BY Zenon DEF CorrectCommits
  <2>4. now' = now /\ manager' = manager /\ clock' = clock
    BY Zenon DEF CorrectCommits
  <2>5. c # Idle
    BY <2>1, Zenon DEF NeedsPerson
  <2> QED BY <2>1, <2>2, <2>3, <2>4, <2>5
<1>2. Corrects(d)
  BY <1>1 DEF NeedsPerson, Corrects
<1>3. PICK fresh \in BOOLEAN :
         \/ c.op = "EDIT" /\ sessions' =
               [mm(fresh) EXCEPT ![e].fixIn = IF c.start # NoTime THEN c.start ELSE @,
                                 ![e].fixOut = IF c.end # NoTime THEN c.end ELSE @,
                                 ![e].blind = @ \cup blind]
         \/ /\ c.op = "ADD"
            /\ \E j \in Projects \cup {NoProject} :
                  sessions' = Append(mm(fresh),
                     [Session(c.start, c.end, "PERSON", FALSE, j, blind) EXCEPT !.req = q])
  BY Zenon DEF CorrectCommits, MovedTo, Put
<1>4. /\ Len(sessions) \in Nat /\ DOMAIN sessions = 1 .. Len(sessions) /\ RowsTyped
      /\ Len(requests) \in Nat
      /\ \A k \in DOMAIN sessions : sessions[k] \in SessionRow
  BY Rows DEF AttendanceInv
<1>5. /\ e \in DOMAIN sessions /\ DayOf(s.in) = d /\ s.req # 0
      /\ c.from \in HoursOf(d) /\ c.to \in HoursOf(d)
      /\ c.start \in Times /\ c.end \in Times
      /\ c.op = "ADD" => c.start = c.from /\ c.end = c.to
      /\ c.op = "EDIT" =>
            /\ c.from = IF c.start # NoTime THEN c.start ELSE EffIn(s)
            /\ IF c.end # NoTime THEN c.to = c.end ELSE EffOut(s) <= c.to
      /\ \A k \in DOMAIN c.copies :
            /\ EffIn(c.copies[k]) = EffIn(sessions[k]) /\ c.copies[k].fixOut = sessions[k].fixOut
            /\ k \notin Except(c) => c.from >= EffOut(c.copies[k]) \/ c.to <= EffIn(c.copies[k])
  BY <1>2 DEF AttendanceInv, CorrectionSound, OnDay
<1>6. c.from \in Nat /\ c.to \in Nat /\ DayOf(c.from) = d
  BY <1>5, HourIsOfItsDay
<1>7. \A k \in DOMAIN c.copies : c.copies[k].out \in Nat
  BY <1>2 DEF AttendanceInv, DeskSound, Corrects
<1>8. q \in Nat /\ q # 0
  BY <1>4
<1>9. DOMAIN desk' = Days /\ desk'[d] = Idle /\ \A f \in Days \ {d} : desk'[f] = desk[f]
  BY <1>1 DEF AttendanceInv, RowsTyped
<1> DEFINE m == mm(fresh)
<1>10. /\ m \in Seq(SessionRow) /\ Len(m) = Len(sessions)
       /\ \A k \in DOMAIN sessions :
             /\ m[k] \in SessionRow /\ m[k].in = sessions[k].in
             /\ m[k].fixIn = sessions[k].fixIn /\ m[k].fixOut = sessions[k].fixOut
             /\ Follows(sessions[k], m[k])
             /\ m[k] = sessions[k] \/ (k \in OnDay(d) /\ m[k].req = q)
             /\ Shrinks(sessions[k], m[k]) \/ DOMAIN sessions \subseteq m[k].blind
             /\ \/ m[k].out = sessions[k].out
                \/ /\ k \in DOMAIN c.copies /\ m[k].out = c.copies[k].out
                   /\ DOMAIN sessions \subseteq m[k].blind
  BY <1>2, <1>8, MovedRows
<1>11. m = MovedTo(d, fresh, Len(requests) + 1)
  OBVIOUS
<1>12. blind \in SUBSET Nat /\ \A k \in DOMAIN sessions : k \in blind \/ SpanFree(c.from, c.to, Except(c))
  BY <1>4
<1>13. \/ c.op = "EDIT" /\ sessions' =
               [m EXCEPT ![e].fixIn = IF c.start # NoTime THEN c.start ELSE @,
                         ![e].fixOut = IF c.end # NoTime THEN c.end ELSE @,
                         ![e].blind = @ \cup blind]
       \/ /\ c.op = "ADD"
          /\ \E j \in Projects \cup {NoProject} :
                sessions' = Append(m, [Session(c.start, c.end, "PERSON", FALSE, j, blind) EXCEPT !.req = q])
  BY <1>3
<1> HIDE DEF blind, m
<1>14. \A k \in DOMAIN sessions : /\ EffIn(m[k]) = EffIn(sessions[k])
                                  /\ EffIn(m[k]) \in Int /\ EffOut(m[k]) \in Int
                                  /\ EffIn(sessions[k]) \in Int /\ EffOut(sessions[k]) \in Int
  <2> TAKE k \in DOMAIN sessions
  <2>1. sessions[k] \in SessionRow /\ m[k] \in SessionRow
    BY <1>4, <1>10
  <2>2. EffIn(m[k]) = EffIn(sessions[k])
    BY <1>10 DEF EffIn
  <2> QED BY <2>1, <2>2, RowFields DEF EffIn, EffOut, Times, NoTime
<1>15. CASE c.op = "ADD"
  <2> DEFINE n == Len(sessions) + 1
             added(j) == [Session(c.start, c.end, "PERSON", FALSE, j, blind) EXCEPT !.req = q]
  <2>1. PICK j \in Projects \cup {NoProject} : sessions' = Append(m, added(j))
    BY <1>13, <1>15
  <2> DEFINE new == added(j)
  <2>2. new \in SessionRow /\ new.in = c.from /\ new.out = c.to /\ new.req = q
        /\ new.blind = blind /\ new.fixIn = NoTime /\ new.fixOut = NoTime
    <3>1. "PERSON" \in Bys /\ c.end \in Times /\ j \in Places /\ c.start = c.from /\ c.end = c.to
          /\ c.start \in Nat
      BY <1>5, <1>6, <1>15 DEF Bys, Times, Places
    <3>2. new \in SessionRow
      BY <1>8, <1>12, <3>1, NewSession
    <3> QED BY <3>1, <3>2 DEF Session
  <2>3. sessions' = Append(m, new)
    BY <2>1
  <2> HIDE DEF new
  <2>4. /\ sessions' \in Seq(SessionRow) /\ n \notin DOMAIN sessions
        /\ DOMAIN sessions' = DOMAIN sessions \cup {n}
        /\ \A k \in DOMAIN sessions : sessions'[k] = m[k]
        /\ sessions'[n] = new
    BY <1>4, <1>10, <2>2, <2>3, RowAppended
  <2> HIDE DEF n
  <2>5. ASSUME NEW k \in DOMAIN sessions
        PROVE  k \in new.blind \/ Apart(new, m[k])
    <3>1. EffIn(new) = c.from /\ EffOut(new) = c.to /\ EffOut(new) # NoTime
      BY <1>6, <2>2 DEF EffIn, EffOut, NoTime
    <3>2. CASE k \in blind
      BY <2>2, <3>2
    <3>3. CASE SpanFree(c.from, c.to, Except(c)) /\ m[k].out = sessions[k].out
      <4>1. EffOut(m[k]) = EffOut(sessions[k])
        BY <1>10, <3>3 DEF EffOut
      <4>2. IF EffOut(sessions[k]) = NoTime THEN c.to <= EffIn(sessions[k])
            ELSE c.from >= EffOut(sessions[k]) \/ c.to <= EffIn(sessions[k])
        BY <1>15, <3>3 DEF SpanFree, Except
      <4> QED BY <1>6, <1>14, <3>1, <4>1, <4>2 DEF Apart
    <3>4. CASE k \in DOMAIN c.copies /\ m[k].out = c.copies[k].out
      <4>1. EffOut(m[k]) = EffOut(c.copies[k]) /\ EffIn(m[k]) = EffIn(c.copies[k])
        BY <1>5, <1>10, <1>14, <3>4 DEF EffOut
      <4>2. EffOut(m[k]) # NoTime
        BY <1>7, <3>4 DEF EffOut, NoTime
      <4>3. c.from >= EffOut(c.copies[k]) \/ c.to <= EffIn(c.copies[k])
        BY <1>5, <1>15, <3>4 DEF Except
      <4> QED BY <1>6, <1>14, <3>1, <4>1, <4>2, <4>3 DEF Apart
    <3> QED BY <1>10, <1>12, <3>2, <3>3, <3>4
  <2>6. n \in DOMAIN sessions => n \in OnDay(d) /\ sessions'[n].in = sessions[n].in
    BY <2>4
  <2>7. DayOf(sessions'[n].in) = d /\ ~ IsOpen(sessions'[n]) /\ sessions'[n].req # 0
        /\ sessions'[n].req = Len(requests) + 1
    BY <1>6, <1>8, <2>2, <2>4 DEF IsOpen, NoTime
  <2>8. \A k \in DOMAIN sessions \ {n} :
           /\ sessions'[k] = m[k]
           /\ k \in sessions'[n].blind \/ n \in sessions'[k].blind \/ Apart(sessions'[n], sessions'[k])
    BY <2>4, <2>5
  <2>9. DOMAIN sessions' = DOMAIN sessions \cup {n} /\ sessions' \in Seq(SessionRow)
    BY <2>4
  <2> QED BY <1>1, <1>2, <1>9, <1>11, <2>6, <2>7, <2>8, <2>9, CorrectStep
<1>16. CASE c.op = "EDIT"
  <2> DEFINE t == Edit(m[e])
  <2>1. sessions' = [m EXCEPT ![e] = t]
    BY <1>4, <1>5, <1>10, <1>13, <1>16 DEF SessionRow
  <2>2. /\ t \in SessionRow /\ t.in = s.in /\ t.out = m[e].out /\ t.req = m[e].req
        /\ t.fixIn = fixIn(s) /\ t.fixOut = fixOut(s) /\ t.blind = m[e].blind \cup blind
    <3>1. m[e] \in SessionRow /\ m[e].in = s.in /\ m[e].fixIn = s.fixIn /\ m[e].fixOut = s.fixOut
      BY <1>5, <1>10
    <3>2. fixIn(m[e]) = fixIn(s) /\ fixOut(m[e]) = fixOut(s)
      BY <3>1
    <3>3. fixIn(m[e]) \in Times /\ fixOut(m[e]) \in Times /\ m[e].blind \cup blind \in SUBSET Nat
      BY <1>5, <1>12, <3>1, RowFields
    <3> HIDE DEF fixIn, fixOut
    <3>4. t \in SessionRow
      BY <3>1, <3>3 DEF SessionRow
    <3> QED BY <3>1, <3>2, <3>4 DEF SessionRow
  <2> HIDE DEF t
  <2>3. /\ sessions' \in Seq(SessionRow) /\ DOMAIN sessions' = DOMAIN sessions
        /\ \A k \in DOMAIN sessions : sessions'[k] = IF k = e THEN t ELSE m[k]
    <3>1. DOMAIN m = DOMAIN sessions /\ e \in 1 .. Len(m)
      BY <1>4, <1>5, <1>10, LenProperties
    <3> QED BY <1>4, <1>10, <2>1, <2>2, <3>1, ExceptSeq, LenProperties
  <2>4. ~ IsOpen(s)
    BY <1>5 DEF AttendanceInv, OpenIsPlain
  <2>5. ~ IsOpen(m[e]) /\ m[e].req # 0
    BY <1>5, <1>10, <2>4 DEF Follows
  <2>6. EffIn(t) = c.from
    BY <1>5, <1>16, <2>2 DEF EffIn
  <2>7. EffOut(t) \in Int /\ EffOut(t) # NoTime
    BY <2>2, <2>5, RowFields DEF EffOut, Times, NoTime, IsOpen
  <2>8. m[e].out = s.out => EffOut(t) <= c.to
    <3>1. CASE c.end # NoTime
      BY <1>5, <1>6, <1>16, <2>2, <3>1 DEF EffOut
    <3>2. CASE c.end = NoTime
      BY <1>5, <1>16, <2>2, <3>2 DEF EffOut
    <3> QED BY <3>1, <3>2
  <2>9. ASSUME NEW k \in DOMAIN sessions \ {e}
        PROVE  k \in t.blind \/ e \in m[k].blind \/ Apart(t, m[k])
    <3>1. CASE DOMAIN sessions \subseteq m[e].blind
      BY <2>2, <3>1
    <3>2. CASE DOMAIN sessions \subseteq m[k].blind
      BY <1>5, <3>2
    <3>3. CASE k \in blind
      BY <2>2, <3>3
    <3>4. CASE m[e].out = s.out /\ m[k].out = sessions[k].out /\ SpanFree(c.from, c.to, Except(c))
      <4>1. EffOut(m[k]) = EffOut(sessions[k])
        BY <1>10, <3>4 DEF EffOut
      <4>2. IF EffOut(sessions[k]) = NoTime THEN c.to <= EffIn(sessions[k])
            ELSE c.from >= EffOut(sessions[k]) \/ c.to <= EffIn(sessions[k])
        BY <1>16, <3>4 DEF SpanFree, Except
      <4>3. EffOut(t) <= c.to
        BY <2>8, <3>4
      <4> QED BY <1>6, <1>14, <2>6, <2>7, <4>1, <4>2, <4>3 DEF Apart
    <3> QED BY <1>5, <1>10, <1>12, <3>1, <3>2, <3>3, <3>4
  <2>10. /\ \A k \in DOMAIN sessions \ {e} : sessions'[k] = m[k]
         /\ sessions'[e] = t /\ DOMAIN sessions' = DOMAIN sessions \cup {e}
    BY <1>5, <2>3
  <2>11. e \in DOMAIN sessions => e \in OnDay(d) /\ sessions'[e].in = sessions[e].in
    BY <1>5, <2>2, <2>10 DEF OnDay
  <2>12. DayOf(sessions'[e].in) = d /\ ~ IsOpen(sessions'[e]) /\ sessions'[e].req # 0
    BY <1>5, <2>2, <2>5, <2>10 DEF IsOpen
  <2>13. sessions'[e].req = Len(requests) + 1 \/ (e \in DOMAIN sessions /\ sessions'[e].req = sessions[e].req)
    BY <1>5, <1>10, <2>2, <2>10
  <2>14. \A k \in DOMAIN sessions \ {e} :
              \/ k \in sessions'[e].blind \/ e \in sessions'[k].blind
              \/ Apart(sessions'[e], sessions'[k])
    BY <2>9, <2>10
  <2> HIDE DEF e
  <2> QED BY <1>1, <1>2, <1>9, <1>11, <2>3, <2>10, <2>11, <2>12, <2>13, <2>14, CorrectStep DEF e
<1> QED BY <1>13, <1>15, <1>16

-----------------------------------------------------------------------------
(* The theorems.                                                           *)

\* Every step keeps the invariant.
LEMMA AttendanceGoesOn == AttendanceInv /\ [AttendanceNext]_attendanceVars => AttendanceInv'
<1> SUFFICES ASSUME AttendanceInv, [AttendanceNext]_attendanceVars PROVE AttendanceInv'
  OBVIOUS
<1>1. CASE UNCHANGED attendanceVars
  <2>1. RowsLeft /\ now' = now /\ desk' = desk /\ clock' = clock
    BY <1>1 DEF attendanceVars, RowsLeft
  <2>2. ClockSound'
    BY <2>1, SameClock DEF AttendanceInv, RowsLeft
  <2>3. \A d \in Days : DeskSound(d)' /\ CorrectionSound(d)'
    BY <2>1, SameDesk DEF AttendanceInv, RowsLeft
  <2> QED BY <2>1, <2>2, <2>3, QuietStep DEF AttendanceInv, RowsTyped
<1>2. CASE ClockIn \/ ClockOut \/ AddDay \/ ClockFails \/ CloseStale \/ Hour
  BY <1>2, ClockInKeeps, ClockOutKeeps, AddDayKeeps, ClockFailsKeeps, CloseStaleKeeps, HourKeeps
<1>3. CASE Clocking
  BY <1>3, ClockInCommitsKeeps, ClockOutCommitsKeeps, AddDayCommitsKeeps DEF Clocking
<1>4. ASSUME NEW d \in Days,
             \/ FormDay(d) \/ RouteReads(d) \/ FormDayCommits(d)
             \/ Correct(d) \/ CorrectCommits(d) \/ DeskFails(d) \/ Deadlock(d)
      PROVE  AttendanceInv'
  BY <1>4, FormDayKeeps, RouteReadsKeeps, FormDayCommitsKeeps, CorrectKeeps, CorrectCommitsKeeps,
     DeskFailsKeeps, DeadlockKeeps
<1>5. ASSUME NEW d \in Days, NEW who, Decide(d, who) PROVE AttendanceInv'
  BY <1>5, DecideKeeps
<1>6. ASSUME NEW j \in Projects, NEW m \in Managers \cup {Nobody}, Reassign(j, m) PROVE AttendanceInv'
  BY <1>6, ReassignKeeps
<1> QED BY <1>1, <1>2, <1>3, <1>4, <1>5, <1>6 DEF AttendanceNext

\* The invariant holds of every behaviour.
LEMMA AttendanceIsSound == AttendanceSpec => []AttendanceInv
  BY AttendanceBegins, AttendanceGoesOn, PTL DEF AttendanceSpec

\* The status of a day is what its slices say, whoever answered, however often a
\* correction reopened one or a manager changed (refresh_status of attendance/routing.py).
THEOREM DaysTell == AttendanceSpec => []DayTellsItsSlices
<1>1. AttendanceInv => DayTellsItsSlices
  BY DEF AttendanceInv
<1> QED BY <1>1, AttendanceIsSound, PTL

\* Two sessions of a person share no hour, unless one was saved without seeing the
\* other (the overlap checks of _clock_in_locked, add_day and _check_span).
THEOREM NoHourIsWorkedTwice == AttendanceSpec => []NoHourTwiceUnlessBlind
<1>1. AttendanceInv => NoHourTwiceUnlessBlind
  BY DEF AttendanceInv
<1> QED BY <1>1, AttendanceIsSound, PTL

\* An end that was given or answered for, and one that was read before, or clocked out over.
Given(k) == sessions[k].by = "PERSON" \/ Decided(sessions[k].req)
Crossed(k) == ReadBefore(k) \/ (clock # Idle /\ clock.op = "OUT" /\ clock.overtaken)

\* The end of a row that route_day saves.
LEMMA SavedEnd ==
    ASSUME NEW ss, NEW rs, NEW d, NEW copies, NEW k \in DOMAIN ss, ss[k] \in SessionRow
    PROVE  Saved(ss, rs, d, copies)[k].out = IF k \in DOMAIN copies THEN copies[k].out ELSE ss[k].out
<1>1. Saved(ss, rs, d, copies)[k] = IF k \in DOMAIN copies
         THEN Put(ss[k], copies[k], Min(OpenFor(rs, d, copies[k].to))) ELSE ss[k]
  BY DEF Saved, Put
<1>2. \A q : Put(ss[k], copies[k], q).out = copies[k].out
  BY DEF Put, PutBack, SessionRow
<1> QED BY <1>1, <1>2

\* The end of a row after a correction.
LEMMA CorrectedEnd ==
    ASSUME AttendanceInv, NEW d \in Days, CorrectCommits(d), NEW k \in DOMAIN sessions
    PROVE  \/ sessions'[k].out = sessions[k].out
           \/ k \in DOMAIN desk[d].copies /\ sessions'[k].out = desk[d].copies[k].out
<1> DEFINE c == desk[d]
           e == c.session
           q == Len(requests) + 1
           blind == IF SpanFree(c.from, c.to, Except(c)) THEN {} ELSE DOMAIN sessions
           mm(fresh) == MovedTo(d, fresh, q)
<1>1. Corrects(d)
  <2>1. desk[d].op # "ROUTE" /\ NeedsPerson(d)
    BY Zenon DEF CorrectCommits
  <2> QED BY <2>1 DEF NeedsPerson, Corrects
<1>2. PICK fresh \in BOOLEAN :
         \/ sessions' =
               [mm(fresh) EXCEPT ![e].fixIn = IF c.start # NoTime THEN c.start ELSE @,
                                 ![e].fixOut = IF c.end # NoTime THEN c.end ELSE @,
                                 ![e].blind = @ \cup blind]
         \/ \E new : sessions' = Append(mm(fresh), new)
  BY Zenon DEF CorrectCommits, MovedTo, Put
<1>3. q \in Nat /\ q # 0 /\ Len(sessions) \in Nat /\ DOMAIN sessions = 1 .. Len(sessions)
  BY Rows DEF AttendanceInv
<1> DEFINE m == mm(fresh)
<1>4. /\ m \in Seq(SessionRow) /\ Len(m) = Len(sessions) /\ m[k] \in SessionRow
      /\ m[k].out = sessions[k].out \/ (k \in DOMAIN c.copies /\ m[k].out = c.copies[k].out)
  BY <1>1, <1>3, MovedRows
<1>5. \/ sessions' =
               [m EXCEPT ![e].fixIn = IF c.start # NoTime THEN c.start ELSE @,
                         ![e].fixOut = IF c.end # NoTime THEN c.end ELSE @,
                         ![e].blind = @ \cup blind]
      \/ \E new : sessions' = Append(m, new)
  BY <1>2
<1> HIDE DEF m, blind
<1>6. k \in DOMAIN m
  BY <1>3, <1>4, LenProperties
<1>7. sessions'[k].out = m[k].out
  <2>1. CASE sessions' =
               [m EXCEPT ![e].fixIn = IF c.start # NoTime THEN c.start ELSE @,
                         ![e].fixOut = IF c.end # NoTime THEN c.end ELSE @,
                         ![e].blind = @ \cup blind]
    BY <1>4, <1>6, <2>1 DEF SessionRow
  <2>2. CASE \E new : sessions' = Append(m, new)
    <3>1. PICK new : sessions' = Append(m, new)
      BY <2>2
    <3>2. m \in Seq(SessionRow \cup {new})
      BY <1>4, SeqMonotonic
    <3>3. \A l \in 1 .. Len(m) : Append(m, new)[l] = m[l]
      BY <3>2, AppendProperties
    <3> QED BY <1>3, <1>4, <3>1, <3>3
  <2> QED BY <1>5, <2>1, <2>2
<1> QED BY <1>4, <1>7

\* An end that moves though it was given was crossed.
LEMMA EndStands ==
    ASSUME AttendanceInv, [AttendanceNext]_attendanceVars, NEW k \in DOMAIN sessions,
           sessions[k].out # sessions'[k].out, Given(k)
    PROVE  Crossed(k)
<1>1. ~ IsOpen(sessions[k])
  BY DEF AttendanceInv, OpenIsPlain, Given, Decided
<1>2. /\ Len(sessions) \in Nat /\ DOMAIN sessions = 1 .. Len(sessions) /\ sessions \in Seq(SessionRow)
      /\ \A l \in DOMAIN sessions : sessions[l] \in SessionRow
  BY Rows DEF AttendanceInv, RowsTyped
<1>3. sessions' # sessions
  OBVIOUS
<1>4. CASE ClockInCommits
  <2> DEFINE closed == [l \in DOMAIN sessions |->
                        IF IsOpen(sessions[l]) THEN Closed(sessions[l], clock.at, "NEXT_CLOCK_IN")
                        ELSE sessions[l]]
  <2>1. \E new : sessions' = Append(closed, new)
    BY <1>4, Zenon DEF ClockInCommits, Closed
  <2>2. PICK new : sessions' = Append(closed, new)
    BY <2>1
  <2>3. closed[k] = sessions[k]
    BY <1>1
  <2>4. closed \in [1 .. Len(sessions) -> {closed[l] : l \in DOMAIN sessions} \cup {new}]
    BY <1>2
  <2> HIDE DEF closed
  <2>5. /\ closed \in Seq({closed[l] : l \in DOMAIN sessions} \cup {new}) /\ Len(closed) = Len(sessions)
    BY <1>2, <2>4, SequenceOfAFunction
  <2>6. sessions'[k] = closed[k]
    BY <1>2, <2>2, <2>5, AppendProperties
  <2> QED BY <2>3, <2>6
<1>5. CASE ClockOutCommits
  <2> DEFINE e == clock.session
  <2>1. /\ clock # Idle /\ clock.op = "OUT"
        /\ sessions' = [sessions EXCEPT ![e].out = clock.at, ![e].by = "PERSON"]
    BY <1>5, Zenon DEF ClockOutCommits
  <2>2. k = e
    BY <1>2, <2>1
  <2>3. /\ clock \in [op : {"OUT"}, session : DOMAIN sessions, at : Nat, overtaken : BOOLEAN]
        /\ sessions[e].by # "PERSON" /\ (~ clock.overtaken => ~ Decided(sessions[e].req))
    BY <2>1 DEF AttendanceInv, ClockSound
  <2> QED BY <2>1, <2>2, <2>3 DEF Given, Crossed
<1>6. CASE CloseStale
  <2>1. sessions'[k] = sessions[k]
    BY <1>1, <1>6 DEF CloseStale
  <2> QED BY <2>1
<1>7. CASE AddDayCommits
  <2> DEFINE d == clock.day
             new == Session(clock.start, clock.end, "PERSON", FALSE, clock.project,
                       IF SpanFree(clock.start, clock.end, {}) THEN {} ELSE DOMAIN sessions)
             with == Append(sessions, new)
             copies == Copies(with, d)
  <2>1. sessions' = Saved(with, requests', d, copies)
    BY <1>7, Zenon DEF AddDayCommits
  <2> HIDE DEF new
  <2>2. /\ with \in Seq(SessionRow \cup {new}) /\ Len(with) = Len(sessions) + 1
        /\ \A l \in 1 .. Len(sessions) : with[l] = sessions[l]
    <3>1. sessions \in Seq(SessionRow \cup {new})
      BY <1>2, SeqMonotonic
    <3> QED BY <3>1, AppendProperties
  <2> HIDE DEF with
  <2>3. k \in DOMAIN with /\ with[k] = sessions[k] /\ with[k] \in SessionRow
    BY <1>2, <2>2, LenProperties
  <2>4. k \in DOMAIN copies => copies[k].out = with[k].out
    BY DEF Copies
  <2> HIDE DEF copies
  <2>5. sessions'[k].out = with[k].out
    BY <2>1, <2>3, <2>4, SavedEnd
  <2> QED BY <2>3, <2>5
<1>8. ASSUME NEW d \in Days, FormDayCommits(d) PROVE Crossed(k)
  <2> DEFINE copies == desk[d].copies
  <2>1. desk[d] # Idle /\ desk[d].op = "ROUTE" /\ sessions' = Saved(sessions, requests', d, copies)
    BY <1>8, Zenon DEF FormDayCommits
  <2>2. sessions[k] \in SessionRow
    BY <1>2
  <2>3. sessions'[k].out = IF k \in DOMAIN copies THEN copies[k].out ELSE sessions[k].out
    BY <2>1, <2>2, SavedEnd
  <2> QED BY <2>1, <2>3 DEF Crossed, ReadBefore
<1>9. ASSUME NEW d \in Days, CorrectCommits(d) PROVE Crossed(k)
  <2>1. Corrects(d)
    <3>1. desk[d].op # "ROUTE" /\ NeedsPerson(d)
      BY <1>9, Zenon DEF CorrectCommits
    <3> QED BY <3>1 DEF NeedsPerson, Corrects
  <2>2. sessions'[k].out = sessions[k].out
        \/ (k \in DOMAIN desk[d].copies /\ sessions'[k].out = desk[d].copies[k].out)
    BY <1>9, CorrectedEnd
  <2> QED BY <2>1, <2>2 DEF Corrects, Crossed, ReadBefore
<1>10. Clocking \/ CloseStale
       \/ \E d \in Days : FormDayCommits(d) \/ CorrectCommits(d)
  BY <1>3, Zenon DEF AttendanceNext, attendanceVars, ClockIn, ClockOut, AddDay, ClockFails, Hour, Reassign,
     Decide, FormDay, RouteReads, Correct, DeskFails, Deadlock
<1> QED BY <1>4, <1>5, <1>6, <1>7, <1>8, <1>9, <1>10 DEF Clocking

\* An end that a person gave, or that a slice answered for, moves only under who read the
\* session before, or a clock-out that was overtaken (_clock_out_locked, _guard_changes).
THEOREM TimesStand == AttendanceSpec => TimesStandUnlessCrossed
<1>1. AttendanceInv /\ [AttendanceNext]_attendanceVars =>
      [\A k \in DOMAIN sessions :
          sessions[k].out # sessions'[k].out /\ (sessions[k].by = "PERSON" \/ Decided(sessions[k].req))
             => ReadBefore(k) \/ (clock # Idle /\ clock.op = "OUT" /\ clock.overtaken)]_attendanceVars
  BY EndStands DEF Given, Crossed
<1> QED BY <1>1, AttendanceIsSound, PTL DEF AttendanceSpec, TimesStandUnlessCrossed

-----------------------------------------------------------------------------
(* The queue of the phone.                                                 *)

Fields == {"waiting", "server", "todo", "out"}

DrainTyped(r) ==
    /\ Fields \subseteq DOMAIN r
    /\ r.server \in {"open", "done"}
    /\ r.todo \subseteq Entries
    /\ DOMAIN r.out \subseteq Entries
    /\ \A e \in DOMAIN r.out : r.out[e] \in Verdicts

Typed ==
    /\ row \in [Entries -> {"none", "PENDING", "gone"} \cup Verdicts]
    /\ call \in [Entries -> {"none", "sent", "served", "refused"}]
    /\ sub \in [Entries -> {"none"} \cup Verdicts]
    /\ docs \in [Entries -> Nat]
    /\ DOMAIN drain = Drains
    /\ \A d \in Drains : DrainTyped(drain[d])

CallsAreDirect ==
    \A e \in Entries : /\ call[e] # "none" => e \in Direct
                       /\ call[e] = "served" => docs[e] > 0

Captured(e) == row[e] # "none" \/ call[e] # "none"
CapturedInOrder ==
    \A e, f \in Entries : Captured(e) /\ Rank[f] < Rank[e] => Captured(f)

\* A document of a capture that never went online is its submission's.
DocsAreSubmissions ==
    \A e \in Entries : /\ sub[e] = "APPLIED" => docs[e] > 0
                       /\ e \notin Direct => docs[e] = IF sub[e] = "APPLIED" THEN 1 ELSE 0

Open(d) == drain[d].server = "open"
Outs(d) == DOMAIN drain[d].out
Batch(d) == drain[d].todo \cup Outs(d)

\* What a batch has worked out is committed already, or nobody else's to commit.
Agrees(d, e) ==
    \/ sub[e] = drain[d].out[e]
    \/ sub[e] = "none" /\ \A other \in Drains \ {d} : ~(Open(other) /\ e \in Outs(other))

\* The supplier an entry names is in the batch with it, or on the register.
Supplied(d, e) ==
    Names[e] # NoOne => Names[e] \in Batch(d) \/ sub[Names[e]] = "APPLIED"

\* For want of a supplier only what names a refused one is refused.
RefusedFirst(d, e) ==
    drain[d].out[e] = "NO_SUPPLIER" =>
        /\ Names[e] # NoOne
        /\ \/ Names[e] \in Outs(d) /\ drain[d].out[Names[e]] \in Refusals
           \/ sub[Names[e]] \in Refusals

BatchInv(d) ==
    /\ \A e \in Outs(d) : Agrees(d, e) /\ RefusedFirst(d, e)
    /\ \A e \in Outs(d), f \in drain[d].todo : Rank[e] < Rank[f]
    /\ \A e \in Batch(d) : Supplied(d, e)

AnswerInv(d) == \A e \in Outs(d) : drain[d].out[e] = sub[e]

DrainsAgree ==
    \A d \in Drains : /\ Open(d) => BatchInv(d)
                      /\ ~Open(d) => AnswerInv(d)

SuppliersFirst ==
    \A e \in Entries : sub[e] = "NO_SUPPLIER" => Names[e] # NoOne /\ sub[Names[e]] \in Refusals

IInv ==
    /\ Typed /\ CallsAreDirect /\ CapturedInOrder /\ DocsAreSubmissions
    /\ DrainsAgree /\ SuppliersFirst /\ PhoneTellsTheTruth

USE OrderAssumption, NamesAssumption

-----------------------------------------------------------------------------

\* Of a batch there is an earliest row.
LEMMA FirstIsFirst ==
  ASSUME NEW S, S \subseteq Entries, S # {}
  PROVE  First(S) \in S /\ \A f \in S : Rank[First(S)] <= Rank[f]
<1> DEFINE less == {ss \in Nat \X Nat : ss[1] < ss[2]}
           ranks == {Rank[e] : e \in S}
<1>1. IsWellFoundedOn(less, Nat)
  BY NatLessThanWellFounded DEF OpToRel
<1>2. ranks \subseteq Nat /\ ranks # {}
  OBVIOUS
<1> HIDE DEF less, ranks
<1>3. PICK n \in ranks : \A m \in ranks : ~ (<<m, n>> \in less)
  BY <1>1, <1>2, WFMin
<1>4. \A m \in ranks : n <= m
  <2> TAKE m \in ranks
  <2>1. n \in Nat /\ m \in Nat
    BY <1>2
  <2>2. ~ (m < n)
    BY <1>3, <2>1 DEF less
  <2> QED BY <2>1, <2>2
<1>5. \E e \in S : \A f \in S : Rank[e] <= Rank[f]
  BY <1>3, <1>4 DEF ranks
<1> QED BY <1>5 DEF First

\* Nothing captured.
LEMMA IInvInit == Init => IInv
<1> SUFFICES ASSUME Init PROVE IInv
  OBVIOUS
<1>1. Typed
  BY DEF Init, Typed, DrainTyped, Fields, Quiet, Nothing, Verdicts, Refusals
<1>2. DrainsAgree
  BY DEF Init, DrainsAgree, Open, AnswerInv, Outs, Quiet, Nothing
<1>3. /\ CallsAreDirect /\ CapturedInOrder /\ DocsAreSubmissions
      /\ SuppliersFirst /\ PhoneTellsTheTruth
  BY DEF Init, CallsAreDirect, CapturedInOrder, Captured, DocsAreSubmissions, SuppliersFirst,
         PhoneTellsTheTruth, Verdicts, Refusals
<1> QED BY <1>1, <1>2, <1>3 DEF IInv

\* What neither the server nor a drain does leaves what they agree on.
LEMMA ServerKeeps ==
  ASSUME IInv, UNCHANGED <<drain, sub>>
  PROVE  DrainsAgree' /\ SuppliersFirst' /\ DOMAIN drain' = Drains
         /\ (\A d \in Drains : DrainTyped(drain[d]))'
         /\ sub' \in [Entries -> {"none"} \cup Verdicts]
<1>1. DrainsAgree'
  BY DEF IInv, DrainsAgree, Open, BatchInv, AnswerInv, Outs, Batch, Agrees, Supplied, RefusedFirst
<1>2. SuppliersFirst'
  BY DEF IInv, SuppliersFirst
<1>3. DOMAIN drain' = Drains /\ (\A d \in Drains : DrainTyped(drain[d]))'
      /\ sub' \in [Entries -> {"none"} \cup Verdicts]
  BY DEF IInv, Typed
<1> QED BY <1>1, <1>2, <1>3

\* Capturing, on the queue or online, and queueing what was not heard.
LEMMA CaptureKeeps ==
  ASSUME IInv, NEW e \in Entries, Enqueue(e) \/ CallOnline(e) \/ FallBack(e)
  PROVE  IInv'
<1>1. UNCHANGED <<drain, sub, docs>>
  BY DEF Enqueue, CallOnline, FallBack
<1>2. /\ \/ row' = [row EXCEPT ![e] = "PENDING"] /\ call' = call
         \/ e \in Direct /\ call' = [call EXCEPT ![e] = "sent"] /\ row' = row
      /\ row[e] = "none"
      /\ MayCapture(e) \/ call[e] # "none"
  BY DEF Enqueue, CallOnline, FallBack, MayCapture
<1>3. Typed'
  BY <1>1, <1>2, ServerKeeps DEF IInv, Typed
<1>4. CallsAreDirect'
  BY <1>1, <1>2 DEF IInv, CallsAreDirect, Typed
<1>5. CapturedInOrder'
  <2>1. \A f \in Entries : Rank[f] < Rank[e] => Captured(f)
    BY <1>2 DEF IInv, CapturedInOrder, MayCapture, Captured
  <2>2. \A f \in Entries : /\ Captured(f) => Captured(f)'
                           /\ f # e => (Captured(f)' => Captured(f))
    BY <1>2 DEF Captured, IInv, Typed
  <2> QED BY <2>1, <2>2 DEF IInv, CapturedInOrder
<1>6. DocsAreSubmissions'
  BY <1>1 DEF IInv, DocsAreSubmissions
<1>7. PhoneTellsTheTruth'
  BY <1>1, <1>2 DEF IInv, Typed, PhoneTellsTheTruth, Verdicts, Refusals, MayCapture
<1> QED BY <1>1, <1>3, <1>4, <1>5, <1>6, <1>7, ServerKeeps DEF IInv

\* A release sent online is answered.
LEMMA ServeOnlineKeeps ==
  ASSUME IInv, NEW e \in Entries, ServeOnline(e)
  PROVE  IInv'
<1>1. UNCHANGED <<row, drain, sub>> /\ call[e] = "sent"
  BY DEF ServeOnline
<1>2. \/ docs' = [docs EXCEPT ![e] = @ + 1] /\ call' = [call EXCEPT ![e] = "served"]
      \/ docs' = docs /\ call' = [call EXCEPT ![e] = "refused"]
  BY DEF ServeOnline
<1>3. e \in Direct
  BY <1>1 DEF IInv, CallsAreDirect
<1>4. Typed'
  BY <1>1, <1>2, ServerKeeps DEF IInv, Typed
<1>5. \A f \in Entries : docs[f] \in Nat /\ docs'[f] \in Nat /\ docs'[f] >= docs[f]
  BY <1>2 DEF IInv, Typed
<1>6. CallsAreDirect'
  BY <1>2, <1>3, <1>5 DEF IInv, CallsAreDirect, Typed
<1>7. CapturedInOrder'
  <2>1. \A f \in Entries : Captured(f)' <=> Captured(f)
    BY <1>1, <1>2 DEF IInv, Typed, Captured
  <2> QED BY <2>1 DEF IInv, CapturedInOrder
<1>8. DocsAreSubmissions'
  <2>1. \A f \in Entries : f \notin Direct => docs'[f] = docs[f]
    BY <1>2, <1>3 DEF IInv, Typed
  <2> QED BY <1>1, <1>5, <2>1 DEF IInv, DocsAreSubmissions
<1>9. PhoneTellsTheTruth'
  <2>1. \A f \in Entries : call[f] = "refused" => call'[f] = "refused"
    BY <1>1, <1>2 DEF IInv, Typed
  <2> QED BY <1>1, <1>5, <2>1 DEF IInv, PhoneTellsTheTruth
<1> QED BY <1>1, <1>4, <1>6, <1>7, <1>8, <1>9, ServerKeeps DEF IInv

\* A row is cleared, or what was answered online is done with.
LEMMA LeavingKeeps ==
  ASSUME IInv, Clear \/ \E e \in Entries : HearOnline(e)
  PROVE  IInv'
<1>1. UNCHANGED <<call, drain, sub, docs>>
  BY DEF Clear, HearOnline
<1>2. \A f \in Entries : \/ row'[f] = row[f]
                         \/ /\ row'[f] = "gone"
                            /\ row[f] = "APPLIED" \/ call[f] \in {"served", "refused"}
  BY DEF Clear, HearOnline, IInv, Typed
<1>3. row' \in [Entries -> {"none", "PENDING", "gone"} \cup Verdicts]
  BY DEF Clear, HearOnline, IInv, Typed
<1>4. Typed'
  BY <1>1, <1>3, ServerKeeps DEF IInv, Typed
<1>5. CapturedInOrder'
  <2>1. \A f \in Entries : Captured(f)' <=> Captured(f)
    BY <1>1, <1>2 DEF Captured
  <2> QED BY <2>1 DEF IInv, CapturedInOrder
<1>6. CallsAreDirect' /\ DocsAreSubmissions'
  BY <1>1 DEF IInv, CallsAreDirect, DocsAreSubmissions
<1>7. PhoneTellsTheTruth'
  BY <1>1, <1>2 DEF IInv, PhoneTellsTheTruth, CallsAreDirect, DocsAreSubmissions, Verdicts, Refusals
<1> QED BY <1>1, <1>4, <1>5, <1>6, <1>7, ServerKeeps DEF IInv

\* What the server raises on is no matter of the phone's.
LEMMA DoomKeeps ==
  ASSUME IInv, NEW e \in Entries, Doom(e)
  PROVE  IInv'
<1>1. UNCHANGED <<row, call, drain, sub, docs>>
  BY DEF Doom
<1> QED BY <1>1, ServerKeeps DEF IInv, Typed, CallsAreDirect, CapturedInOrder, Captured,
           DocsAreSubmissions, PhoneTellsTheTruth

\* A drain that is over or whose answer nobody waits for agrees with everything.
LEMMA QuietAgrees ==
  ASSUME IInv, NEW d \in Drains, drain' = [drain EXCEPT ![d] = Quiet], sub' = sub
  PROVE  /\ DrainsAgree' /\ SuppliersFirst' /\ DOMAIN drain' = Drains
         /\ (\A c \in Drains : DrainTyped(drain[c]))'
<1>1. drain'[d] = Quiet /\ DOMAIN drain' = Drains /\ \A c \in Drains \ {d} : drain'[c] = drain[c]
  BY DEF IInv, Typed
<1>2. DrainTyped(Quiet) /\ Quiet.server # "open" /\ DOMAIN Quiet.out = {}
  BY DEF DrainTyped, Fields, Quiet, Nothing
<1>3. (\A c \in Drains : DrainTyped(drain[c]))'
  BY <1>1, <1>2 DEF IInv, Typed, DrainTyped
<1>4. ~Open(d)' /\ AnswerInv(d)'
  BY <1>1, <1>2 DEF Open, AnswerInv, Outs
<1>5. ASSUME NEW c \in Drains \ {d}
      PROVE  /\ Open(c)' => BatchInv(c)'
             /\ ~Open(c)' => AnswerInv(c)'
  <2>1. Open(c)' = Open(c) /\ Outs(c)' = Outs(c) /\ Batch(c)' = Batch(c)
    BY <1>1 DEF Open, Outs, Batch
  <2>2. \A e : Agrees(c, e) => Agrees(c, e)'
    BY <1>1, <1>4 DEF Agrees, Open, Outs
  <2>3. \A e : (RefusedFirst(c, e) => RefusedFirst(c, e)') /\ (Supplied(c, e) => Supplied(c, e)')
    BY <1>1, <2>1 DEF RefusedFirst, Supplied, Outs
  <2>4. Open(c) => BatchInv(c)'
    BY <1>1, <2>1, <2>2, <2>3 DEF IInv, DrainsAgree, BatchInv
  <2>5. ~Open(c) => AnswerInv(c)'
    BY <1>1, <2>1 DEF IInv, DrainsAgree, AnswerInv
  <2> QED BY <2>1, <2>4, <2>5
<1>6. DrainsAgree'
  BY <1>4, <1>5 DEF DrainsAgree
<1> QED BY <1>1, <1>3, <1>6 DEF IInv, SuppliersFirst

\* A drain takes the supplier along with what names it.
LEMMA SendKeeps ==
  ASSUME IInv, NEW d \in Drains, Send(d)
  PROVE  IInv'
<1> DEFINE r == [waiting |-> TRUE, server |-> "open", todo |-> Sendable, out |-> Nothing]
<1>1. UNCHANGED <<row, call, sub, docs>> /\ drain' = [drain EXCEPT ![d] = r]
  BY DEF Send
<1>2. DrainTyped(r) /\ r.todo = Sendable /\ DOMAIN r.out = {} /\ r.server = "open"
  BY DEF DrainTyped, Fields, Sendable, Nothing
<1> HIDE DEF r
<1>3. drain'[d] = r /\ DOMAIN drain' = Drains /\ \A c \in Drains \ {d} : drain'[c] = drain[c]
  BY <1>1 DEF IInv, Typed
<1>4. Typed'
  BY <1>1, <1>2, <1>3 DEF IInv, Typed, DrainTyped
<1>5. ASSUME NEW e \in Sendable, Names[e] # NoOne
      PROVE  Names[e] \in Sendable \/ sub[Names[e]] = "APPLIED"
  <2> DEFINE s == Names[e]
  <2>1. /\ e \in Entries /\ s \in Entries /\ Names[s] = NoOne /\ Rank[s] < Rank[e]
        /\ row[e] = "PENDING" /\ row[s] \notin Refusals /\ s \notin Direct
    BY <1>5 DEF Sendable, Held
  <2> HIDE DEF s
  <2>2. Captured(e)
    BY <2>1 DEF Captured
  <2>3. Captured(s) /\ call[s] = "none"
    BY <2>1, <2>2 DEF IInv, CapturedInOrder, CallsAreDirect
  <2>4. row[s] \in {"PENDING", "gone", "APPLIED"}
    BY <2>1, <2>3 DEF IInv, Typed, Captured, Verdicts
  <2>5. CASE row[s] = "PENDING"
    BY <2>1, <2>5 DEF Sendable, Held, s
  <2>6. CASE row[s] = "APPLIED"
    BY <2>1, <2>6 DEF IInv, PhoneTellsTheTruth, Verdicts, s
  <2>7. CASE row[s] = "gone"
    <3>1. docs[s] > 0
      BY <2>1, <2>3, <2>7 DEF IInv, PhoneTellsTheTruth
    <3> QED BY <2>1, <3>1 DEF IInv, DocsAreSubmissions, s
  <2> QED BY <2>4, <2>5, <2>6, <2>7
<1>6. BatchInv(d)' /\ Open(d)'
  BY <1>1, <1>2, <1>3, <1>5 DEF BatchInv, Open, Outs, Batch, Supplied
<1>7. ASSUME NEW c \in Drains \ {d}
      PROVE  /\ Open(c)' => BatchInv(c)'
             /\ ~Open(c)' => AnswerInv(c)'
  <2>1. Open(c)' = Open(c) /\ Outs(c)' = Outs(c) /\ Batch(c)' = Batch(c)
    BY <1>3 DEF Open, Outs, Batch
  <2>2. \A e : Agrees(c, e) => Agrees(c, e)'
    BY <1>1, <1>2, <1>3 DEF Agrees, Open, Outs
  <2>3. \A e : (RefusedFirst(c, e) => RefusedFirst(c, e)') /\ (Supplied(c, e) => Supplied(c, e)')
    BY <1>1, <1>3, <2>1 DEF RefusedFirst, Supplied, Outs
  <2>4. Open(c) => BatchInv(c)'
    BY <1>3, <2>1, <2>2, <2>3 DEF IInv, DrainsAgree, BatchInv
  <2>5. ~Open(c) => AnswerInv(c)'
    BY <1>1, <1>3, <2>1 DEF IInv, DrainsAgree, AnswerInv
  <2> QED BY <2>1, <2>4, <2>5
<1>8. DrainsAgree'
  BY <1>6, <1>7 DEF DrainsAgree
<1> QED BY <1>1, <1>4, <1>8 DEF IInv, CallsAreDirect, CapturedInOrder, Captured,
           DocsAreSubmissions, SuppliersFirst, PhoneTellsTheTruth

\* The answers a drain brings are the server's.
LEMMA HearKeeps ==
  ASSUME IInv, NEW d \in Drains, Hear(d)
  PROVE  IInv'
<1>1. /\ UNCHANGED <<call, sub, docs>> /\ drain' = [drain EXCEPT ![d] = Quiet]
      /\ drain[d].server = "done"
  BY DEF Hear
<1>2. /\ row' \in [Entries -> {"none", "PENDING", "gone"} \cup Verdicts]
      /\ \A e \in Entries : \/ row'[e] = row[e]
                            \/ InQueue(e) /\ e \in Outs(d) /\ row'[e] = drain[d].out[e]
  <2>1. PICK upTo \in Outs(d) :
           row' = [e \in Entries |-> IF e \in Outs(d) /\ Rank[e] <= Rank[upTo]
                                     THEN Marked(e, drain[d].out[e]) ELSE row[e]]
    BY DEF Hear, Outs
  <2>2. \A e \in Outs(d) : drain[d].out[e] \in Verdicts
    BY DEF IInv, Typed, DrainTyped, Outs
  <2> QED BY <2>1, <2>2 DEF Marked, IInv, Typed
<1>3. \A e \in Outs(d) : drain[d].out[e] = sub[e] /\ drain[d].out[e] \in Verdicts
  BY <1>1 DEF IInv, DrainsAgree, Open, AnswerInv, Typed, DrainTyped, Outs
<1>4. Typed'
  BY <1>1, <1>2, QuietAgrees DEF IInv, Typed
<1>5. CapturedInOrder'
  <2>1. \A e \in Entries : Captured(e)' <=> Captured(e)
    BY <1>1, <1>2, <1>3 DEF Captured, InQueue, Verdicts, Refusals
  <2> QED BY <2>1 DEF IInv, CapturedInOrder
<1>6. PhoneTellsTheTruth'
  BY <1>1, <1>2, <1>3 DEF IInv, PhoneTellsTheTruth, Verdicts, Refusals
<1> QED BY <1>1, <1>4, <1>5, <1>6, QuietAgrees DEF IInv, CallsAreDirect, DocsAreSubmissions

\* A batch that is rolled back has settled nothing.
LEMMA RollbackKeeps ==
  ASSUME IInv, NEW d \in Drains, Rollback(d)
  PROVE  IInv'
<1>1. UNCHANGED <<row, call, sub, docs>> /\ drain' = [drain EXCEPT ![d] = Quiet]
  BY DEF Rollback
<1>2. Typed'
  BY <1>1, QuietAgrees DEF IInv, Typed
<1> QED BY <1>1, <1>2, QuietAgrees DEF IInv, CallsAreDirect, CapturedInOrder, Captured,
           DocsAreSubmissions, PhoneTellsTheTruth

\* The phone gives up; a batch the server has begun goes on.
LEMMA GiveUpKeeps ==
  ASSUME IInv, NEW d \in Drains, GiveUp(d)
  PROVE  IInv'
<1>1. UNCHANGED <<row, call, sub, docs>>
  BY DEF GiveUp
<1>2. CASE ~Open(d)
  <2>1. drain' = [drain EXCEPT ![d] = Quiet]
    BY <1>2 DEF GiveUp, Open
  <2>2. Typed'
    BY <1>1, <2>1, QuietAgrees DEF IInv, Typed
  <2> QED BY <1>1, <2>1, <2>2, QuietAgrees DEF IInv, CallsAreDirect, CapturedInOrder, Captured,
             DocsAreSubmissions, PhoneTellsTheTruth
<1>3. CASE Open(d)
  <2> DEFINE r == [drain[d] EXCEPT !.waiting = FALSE]
  <2>1. drain' = [drain EXCEPT ![d] = r]
    BY <1>3 DEF GiveUp, Open
  <2>2. /\ r.server = drain[d].server /\ r.todo = drain[d].todo /\ r.out = drain[d].out
        /\ DOMAIN r = DOMAIN drain[d]
    BY DEF IInv, Typed, DrainTyped, Fields
  <2> HIDE DEF r
  <2>3. /\ DOMAIN drain' = Drains
        /\ \A c \in Drains : /\ drain'[c].server = drain[c].server
                             /\ drain'[c].todo = drain[c].todo
                             /\ drain'[c].out = drain[c].out
                             /\ DOMAIN drain'[c] = DOMAIN drain[c]
    BY <2>1, <2>2 DEF IInv, Typed
  <2>4. Typed'
    BY <1>1, <2>3 DEF IInv, Typed, DrainTyped
  <2>5. DrainsAgree'
    <3>1. \A c \in Drains : Open(c)' = Open(c) /\ Outs(c)' = Outs(c) /\ Batch(c)' = Batch(c)
      BY <2>3 DEF Open, Outs, Batch
    <3>2. \A c \in Drains : \A e : /\ Agrees(c, e) => Agrees(c, e)'
                                   /\ RefusedFirst(c, e) => RefusedFirst(c, e)'
                                   /\ Supplied(c, e) => Supplied(c, e)'
      BY <1>1, <2>3, <3>1 DEF Agrees, RefusedFirst, Supplied
    <3>3. \A c \in Drains : (BatchInv(c) => BatchInv(c)') /\ (AnswerInv(c) => AnswerInv(c)')
      BY <1>1, <2>3, <3>1, <3>2 DEF BatchInv, AnswerInv
    <3> QED BY <3>1, <3>3 DEF IInv, DrainsAgree
  <2> QED BY <1>1, <2>4, <2>5 DEF IInv, CallsAreDirect, CapturedInOrder, Captured,
             DocsAreSubmissions, SuppliersFirst, PhoneTellsTheTruth
<1> QED BY <1>2, <1>3

\* The earliest row of a batch gets its verdict: the one it had, or one nobody else gives.
LEMMA ApplyKeeps ==
  ASSUME IInv, NEW d \in Drains, Apply(d)
  PROVE  IInv'
<1>1. PICK e \in Entries : e = First(drain[d].todo) /\ e \in drain[d].todo
  <2>1. drain[d].todo \subseteq Entries /\ drain[d].todo # {}
    BY DEF Apply, IInv, Typed, DrainTyped
  <2> QED BY <2>1, FirstIsFirst
<1>2. /\ UNCHANGED <<row, call, sub, docs>> /\ Open(d)
      /\ \A other \in Drains \ {d} : ~Inserted(other, e)
      /\ \E v \in Outcomes(d, e) :
            drain' = [drain EXCEPT ![d].todo = @ \ {e}, ![d].out = Extended(@, e, v)]
  BY <1>1 DEF Apply, Open
<1> PICK v \in Outcomes(d, e) :
         drain' = [drain EXCEPT ![d].todo = @ \ {e}, ![d].out = Extended(@, e, v)]
  BY <1>2
<1>3. /\ \A f \in drain[d].todo : Rank[e] <= Rank[f]
      /\ drain[d].todo \subseteq Entries /\ Outs(d) \subseteq Entries
  <2>1. drain[d].todo \subseteq Entries /\ drain[d].todo # {} /\ Outs(d) \subseteq Entries
    BY DEF Apply, IInv, Typed, DrainTyped, Outs
  <2> QED BY <1>1, <2>1, FirstIsFirst
<1>4. /\ DOMAIN drain' = Drains /\ \A c \in Drains \ {d} : drain'[c] = drain[c]
      /\ drain'[d].server = drain[d].server /\ drain'[d].todo = drain[d].todo \ {e}
      /\ drain'[d].out = Extended(drain[d].out, e, v)
      /\ DOMAIN drain'[d] = DOMAIN drain[d]
  BY DEF IInv, Typed, DrainTyped, Fields
<1>5. /\ v \in Verdicts
      /\ v = sub[e] \/ sub[e] = "none"
      /\ v = "NO_SUPPLIER" => \/ sub[e] = "NO_SUPPLIER"
                              \/ Names[e] # NoOne /\ ~Knows(d, e)
  BY <1>1, <1>3 DEF Outcomes, Replayed, Verdicts, Refusals, IInv, Typed
<1>6. BatchInv(d)
  BY <1>1, <1>2 DEF IInv, DrainsAgree
<1>7. /\ Outs(d)' = Outs(d) \cup {e} /\ Open(d)' /\ Batch(d)' = Batch(d)
      /\ e \notin Outs(d)
      /\ drain'[d].out[e] = v /\ \A f \in Outs(d) : drain'[d].out[f] = drain[d].out[f]
  <2>1. e \notin Outs(d)
    BY <1>1, <1>3, <1>6 DEF BatchInv
  <2>2. Outs(d)' = Outs(d) \cup {e}
    BY <1>4 DEF Outs, Extended
  <2> QED BY <1>1, <1>2, <1>3, <1>4, <2>1, <2>2 DEF Outs, Open, Batch, Extended
<1>8. Typed'
  <2>1. \A f \in Outs(d) : drain[d].out[f] \in Verdicts
    BY DEF IInv, Typed, DrainTyped, Outs
  <2>2. DrainTyped(drain'[d])
    <3>1. Fields \subseteq DOMAIN drain'[d] /\ drain'[d].server \in {"open", "done"}
      BY <1>4 DEF IInv, Typed, DrainTyped
    <3>2. DOMAIN drain'[d].out = Outs(d) \cup {e}
      BY <1>7 DEF Outs
    <3> QED BY <1>1, <1>3, <1>4, <1>5, <1>7, <2>1, <3>1, <3>2 DEF DrainTyped
  <2>3. \A c \in Drains : DrainTyped(drain'[c])
    BY <1>4, <2>2 DEF IInv, Typed
  <2> QED BY <1>1, <1>2, <1>4, <2>3 DEF IInv, Typed
<1>9. BatchInv(d)'
  <2>1. \A f \in Outs(d)' : Agrees(d, f)'
    <3>1. \A f \in Outs(d) : Agrees(d, f)'
      BY <1>1, <1>2, <1>4, <1>6, <1>7 DEF BatchInv, Agrees, Open, Outs
    <3>2. Agrees(d, e)'
      BY <1>1, <1>2, <1>4, <1>5, <1>7 DEF Agrees, Inserted, Open, Outs
    <3> QED BY <1>7, <3>1, <3>2
  <2>2. \A f \in Outs(d)' : RefusedFirst(d, f)'
    <3>1. \A f \in Outs(d) : RefusedFirst(d, f)'
      BY <1>1, <1>2, <1>6, <1>7 DEF BatchInv, RefusedFirst
    <3>2. RefusedFirst(d, e)'
      <4> SUFFICES ASSUME v = "NO_SUPPLIER"
                   PROVE  /\ Names[e] # NoOne
                          /\ \/ Names[e] \in Outs(d) /\ drain[d].out[Names[e]] \in Refusals
                             \/ sub[Names[e]] \in Refusals
        BY <1>1, <1>2, <1>7 DEF RefusedFirst
      <4>1. CASE sub[e] = "NO_SUPPLIER"
        BY <1>1, <1>3, <4>1 DEF IInv, SuppliersFirst
      <4>2. CASE Names[e] # NoOne /\ ~Knows(d, e)
        <5> DEFINE s == Names[e]
        <5>1. s \in Entries /\ Rank[s] < Rank[e] /\ Rank[s] \in Nat /\ Rank[e] \in Nat
          BY <1>1, <1>3, <4>2
        <5>2. sub[s] # "APPLIED" /\ ~(s \in Outs(d) /\ drain[d].out[s] = "APPLIED")
          BY <4>2 DEF Knows, Outs
        <5>3. Supplied(d, e)
          BY <1>1, <1>3, <1>6 DEF BatchInv, Batch
        <5>4. s \in drain[d].todo \/ s \in Outs(d)
          BY <4>2, <5>2, <5>3 DEF Supplied, Batch
        <5>5. s \in Outs(d)
          BY <1>1, <1>3, <5>1, <5>4
        <5>6. drain[d].out[s] \in Verdicts
          BY <5>5 DEF IInv, Typed, DrainTyped, Outs
        <5> QED BY <4>2, <5>2, <5>5, <5>6 DEF Verdicts
      <4> QED BY <1>5, <4>1, <4>2
    <3> QED BY <1>7, <3>1, <3>2
  <2>3. \A f \in Outs(d)', g \in drain'[d].todo : Rank[f] < Rank[g]
    <3>1. \A f \in Outs(d), g \in drain[d].todo : Rank[f] < Rank[g]
      BY <1>6 DEF BatchInv
    <3>2. \A g \in drain[d].todo \ {e} : Rank[e] < Rank[g]
      BY <1>3
    <3> QED BY <1>4, <1>7, <3>1, <3>2
  <2>4. \A f \in Batch(d)' : Supplied(d, f)'
    BY <1>1, <1>2, <1>6, <1>7 DEF BatchInv, Supplied
  <2> QED BY <2>1, <2>2, <2>3, <2>4 DEF BatchInv
<1>10. ASSUME NEW c \in Drains \ {d}
       PROVE  /\ Open(c)' => BatchInv(c)'
              /\ ~Open(c)' => AnswerInv(c)'
  <2>1. Open(c)' = Open(c) /\ Outs(c)' = Outs(c) /\ Batch(c)' = Batch(c)
    BY <1>4 DEF Open, Outs, Batch
  <2>2. ASSUME Open(c), NEW f \in Outs(c), Agrees(c, f)
        PROVE  Agrees(c, f)'
    <3>1. sub[f] = "none" => f # e
      BY <1>1, <1>2, <2>2 DEF Inserted, Open, Outs
    <3> QED BY <1>1, <1>2, <1>4, <1>7, <2>2, <3>1 DEF Agrees, Open, Outs
  <2>3. \A f : (RefusedFirst(c, f) => RefusedFirst(c, f)') /\ (Supplied(c, f) => Supplied(c, f)')
    BY <1>1, <1>2, <1>4, <2>1 DEF RefusedFirst, Supplied, Outs
  <2>4. Open(c) => BatchInv(c)'
    BY <1>4, <2>1, <2>2, <2>3 DEF IInv, DrainsAgree, BatchInv
  <2>5. ~Open(c) => AnswerInv(c)'
    BY <1>1, <1>2, <1>4, <2>1 DEF IInv, DrainsAgree, AnswerInv
  <2> QED BY <2>1, <2>4, <2>5
<1>11. DrainsAgree'
  BY <1>7, <1>9, <1>10 DEF DrainsAgree
<1> QED BY <1>1, <1>2, <1>8, <1>11 DEF IInv, CallsAreDirect, CapturedInOrder, Captured,
           DocsAreSubmissions, SuppliersFirst, PhoneTellsTheTruth

\* A commit settles what is fresh in a batch and changes nothing settled.
LEMMA CommitKeeps ==
  ASSUME IInv, NEW d \in Drains, Commit(d)
  PROVE  IInv'
<1>1. /\ UNCHANGED <<row, call>> /\ Open(d)
      /\ sub' = [e \in Entries |-> IF e \in Fresh(d) THEN drain[d].out[e] ELSE sub[e]]
      /\ docs' = [e \in Entries |->
                    IF e \in Fresh(d) /\ drain[d].out[e] = "APPLIED" THEN docs[e] + 1 ELSE docs[e]]
  BY DEF Commit, Open
<1>2. /\ DOMAIN drain' = Drains /\ \A c \in Drains \ {d} : drain'[c] = drain[c]
      /\ drain'[d].server = "done" /\ drain'[d].todo = drain[d].todo
      /\ drain'[d].out \in {drain[d].out, Nothing}
      /\ DOMAIN drain'[d] = DOMAIN drain[d]
  BY DEF Commit, IInv, Typed, DrainTyped, Fields
<1>3. Outs(d) \subseteq Entries /\ \A e \in Outs(d) : drain[d].out[e] \in Verdicts
  BY DEF IInv, Typed, DrainTyped, Outs
<1>4. Fresh(d) = {e \in Outs(d) : sub[e] = "none"}
  BY DEF Fresh, Replayed, Outs
<1>5. BatchInv(d)
  BY <1>1 DEF IInv, DrainsAgree
<1>6. /\ sub' \in [Entries -> {"none"} \cup Verdicts]
      /\ \A e \in Entries : sub[e] # "none" => sub'[e] = sub[e]
      /\ \A e \in Outs(d) : sub'[e] = drain[d].out[e]
      /\ \A e \in Entries \ Outs(d) : sub'[e] = sub[e]
  BY <1>1, <1>3, <1>4, <1>5 DEF IInv, Typed, BatchInv, Agrees
<1>7. Typed'
  <2>1. DrainTyped(drain'[d])
    BY <1>2 DEF IInv, Typed, DrainTyped, Nothing
  <2>2. \A c \in Drains : DrainTyped(drain'[c])
    BY <1>2, <2>1 DEF IInv, Typed
  <2>3. docs' \in [Entries -> Nat]
    BY <1>1 DEF IInv, Typed
  <2> QED BY <1>1, <1>2, <1>6, <2>2, <2>3 DEF IInv, Typed
<1>8. DocsAreSubmissions' /\ CallsAreDirect'
  <2>1. \A e \in Entries : docs[e] \in Nat
    BY DEF IInv, Typed
  <2>2. \A e \in Entries : docs'[e] = IF e \in Fresh(d) /\ drain[d].out[e] = "APPLIED"
                                      THEN docs[e] + 1 ELSE docs[e]
    BY <1>1
  <2>3. CallsAreDirect'
    BY <1>1, <2>1, <2>2 DEF IInv, CallsAreDirect
  <2>4. \A e \in Entries : e \in Fresh(d) \/ sub'[e] = sub[e]
    BY <1>1
  <2>5. \A e \in Fresh(d) : sub[e] = "none" /\ sub'[e] = drain[d].out[e]
    BY <1>1, <1>3, <1>4
  <2>6. DocsAreSubmissions'
    BY <2>1, <2>2, <2>4, <2>5 DEF IInv, DocsAreSubmissions
  <2> QED BY <2>3, <2>6
<1>9. SuppliersFirst'
  <2> SUFFICES ASSUME NEW e \in Entries, sub'[e] = "NO_SUPPLIER"
               PROVE  Names[e] # NoOne /\ sub'[Names[e]] \in Refusals
    BY DEF SuppliersFirst
  <2>1. CASE e \notin Outs(d)
    <3>1. Names[e] # NoOne /\ sub[Names[e]] \in Refusals
      BY <1>6, <2>1 DEF IInv, SuppliersFirst
    <3> QED BY <1>6, <3>1 DEF Refusals
  <2>2. CASE e \in Outs(d)
    <3>1. drain[d].out[e] = "NO_SUPPLIER"
      BY <1>6, <2>2
    <3>2. RefusedFirst(d, e)
      BY <1>5, <2>2 DEF BatchInv
    <3> QED BY <1>6, <3>1, <3>2 DEF RefusedFirst, Refusals
  <2> QED BY <2>1, <2>2
<1>10. PhoneTellsTheTruth'
  <2>1. \A e \in Entries : docs[e] > 0 => docs'[e] > 0
    BY <1>1 DEF IInv, Typed
  <2> QED BY <1>1, <1>6, <2>1 DEF IInv, PhoneTellsTheTruth, Verdicts, Refusals
<1>11. ~Open(d)' /\ AnswerInv(d)'
  <2>1. \/ drain'[d].out = drain[d].out
        \/ DOMAIN drain'[d].out = {}
    BY <1>2 DEF Nothing
  <2> QED BY <1>2, <1>6, <2>1 DEF Open, AnswerInv, Outs
<1>12. ASSUME NEW c \in Drains \ {d}
       PROVE  /\ Open(c)' => BatchInv(c)'
              /\ ~Open(c)' => AnswerInv(c)'
  <2>1. Open(c)' = Open(c) /\ Outs(c)' = Outs(c) /\ Batch(c)' = Batch(c)
    BY <1>2 DEF Open, Outs, Batch
  <2>2. Outs(c) \subseteq Entries /\ \A e \in Outs(c) : drain[c].out[e] \in Verdicts
    BY DEF IInv, Typed, DrainTyped, Outs
  <2>3. ASSUME NEW e \in Outs(c), Agrees(c, e)
        PROVE  Agrees(c, e)'
    <3>1. sub[e] = "none" => sub'[e] = "none"
      BY <1>1, <1>6, <2>2, <2>3 DEF Agrees, Verdicts, Refusals
    <3>2. \A other \in Drains :
             Open(other)' /\ e \in Outs(other)' => Open(other) /\ e \in Outs(other)
      BY <1>2, <1>11 DEF Open, Outs
    <3>3. sub[e] = drain[c].out[e] => sub'[e] = drain'[c].out[e]
      BY <1>2, <1>6, <2>2 DEF Verdicts, Refusals
    <3> QED BY <2>3, <3>1, <3>2, <3>3 DEF Agrees
  <2>4. \A e \in Entries : /\ RefusedFirst(c, e) => RefusedFirst(c, e)'
                           /\ Supplied(c, e) => Supplied(c, e)'
    BY <1>2, <1>6, <2>1 DEF RefusedFirst, Supplied, Outs, Refusals
  <2>5. Open(c) => BatchInv(c)'
    <3>1. Batch(c) \subseteq Entries
      BY <2>2 DEF Batch, IInv, Typed, DrainTyped
    <3> QED BY <1>2, <2>1, <2>2, <2>3, <2>4, <3>1 DEF IInv, DrainsAgree, BatchInv
  <2>6. ~Open(c) => AnswerInv(c)'
    BY <1>2, <1>6, <2>1, <2>2 DEF IInv, DrainsAgree, AnswerInv, Verdicts, Refusals
  <2> QED BY <2>1, <2>5, <2>6
<1>13. DrainsAgree'
  BY <1>11, <1>12 DEF DrainsAgree
<1>14. CapturedInOrder'
  BY <1>1 DEF IInv, CapturedInOrder, Captured
<1> QED BY <1>7, <1>8, <1>9, <1>10, <1>13, <1>14 DEF IInv

\* Every step keeps the invariant.
LEMMA IInvNext == IInv /\ [Next]_vars => IInv'
<1> SUFFICES ASSUME IInv, [Next]_vars
             PROVE  IInv'
  OBVIOUS
<1>1. CASE UNCHANGED vars
  BY <1>1, ServerKeeps DEF vars, IInv, Typed, CallsAreDirect, CapturedInOrder, Captured,
     DocsAreSubmissions, PhoneTellsTheTruth
<1>2. CASE Clear \/ \E e \in Entries : HearOnline(e)
  BY <1>2, LeavingKeeps
<1>3. CASE \E e \in Entries : Enqueue(e) \/ CallOnline(e) \/ FallBack(e)
  BY <1>3, CaptureKeeps
<1>4. CASE \E e \in Entries : ServeOnline(e)
  BY <1>4, ServeOnlineKeeps
<1>5. CASE \E e \in Entries : Doom(e)
  BY <1>5, DoomKeeps
<1>6. CASE \E d \in Drains : Send(d)
  BY <1>6, SendKeeps
<1>7. CASE \E d \in Drains : Apply(d)
  BY <1>7, ApplyKeeps
<1>8. CASE \E d \in Drains : Commit(d)
  BY <1>8, CommitKeeps
<1>9. CASE \E d \in Drains : Rollback(d)
  BY <1>9, RollbackKeeps
<1>10. CASE \E d \in Drains : Hear(d)
  BY <1>10, HearKeeps
<1>11. CASE \E d \in Drains : GiveUp(d)
  BY <1>11, GiveUpKeeps
<1> QED BY <1>1, <1>2, <1>3, <1>4, <1>5, <1>6, <1>7, <1>8, <1>9, <1>10, <1>11
           DEF Next, Phone, Progress

\* The phone shows what the server has, and nothing captured is dropped
\* (frontend/src/offline/sync.ts).
THEOREM TruthOnThePhone == Spec => []PhoneTellsTheTruth
<1>1. IInv => PhoneTellsTheTruth
  BY DEF IInv
<1> QED BY <1>1, IInvInit, IInvNext, PTL DEF Spec

\* Nothing overtakes the supplier it names (sync/services.py).
THEOREM SuppliersAreNotOvertaken == Spec => []SupplierComesFirst
<1>1. IInv => SupplierComesFirst
  BY DEF IInv, SuppliersFirst, SupplierComesFirst
<1> QED BY <1>1, IInvInit, IInvNext, PTL DEF Spec

-----------------------------------------------------------------------------
(* The refinement of Captures.                                             *)

\* What the phone tells of a row.
Tells(r) == CASE r \in {"APPLIED", "gone"} -> "landed"
              [] r \in Refusals -> "refused"
              [] OTHER -> "nothing"

Documents == [e \in Offline |-> docs[e]]
Refused == {e \in Offline : sub[e] \in Refusals}
Told == [e \in Offline |-> Tells(row[e])]

\* The steps of the abstract specification, in the terms of the queue.
LEMMA PromiseUnfolded ==
  /\ Promise!Init <=> /\ Documents = [e \in Offline |-> 0] /\ Refused = {}
                      /\ Told = [e \in Offline |-> "nothing"]
  /\ UNCHANGED <<Documents, Refused, Told>> => UNCHANGED Promise!vars
  /\ Promise!Landed = {e \in Offline : Documents[e] = 1}
  /\ Promise!Settled = Promise!Landed \cup Refused
BY DEF Promise!Init, Promise!vars, Promise!Landed, Promise!Settled, Documents, Refused, Told, Tells

\* A capture that never went online is settled when it has a submission.
LEMMA SettledIsSubmitted ==
  ASSUME IInv
  PROVE  /\ Promise!Landed = {e \in Offline : sub[e] = "APPLIED"}
         /\ Promise!Settled = {e \in Offline : sub[e] # "none"}
<1>1. \A e \in Offline : /\ docs[e] = IF sub[e] = "APPLIED" THEN 1 ELSE 0
                         /\ sub[e] \in {"none"} \cup Verdicts
  BY DEF IInv, Typed, DocsAreSubmissions, Offline
<1> QED BY <1>1, PromiseUnfolded DEF Documents, Refused, Verdicts, Refusals

\* A commit settles captures that were not.
LEMMA CommitSettles ==
  ASSUME IInv, IInv', NEW d \in Drains, Commit(d)
  PROVE  Promise!Settle \/ UNCHANGED Promise!vars
<1> DEFINE land == {e \in Offline : sub[e] = "none" /\ sub'[e] = "APPLIED"}
           refuse == {e \in Offline : sub[e] = "none" /\ sub'[e] \in Refusals}
<1>1. /\ row' = row
      /\ sub' = [e \in Entries |-> IF e \in Fresh(d) THEN drain[d].out[e] ELSE sub[e]]
  BY DEF Commit
<1>2. \A e \in Offline : /\ sub[e] # "none" => sub'[e] = sub[e]
                         /\ sub'[e] \in {"none"} \cup Verdicts
                         /\ docs[e] = IF sub[e] = "APPLIED" THEN 1 ELSE 0
                         /\ docs'[e] = IF sub'[e] = "APPLIED" THEN 1 ELSE 0
  BY <1>1 DEF Fresh, Replayed, IInv, Typed, DocsAreSubmissions, Offline
<1>3. Told' = Told
  BY <1>1 DEF Told
<1>4. CASE land \cup refuse = {}
  <2>1. \A e \in Offline : sub'[e] = sub[e] /\ docs'[e] = docs[e]
    BY <1>2, <1>4 DEF Verdicts, Refusals
  <2> QED BY <1>3, <2>1, PromiseUnfolded DEF Documents, Refused
<1>5. CASE land \cup refuse # {}
  <2>1. land \in SUBSET (Offline \ Promise!Settled) /\ refuse \in SUBSET (Offline \ Promise!Settled)
    BY SettledIsSubmitted
  <2>2. land \cap refuse = {}
    BY DEF Refusals
  <2>3. Documents' = [e \in Offline |-> IF e \in land THEN 1 ELSE Documents[e]]
    BY <1>2 DEF Documents
  <2>4. Refused' = Refused \cup refuse
    BY <1>2 DEF Refused, Refusals, Verdicts
  <2> HIDE DEF land, refuse
  <2> QED BY <1>3, <1>5, <2>1, <2>2, <2>3, <2>4
          DEF Promise!Settle, Documents, Refused, Told, Tells
<1> QED BY <1>4, <1>5

\* Answers that are heard tell of what is settled.
LEMMA HearTells ==
  ASSUME IInv, NEW d \in Drains, Hear(d)
  PROVE  Promise!Tell \/ UNCHANGED Promise!vars
<1> DEFINE some == {e \in Offline : row'[e] # row[e]}
<1>1. UNCHANGED <<sub, docs>> /\ drain[d].server = "done"
  BY DEF Hear
<1>2. \A e \in Outs(d) : drain[d].out[e] = sub[e] /\ drain[d].out[e] \in Verdicts
  BY <1>1 DEF IInv, DrainsAgree, Open, AnswerInv, Typed, DrainTyped, Outs
<1>3. \A e \in some : sub[e] \in Verdicts /\ row'[e] = sub[e]
  BY <1>2 DEF Hear, Marked, Outs, Offline
<1>4. Documents' = Documents /\ Refused' = Refused
  BY <1>1 DEF Documents, Refused
<1>5. CASE some = {}
  <2>1. Told' = Told
    BY <1>5 DEF Told
  <2> QED BY <1>4, <2>1, PromiseUnfolded
<1>6. CASE some # {}
  <2>1. some \in SUBSET Promise!Settled
    BY <1>3, SettledIsSubmitted DEF Verdicts, Refusals
  <2>2. Told' = [e \in Offline |-> IF e \in some
                                   THEN IF e \in Promise!Landed THEN "landed" ELSE "refused"
                                   ELSE Told[e]]
    <3>1. \A e \in some : Tells(row'[e]) = IF e \in Promise!Landed THEN "landed" ELSE "refused"
      BY <1>3, SettledIsSubmitted DEF Tells, Verdicts, Refusals
    <3>2. \A e \in Offline \ some : Tells(row'[e]) = Tells(row[e])
      OBVIOUS
    <3> HIDE DEF some
    <3> QED BY <3>1, <3>2 DEF Told
  <2> HIDE DEF some
  <2> QED BY <1>4, <1>6, <2>1, <2>2 DEF Promise!Tell, Documents, Refused, Told, Tells
<1> QED BY <1>5, <1>6

\* Every other step is a stutter.
LEMMA OthersStutter ==
  ASSUME IInv, [Next]_vars, ~ \E d \in Drains : Commit(d) \/ Hear(d)
  PROVE  UNCHANGED Promise!vars
<1>1. CASE UNCHANGED vars
  BY <1>1, PromiseUnfolded DEF vars, Documents, Refused, Told
<1>2. CASE \E e \in Entries : Enqueue(e) \/ FallBack(e)
  <2>1. PICK e \in Entries : /\ row[e] = "none" /\ row' = [row EXCEPT ![e] = "PENDING"]
                             /\ UNCHANGED <<sub, docs>>
    BY <1>2 DEF Enqueue, FallBack, MayCapture
  <2>2. Told' = Told
    BY <2>1 DEF Told, Tells, Refusals, IInv, Typed
  <2> QED BY <2>1, <2>2, PromiseUnfolded DEF Documents, Refused
<1>3. CASE \E e \in Entries : HearOnline(e)
  <2>1. PICK e \in Entries : /\ call[e] # "none" /\ row' = [row EXCEPT ![e] = "gone"]
                             /\ UNCHANGED <<sub, docs>>
    BY <1>3 DEF HearOnline
  <2>2. e \notin Offline
    BY <2>1 DEF IInv, CallsAreDirect, Offline
  <2>3. Told' = Told
    BY <2>1, <2>2 DEF Told, IInv, Typed, Offline
  <2> QED BY <2>1, <2>3, PromiseUnfolded DEF Documents, Refused
<1>4. CASE \E e \in Entries : ServeOnline(e)
  <2>1. PICK e \in Entries : /\ call[e] = "sent" /\ UNCHANGED <<row, sub>>
                             /\ docs' = [docs EXCEPT ![e] = @ + 1] \/ docs' = docs
    BY <1>4 DEF ServeOnline
  <2>2. e \notin Offline
    BY <2>1 DEF IInv, CallsAreDirect, Offline
  <2>3. Documents' = Documents
    BY <2>1, <2>2 DEF Documents, IInv, Typed, Offline
  <2> QED BY <2>1, <2>3, PromiseUnfolded DEF Refused, Told
<1>5. CASE Clear
  <2>1. /\ row' = [e \in Entries |-> IF row[e] = "APPLIED" THEN "gone" ELSE row[e]]
        /\ UNCHANGED <<sub, docs>>
    BY <1>5 DEF Clear
  <2>2. Told' = Told
    <3>1. \A e \in Offline : row'[e] = row[e] \/ (row[e] = "APPLIED" /\ row'[e] = "gone")
      BY <2>1 DEF Offline
    <3>2. Tells("APPLIED") = Tells("gone")
      BY DEF Tells, Refusals
    <3>3. \A e \in Offline : Tells(row'[e]) = Tells(row[e])
      BY <3>1, <3>2
    <3> QED BY <3>3 DEF Told
  <2> QED BY <2>1, <2>2, PromiseUnfolded DEF Documents, Refused
<1>6. CASE \/ \E e \in Entries : CallOnline(e) \/ Doom(e)
           \/ \E d \in Drains : Send(d) \/ Apply(d) \/ Rollback(d) \/ GiveUp(d)
  <2>1. UNCHANGED <<row, sub, docs>>
    BY <1>6 DEF CallOnline, Doom, Send, Apply, Rollback, GiveUp
  <2> QED BY <2>1, PromiseUnfolded DEF Documents, Refused, Told
<1> QED BY <1>1, <1>2, <1>3, <1>4, <1>5, <1>6 DEF Next, Phone, Progress

\* The offline queue implements Captures: every step of the phone, of a drain and of the
\* server settles captures, tells of settled ones, or changes nothing that was promised.
THEOREM QueueKeepsThePromise == Spec => KeepsThePromise
<1>1. Init => Promise!Init
  BY PromiseUnfolded DEF Init, Documents, Refused, Told, Tells, Refusals, Offline
<1>2. IInv /\ IInv' /\ [Next]_vars => [Promise!Next]_Promise!vars
  BY CommitSettles, HearTells, OthersStutter DEF Promise!Next
<1> QED BY <1>1, <1>2, IInvInit, IInvNext, PTL DEF Spec, KeepsThePromise, Promise!Spec
=============================================================================
