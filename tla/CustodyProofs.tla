--------------------------- MODULE CustodyProofs ---------------------------
(***************************************************************************)
(* For any people, jobs, closeouts, web workers and sweeps: what close_job *)
(* and deactivate_user have read is still so when they save unless         *)
(* something reached the person in between, and the stages of the chase    *)
(* come in their turn.                                                     *)
(***************************************************************************)
EXTENDS Custody, SequenceTheorems, FiniteSetTheorems, TLAPS

Expectations == [holder : People, due : Nat, status : {"OPEN", "OVERDUE"},
                 reminded : SUBSET ToSet(Stages)]

Typed ==
    /\ today \in Nat
    /\ holds \in [People -> Nat]
    /\ owed \in Seq(Expectations)
    /\ active \subseteq People
    /\ DOMAIN req = Procs

Fields == {"op", "about", "who", "job", "overtaken"}

RequestTyped(r) ==
    /\ Fields \subseteq DOMAIN r
    /\ r.who \in People
    /\ r.op = "CLOSEOUT" => r.about \in Closeouts

\* Who asks to leave holds nothing, or has been handed something since.
LeaverSeen(r) ==
    r.op = "DEACTIVATE" => /\ r.about = r.who
                           /\ r.overtaken \/ holds[r.who] = 0

\* Whose job is to be closed without a variance owes nothing, or does since.
CloserSeen(r) ==
    r.op = "CLOSE" /\ r.job = "CLEAN" => r.overtaken \/ Owes(r.who) = {}

RequestsAgree ==
    \A p \in Procs : req[p] # Idle => /\ RequestTyped(req[p])
                                      /\ LeaverSeen(req[p])
                                      /\ CloserSeen(req[p])

IInv == Typed /\ RequestsAgree

USE CustodyAssumption

-----------------------------------------------------------------------------

\* A step that brings a person neither material nor a debt.
NothingNew(h) ==
    /\ holds[h] = 0 => holds'[h] = 0
    /\ (\A e \in DOMAIN owed : owed[e].holder # h)
          => \A e \in DOMAIN owed' : owed'[e].holder # h

\* No expectation is ever settled: what is outstanding is all that is owed.
LEMMA OutstandingIsOwed ==
  ASSUME Typed, NEW h
  PROVE  OutstandingOf(h) = Owes(h)
<1>1. \A e \in DOMAIN owed : owed[e] \in Expectations
  BY DEF Typed
<1>2. \A e \in DOMAIN owed : owed[e].status \in {"OPEN", "OVERDUE"}
  BY <1>1 DEF Expectations
<1> QED BY <1>2 DEF OutstandingOf, Owes, IsOpen

\* Requests agree with the books after a step that ends them, leaves them and what they
\* have read alone, or tells them that they are overtaken.
LEMMA RequestsKeep ==
  ASSUME IInv,
         \A q \in Procs :
            \/ req'[q] = Idle
            \/ req'[q] = req[q] /\ (req[q] # Idle => NothingNew(req[q].who))
            \/ req[q] # Idle /\ req'[q] = [req[q] EXCEPT !.overtaken = TRUE]
  PROVE  RequestsAgree'
<1> SUFFICES ASSUME NEW q \in Procs, req'[q] # Idle
             PROVE  RequestTyped(req'[q]) /\ LeaverSeen(req[q])' /\ CloserSeen(req[q])'
  BY DEF RequestsAgree
<1>1. CASE req'[q] = req[q] /\ NothingNew(req[q].who)
  <2>1. RequestTyped(req[q]) /\ LeaverSeen(req[q]) /\ CloserSeen(req[q])
    BY <1>1 DEF IInv, RequestsAgree
  <2>2. LeaverSeen(req[q])'
    BY <1>1, <2>1 DEF LeaverSeen, NothingNew
  <2>3. CloserSeen(req[q])'
    BY <1>1, <2>1 DEF CloserSeen, NothingNew, Owes
  <2> QED BY <1>1, <2>1, <2>2, <2>3
<1>2. CASE req[q] # Idle /\ req'[q] = [req[q] EXCEPT !.overtaken = TRUE]
  <2>1. RequestTyped(req[q]) /\ LeaverSeen(req[q])
    BY <1>2 DEF IInv, RequestsAgree
  <2>2. /\ DOMAIN req'[q] = DOMAIN req[q]
        /\ req'[q].overtaken = TRUE
        /\ \A f \in Fields \ {"overtaken"} : req'[q][f] = req[q][f]
    BY <1>2, <2>1 DEF RequestTyped, Fields
  <2>3. /\ req'[q].op = req[q].op /\ req'[q].who = req[q].who
        /\ req'[q].about = req[q].about
    BY <2>2 DEF Fields
  <2> QED BY <2>1, <2>2, <2>3 DEF RequestTyped, LeaverSeen, CloserSeen
<1> QED BY <1>1, <1>2

\* A step that touches neither the books nor what a request has read.
LEMMA OthersKeep ==
  ASSUME IInv, UNCHANGED <<holds, owed, req>>, today' \in Nat, active' \subseteq People
  PROVE  IInv'
<1>1. Typed'
  BY DEF IInv, Typed
<1>2. \A h : NothingNew(h)
  BY DEF NothingNew
<1>3. \A q \in Procs : req'[q] = req[q]
  OBVIOUS
<1> QED BY <1>1, <1>2, <1>3, RequestsKeep DEF IInv

\* The end of a request that leaves the books alone.
LEMMA EndKeeps ==
  ASSUME IInv, NEW p \in Procs, req' = End(p), UNCHANGED <<today, holds, owed>>,
         active' \subseteq People
  PROVE  IInv'
<1>1. Typed'
  BY DEF IInv, Typed, End
<1>2. \A h : NothingNew(h)
  BY DEF NothingNew
<1>3. \A q \in Procs : req'[q] = Idle \/ req'[q] = req[q]
  BY DEF IInv, Typed, End
<1> QED BY <1>1, <1>2, <1>3, RequestsKeep DEF IInv

\* Whoever is told that they are overtaken.
LEMMA Overtaken ==
  ASSUME NEW h, NEW q \in Procs
  PROVE  \/ Overtake(h)[q] = req[q] /\ (req[q] # Idle => req[q].who # h)
         \/ req[q] # Idle /\ Overtake(h)[q] = [req[q] EXCEPT !.overtaken = TRUE]
BY DEF Overtake

\* A new expectation of one person is nobody else's.
LEMMA OneMoreExpectation ==
  ASSUME Typed, NEW h \in People, NEW due \in Nat, NEW k, k # h,
         owed' = owed \/ owed' = Append(owed, Expectation(h, due))
  PROVE  /\ owed' \in Seq(Expectations)
         /\ (\A e \in DOMAIN owed : owed[e].holder # k)
              => \A e \in DOMAIN owed' : owed'[e].holder # k
<1> DEFINE x == Expectation(h, due)
<1>1. x \in Expectations /\ x.holder = h
  BY DEF Expectation, Expectations
<1> HIDE DEF x
<1>2. CASE owed' = owed
  BY <1>2 DEF Typed
<1>3. CASE owed' = Append(owed, x)
  <2>1. owed \in Seq(Expectations)
    BY DEF Typed
  <2>2. /\ owed' \in Seq(Expectations)
        /\ DOMAIN owed' = 1 .. Len(owed) + 1
        /\ \A e \in 1 .. Len(owed) : owed'[e] = owed[e]
        /\ owed'[Len(owed) + 1] = x
    BY <1>1, <1>3, <2>1
  <2>3. DOMAIN owed = 1 .. Len(owed)
    BY <2>1
  <2> QED BY <1>1, <2>2, <2>3
<1> QED BY <1>2, <1>3 DEF x

-----------------------------------------------------------------------------

\* Nobody is in a request.
LEMMA IInvInit == Init => IInv
<1> SUFFICES ASSUME Init PROVE IInv
  OBVIOUS
<1>1. Typed
  BY DEF Init, Typed
<1>2. RequestsAgree
  BY DEF Init, RequestsAgree
<1> QED BY <1>1, <1>2 DEF IInv

\* A release tells the requests about the holder.
LEMMA ReleaseKeeps ==
  ASSUME IInv, NEW h \in People, ReleaseLine(h)
  PROVE  IInv'
<1>1. PICK due \in Nat : owed' = owed \/ owed' = Append(owed, Expectation(h, due))
  BY DEF ReleaseLine, NoDate, IInv, Typed
<1>2. /\ holds' = [holds EXCEPT ![h] = @ + 1] /\ req' = Overtake(h)
      /\ UNCHANGED <<today, active>>
  BY DEF ReleaseLine
<1>3. owed' \in Seq(Expectations)
  <2>1. PICK k : k # h
    OBVIOUS
  <2> QED BY <1>1, <2>1, OneMoreExpectation DEF IInv
<1>4. Typed'
  BY <1>2, <1>3 DEF IInv, Typed, Overtake
<1>5. \A k \in People \ {h} : NothingNew(k)
  BY <1>1, <1>2, OneMoreExpectation DEF IInv, Typed, NothingNew
<1>6. ASSUME NEW q \in Procs
      PROVE  \/ req'[q] = Idle
             \/ req'[q] = req[q] /\ (req[q] # Idle => NothingNew(req[q].who))
             \/ req[q] # Idle /\ req'[q] = [req[q] EXCEPT !.overtaken = TRUE]
  BY <1>2, <1>5, Overtaken DEF IInv, RequestsAgree, RequestTyped
<1> QED BY <1>4, <1>6, RequestsKeep DEF IInv

\* A handover tells the requests about the receiver; the giver has no more than before.
LEMMA HandoverKeeps ==
  ASSUME IInv, NEW from \in People, NEW to \in People, Handover(from, to)
  PROVE  IInv'
<1>1. /\ from # to /\ owed' = MoveExpectations(from, to) /\ req' = Overtake(to)
      /\ UNCHANGED <<today, active>>
  BY DEF Handover
<1>2. PICK qty \in 1 .. holds[from] :
         holds' = [holds EXCEPT ![from] = @ - qty, ![to] = @ + qty]
  BY DEF Handover
<1>3. /\ holds' \in [People -> Nat] /\ holds[from] # 0
      /\ \A k \in People \ {from, to} : holds'[k] = holds[k]
  BY <1>1, <1>2 DEF IInv, Typed
<1>4. /\ owed' \in Seq(Expectations)
      /\ DOMAIN owed' = DOMAIN owed
      /\ \A e \in DOMAIN owed : owed'[e].holder \in {to, owed[e].holder}
  <2>1. owed \in Seq(Expectations) /\ DOMAIN owed = 1 .. Len(owed)
    BY DEF IInv, Typed
  <2>2. DOMAIN owed' = DOMAIN owed
    BY <1>1 DEF MoveExpectations
  <2>3. ASSUME NEW e \in DOMAIN owed
        PROVE  owed'[e] \in Expectations /\ owed'[e].holder \in {to, owed[e].holder}
    <3>1. owed'[e] = owed[e] \/ owed'[e] = [owed[e] EXCEPT !.holder = to]
      BY <1>1 DEF MoveExpectations
    <3>2. owed[e] \in Expectations
      BY <2>1
    <3> QED BY <3>1, <3>2 DEF Expectations
  <2>4. owed' = [e \in 1 .. Len(owed) |-> owed'[e]]
    BY <1>1, <2>1 DEF MoveExpectations
  <2>5. owed' \in [1 .. Len(owed) -> Expectations]
    BY <2>1, <2>3, <2>4
  <2>6. owed' \in Seq(Expectations)
    BY <2>1, <2>5, SeqDef, LenProperties
  <2> QED BY <2>2, <2>3, <2>6
<1>5. Typed'
  BY <1>1, <1>3, <1>4 DEF IInv, Typed, Overtake
<1>6. \A k \in People \ {to} : NothingNew(k)
  BY <1>3, <1>4 DEF NothingNew
<1>7. ASSUME NEW q \in Procs
      PROVE  \/ req'[q] = Idle
             \/ req'[q] = req[q] /\ (req[q] # Idle => NothingNew(req[q].who))
             \/ req[q] # Idle /\ req'[q] = [req[q] EXCEPT !.overtaken = TRUE]
  BY <1>1, <1>6, Overtaken DEF IInv, RequestsAgree, RequestTyped
<1> QED BY <1>5, <1>7, RequestsKeep DEF IInv

\* What comes back leaves the balance, and no expectation is settled by it.
LEMMA ReturnKeeps ==
  ASSUME IInv, NEW h \in People, Return(h)
  PROVE  IInv'
<1>1. UNCHANGED <<today, owed, active, req>>
  BY DEF Return
<1>2. PICK qty \in 1 .. holds[h] : holds' = [holds EXCEPT ![h] = @ - qty]
  BY DEF Return
<1>3. /\ holds' \in [People -> Nat] /\ holds[h] # 0
      /\ \A k \in People \ {h} : holds'[k] = holds[k]
  BY <1>2 DEF IInv, Typed
<1>4. Typed'
  BY <1>1, <1>3 DEF IInv, Typed
<1>5. \A k \in People : NothingNew(k)
  BY <1>1, <1>3 DEF NothingNew
<1> QED BY <1>1, <1>4, <1>5, RequestsKeep DEF IInv, RequestsAgree, RequestTyped

\* A closeout takes what is gone; what it expects back it tells the others.
LEMMA SubmitCloseoutKeeps ==
  ASSUME IInv, NEW p \in Procs, SubmitCloseout(p)
  PROVE  IInv'
<1>1. PICK c \in Closeouts : c = req[p].about
  BY DEF SubmitCloseout, IInv, RequestsAgree, RequestTyped
<1>2. PICK h \in People : h = Assignee[c.job]
  OBVIOUS
<1>3. /\ holds[h] >= c.gone
      /\ holds' = [holds EXCEPT ![h] = @ - c.gone]
      /\ owed' = owed \o [k \in 1 .. c.back |-> Expectation(h, today)]
      /\ req' = [q \in Procs |-> IF q = p THEN Idle
                                 ELSE IF c.back > 0 THEN Overtake(h)[q] ELSE req[q]]
      /\ UNCHANGED <<today, active>>
  BY <1>1, <1>2 DEF SubmitCloseout
<1>4. c.gone \in Nat /\ c.back \in 0 .. 1
  OBVIOUS
<1>5. /\ holds' \in [People -> Nat]
      /\ \A k \in People : holds[k] = 0 => holds'[k] = 0
  BY <1>3, <1>4 DEF IInv, Typed
<1>6. CASE c.back = 0
  <2>1. owed' = owed
    <3>1. [k \in 1 .. c.back |-> Expectation(h, today)] = << >>
      BY <1>6
    <3> QED BY <1>3, <3>1 DEF IInv, Typed
  <2>2. Typed' /\ \A k \in People : NothingNew(k)
    BY <1>3, <1>5, <2>1 DEF IInv, Typed, NothingNew
  <2>3. \A q \in Procs : req'[q] = Idle \/ req'[q] = req[q]
    BY <1>3, <1>6
  <2> QED BY <2>2, <2>3, RequestsKeep DEF IInv, RequestsAgree, RequestTyped
<1>7. CASE c.back = 1
  <2>1. owed' = Append(owed, Expectation(h, today))
    <3>1. [k \in 1 .. c.back |-> Expectation(h, today)] = << Expectation(h, today) >>
      BY <1>7
    <3>2. owed' = owed \o << Expectation(h, today) >>
      BY <1>3, <3>1, Zenon
    <3>3. owed \in Seq(Expectations)
      BY DEF IInv, Typed
    <3> QED BY <3>2, <3>3
  <2>2. owed' \in Seq(Expectations)
    <3>1. PICK k : k # h
      OBVIOUS
    <3> QED BY <2>1, <3>1, OneMoreExpectation DEF IInv, Typed
  <2>3. Typed'
    BY <1>3, <1>5, <2>2 DEF IInv, Typed
  <2>4. \A k \in People \ {h} : NothingNew(k)
    BY <1>5, <2>1, OneMoreExpectation DEF IInv, Typed, NothingNew
  <2>5. ASSUME NEW q \in Procs
        PROVE  \/ req'[q] = Idle
               \/ req'[q] = req[q] /\ (req[q] # Idle => NothingNew(req[q].who))
               \/ req[q] # Idle /\ req'[q] = [req[q] EXCEPT !.overtaken = TRUE]
    <3>1. req'[q] = Idle \/ req'[q] = Overtake(h)[q]
      BY <1>3, <1>7
    <3> QED BY <2>4, <3>1, Overtaken DEF IInv, RequestsAgree, RequestTyped
  <2> QED BY <2>3, <2>5, RequestsKeep DEF IInv
<1> QED BY <1>4, <1>6, <1>7

\* A request that starts has just read the books.
LEMMA StartKeeps ==
  ASSUME IInv, NEW p \in Procs, NEW op, NEW about, NEW who \in People, NEW seen,
         Start(p, op, about, who, seen),
         op = "CLOSEOUT" => about \in Closeouts,
         op = "DEACTIVATE" => about = who /\ holds[who] = 0,
         op = "CLOSE" /\ seen = "CLEAN" => Owes(who) = {}
  PROVE  IInv'
<1> DEFINE r == [op |-> op, about |-> about, who |-> who, job |-> seen, overtaken |-> FALSE]
<1>1. /\ req' = [req EXCEPT ![p] = r]
      /\ UNCHANGED <<today, holds, owed, active>>
  BY DEF Start, books
<1>2. Typed'
  BY <1>1 DEF IInv, Typed
<1>3. RequestTyped(r)
  BY DEF RequestTyped, Fields
<1>4. /\ r.op = op /\ r.about = about /\ r.who = who /\ r.job = seen
      /\ r.overtaken = FALSE
  OBVIOUS
<1> HIDE DEF r
<1>5. ASSUME NEW q \in Procs, req'[q] # Idle
      PROVE  RequestTyped(req'[q]) /\ LeaverSeen(req[q])' /\ CloserSeen(req[q])'
  <2>1. CASE q = p
    <3>1. req'[q] = r
      BY <1>1, <2>1 DEF IInv, Typed
    <3>2. LeaverSeen(req[q])'
      BY <1>1, <1>4, <3>1 DEF LeaverSeen
    <3>3. CloserSeen(req[q])'
      BY <1>1, <1>4, <3>1 DEF CloserSeen, Owes
    <3> QED BY <1>3, <3>1, <3>2, <3>3
  <2>2. CASE q # p
    <3>1. req'[q] = req[q]
      BY <1>1, <2>2 DEF IInv, Typed
    <3>2. RequestTyped(req[q]) /\ LeaverSeen(req[q]) /\ CloserSeen(req[q])
      BY <1>5, <3>1 DEF IInv, RequestsAgree
    <3> QED BY <1>1, <3>1, <3>2 DEF LeaverSeen, CloserSeen, Owes
  <2> QED BY <2>1, <2>2
<1> QED BY <1>2, <1>5 DEF IInv, RequestsAgree

\* The commit of a sweep marks and stamps, and moves nothing.
LEMMA SweepCommitKeeps ==
  ASSUME IInv, NEW w \in Workers, SweepCommit(w)
  PROVE  IInv'
<1>1. UNCHANGED <<today, holds, active, req>>
  BY DEF SweepCommit
<1>2. owed \in Seq(Expectations) /\ DOMAIN owed = 1 .. Len(owed)
  BY DEF IInv, Typed
<1>3. DOMAIN owed' = DOMAIN owed
  BY DEF SweepCommit
<1>4. ASSUME NEW e \in DOMAIN owed
      PROVE  owed'[e] \in Expectations /\ owed'[e].holder = owed[e].holder
  <2> DEFINE st == IF e \in sweep[w].marked THEN "OVERDUE" ELSE owed[e].status
             new == {s \in ToSet(Stages) : <<e, s>> \in sweep[w].todo}
  <2>1. owed'[e] = [owed[e] EXCEPT !.status = st, !.reminded = @ \cup new]
    BY DEF SweepCommit
  <2>2. owed[e] \in Expectations
    BY <1>2
  <2>3. st \in {"OVERDUE", owed[e].status} /\ new \in SUBSET ToSet(Stages)
    OBVIOUS
  <2> HIDE DEF st, new
  <2> QED BY <2>1, <2>2, <2>3 DEF Expectations
<1>5. owed' = [e \in 1 .. Len(owed) |-> owed'[e]]
  BY <1>2 DEF SweepCommit
<1>6. owed' \in Seq(Expectations)
  <2>1. owed' \in [1 .. Len(owed) -> Expectations]
    BY <1>2, <1>4, <1>5
  <2> QED BY <1>2, <2>1, SeqDef, LenProperties
<1>7. Typed'
  BY <1>1, <1>6 DEF IInv, Typed
<1>8. \A k \in People : NothingNew(k)
  BY <1>1, <1>3, <1>4 DEF NothingNew
<1> QED BY <1>1, <1>7, <1>8, RequestsKeep DEF IInv, RequestsAgree, RequestTyped

\* Every action keeps the invariant.
LEMMA IInvNext == IInv /\ [Next]_vars => IInv'
<1> SUFFICES ASSUME IInv, [Next]_vars
             PROVE  IInv'
  OBVIOUS
<1> USE DEF books, chase
<1>1. CASE UNCHANGED vars
  BY <1>1, OthersKeep DEF vars, IInv, Typed
<1>2. CASE \E h \in People : ReleaseLine(h) \/ Return(h)
  BY <1>2, ReleaseKeeps, ReturnKeeps
<1>3. CASE \E h \in People : Reactivate(h)
  BY <1>3, OthersKeep DEF Reactivate, IInv, Typed
<1>4. CASE \E h, k \in People : Handover(h, k)
  BY <1>4, HandoverKeeps
<1>5. ASSUME NEW p \in Procs, Request(p)
      PROVE  IInv'
  <2>1. CASE StartCloseout(p)
    <3>1. PICK c \in Closeouts : Start(p, "CLOSEOUT", c, Assignee[c.job], job[c.job].status)
      BY <2>1 DEF StartCloseout
    <3>2. Assignee[c.job] \in People
      OBVIOUS
    <3> QED BY <3>1, <3>2, StartKeeps
  <2>2. CASE StartClose(p)
    <3>1. PICK j \in Jobs :
             Start(p, "CLOSE", j, Assignee[j],
                   IF OutstandingOf(Assignee[j]) = {} THEN "CLEAN" ELSE "VARIANCE")
      BY <2>2 DEF StartClose
    <3>2. PICK who \in People : who = Assignee[j]
      OBVIOUS
    <3>3. PICK seen : seen = IF OutstandingOf(who) = {} THEN "CLEAN" ELSE "VARIANCE"
      OBVIOUS
    <3>4. seen = "CLEAN" => Owes(who) = {}
      BY <3>3, OutstandingIsOwed DEF IInv
    <3> QED BY <3>1, <3>2, <3>3, <3>4, StartKeeps
  <2>3. CASE StartDeactivate(p)
    <3>1. PICK h \in active : MayLeave(h) /\ Start(p, "DEACTIVATE", h, h, "CLEAN")
      BY <2>3 DEF StartDeactivate
    <3>2. h \in People
      BY DEF IInv, Typed
    <3> QED BY <3>1, <3>2, StartKeeps DEF MayLeave
  <2>4. CASE SubmitCloseout(p)
    BY <2>4, SubmitCloseoutKeeps
  <2>5. CASE Close(p) \/ Deactivate(p) \/ Fail(p)
    BY <2>5, EndKeeps DEF Close, Deactivate, Fail, IInv, Typed
  <2> QED BY <1>5, <2>1, <2>2, <2>3, <2>4, <2>5 DEF Request
<1>6. CASE NewDay
  BY <1>6, OthersKeep DEF NewDay, IInv, Typed
<1>7. CASE \E w \in Workers : SweepCommit(w)
  BY <1>7, SweepCommitKeeps
<1>8. CASE \E w \in Workers : SweepLoad(w) \/ Dispatch(w) \/ WorkerDies(w)
  BY <1>8, OthersKeep DEF SweepLoad, Dispatch, WorkerDies, IInv, Typed
<1> QED BY <1>1, <1>2, <1>3, <1>4, <1>5, <1>6, <1>7, <1>8 DEF Next

-----------------------------------------------------------------------------

\* A job closed as fully reconciled is one (close_job, jobs/services.py).
THEOREM CleanClose == Spec => CleanCloseUnlessOvertaken
<1>1. IInv /\ [Next]_vars
        => [\A p \in Procs :
              (Close(p) /\ req[p].job = "CLEAN")
                 => Owes(req[p].who) = {} \/ req[p].overtaken]_vars
  <2> SUFFICES ASSUME IInv, NEW p \in Procs, Close(p), req[p].job = "CLEAN"
               PROVE  Owes(req[p].who) = {} \/ req[p].overtaken
    OBVIOUS
  <2>1. CloserSeen(req[p]) /\ req[p].op = "CLOSE"
    BY DEF Close, IInv, RequestsAgree
  <2> QED BY <2>1 DEF CloserSeen
<1> QED BY <1>1, IInvInit, IInvNext, PTL DEF Spec, CleanCloseUnlessOvertaken

\* Nobody leaves with material in their name (deactivate_user, custody/services.py).
THEOREM LeaversHeldNothing == Spec => LeaverHeldNothingUnlessOvertaken
<1>1. IInv /\ [Next]_vars
        => [\A h \in active \ active' :
              holds[h] = 0 \/ \E p \in Procs : /\ req[p] # Idle /\ req[p].op = "DEACTIVATE"
                                            /\ req[p].who = h /\ req[p].overtaken]_vars
  <2> SUFFICES ASSUME IInv, Next, NEW h \in active \ active'
               PROVE  holds[h] = 0 \/ \E p \in Procs : /\ req[p] # Idle
                                                       /\ req[p].op = "DEACTIVATE"
                                                       /\ req[p].who = h /\ req[p].overtaken
    OBVIOUS
  <2>1. PICK p \in Procs : Deactivate(p)
    BY DEF Next, Request, ReleaseLine, Return, Reactivate, Handover, StartCloseout,
       SubmitCloseout, StartClose, Close, StartDeactivate, Start, Fail, NewDay, SweepLoad,
       SweepCommit, Dispatch, WorkerDies
  <2>2. req[p] # Idle /\ req[p].op = "DEACTIVATE" /\ h = req[p].about
    BY <2>1 DEF Deactivate
  <2>3. LeaverSeen(req[p])
    BY <2>2 DEF IInv, RequestsAgree
  <2> QED BY <2>2, <2>3 DEF LeaverSeen
<1> QED BY <1>1, IInvInit, IInvNext, PTL DEF Spec, LeaverHeldNothingUnlessOvertaken

-----------------------------------------------------------------------------
(* The chase.                                                              *)

\* The stages announced, in the order of the chase.
Rungs == {<< >>, <<"holder">>, <<"holder", "supervisor">>, <<"holder", "supervisor", "owner">>}

\* Expectation x bears the stamps of the stages in s, which came in their turn.
Reached(x, s) ==
    \/ s = << >> /\ x.reminded = {}
    \/ s = <<"holder">> /\ x.reminded = {"holder"}
    \/ s = <<"holder", "supervisor">> /\ x.reminded = {"holder", "supervisor"}
    \/ s = <<"holder", "supervisor", "owner">> /\ x.reminded = {"holder", "supervisor", "owner"}

\* After the stages in s it is the turn of stage.
IsTurnOf(stage, s) ==
    \/ stage = "holder" /\ s = << >>
    \/ stage = "supervisor" /\ s = <<"holder">>
    \/ stage = "owner" /\ s = <<"holder", "supervisor">>

SweepFields == {"marked", "todo", "committed"}

Sweeping(w) == sweep[w] # Idle /\ ~sweep[w].committed

\* What a sweep is about to stamp is still to be stamped when it commits: no other has
\* begun since it looked.
InTurn ==
    /\ DOMAIN rung = DOMAIN owed
    /\ rung \in Seq(Rungs)
    /\ \A e \in DOMAIN owed : Reached(owed[e], rung[e])
    /\ DOMAIN sweep = Workers
    /\ \A w \in Workers : sweep[w] # Idle => SweepFields \subseteq DOMAIN sweep[w]
    /\ \A w \in Workers : Sweeping(w) =>
          \A m \in sweep[w].todo : m[1] \in DOMAIN owed /\ IsTurnOf(m[2], rung[m[1]])
    /\ \A v, w \in Workers : Sweeping(v) /\ Sweeping(w) => v = w

ChaseInv == crossed \/ InTurn

\* A set with no stage in it is listed as nothing, one with a single stage as that stage.
LEMMA ListedStage ==
  ASSUME NEW s
  PROVE  SetToSeq({}) = << >> /\ SetToSeq({s}) = <<s>>
<1>1. SetToSeq({}) = << >>
  <2> DEFINE P(f) == f \in [1 .. Cardinality({}) -> {}] /\ IsInjective(f)
  <2>1. Cardinality({}) = 0
    BY FS_EmptySet
  <2>2. P(<< >>)
    BY <2>1 DEF IsInjective
  <2>3. SetToSeq({}) \in [1 .. Cardinality({}) -> {}]
    BY <2>2 DEF SetToSeq
  <2> QED BY <2>1, <2>3
<1>2. SetToSeq({s}) = <<s>>
  <2> DEFINE f == [i \in 1 .. 1 |-> s]
  <2>1. Cardinality({s}) = 1
    BY FS_Singleton
  <2>2. f \in [1 .. Cardinality({s}) -> {s}] /\ IsInjective(f)
    BY <2>1 DEF IsInjective
  <2>3. SetToSeq({s}) \in [1 .. Cardinality({s}) -> {s}]
    <3> HIDE DEF f
    <3> QED BY <2>2 DEF SetToSeq
  <2> QED BY <2>1, <2>3
<1> QED BY <1>1, <1>2

\* The stages announced are the first ones of the chase.
LEMMA RungsArePrefixes ==
  ASSUME NEW s \in Rungs
  PROVE  IsPrefix(s, Stages)
<1>1. CASE s = << >>
  BY <1>1 DEF IsPrefix, Stages
<1>2. CASE s = <<"holder">>
  BY <1>2 DEF IsPrefix, Stages
<1>3. CASE s = <<"holder", "supervisor">>
  BY <1>3 DEF IsPrefix, Stages
<1>4. CASE s = <<"holder", "supervisor", "owner">>
  BY <1>4 DEF IsPrefix, Stages
<1> QED BY <1>1, <1>2, <1>3, <1>4 DEF Rungs

\* A sequence with one more thing at its end.
LEMMA OneMoreAtTheEnd ==
  ASSUME NEW S, NEW s \in Seq(S), NEW x \in S, NEW t \in Seq(S), Len(t) = Len(s) + 1,
         \A i \in 1 .. Len(s) : t[i] = s[i], t[Len(s) + 1] = x
  PROVE  s \o <<x>> = t
<1> DEFINE u == s \o <<x>>
<1>1. <<x>> \in Seq(S) /\ Len(<<x>>) = 1 /\ <<x>>[1] = x
  OBVIOUS
<1>2. /\ u \in Seq(S) /\ Len(u) = Len(s) + 1 /\ Len(s) \in Nat
      /\ \A i \in 1 .. Len(u) : u[i] = IF i <= Len(s) THEN s[i] ELSE <<x>>[i - Len(s)]
  BY <1>1, ConcatProperties, LenProperties
<1> HIDE DEF u
<1>3. \A i \in 1 .. Len(u) : u[i] = t[i]
  <2> SUFFICES ASSUME NEW i \in 1 .. Len(u) PROVE u[i] = t[i]
    OBVIOUS
  <2>1. CASE i <= Len(s)
    BY <1>2, <2>1
  <2>2. CASE i = Len(s) + 1
    BY <1>1, <1>2, <2>2
  <2> QED BY <1>2, <2>1, <2>2
<1>4. u = t
  BY <1>2, <1>3, SeqEqual
<1> QED BY <1>4 DEF u

\* The stages in turn.
LEMMA StagesJoin ==
  /\ <<"holder">> \o <<"supervisor">> = <<"holder", "supervisor">>
  /\ <<"holder", "supervisor">> \o <<"owner">> = <<"holder", "supervisor", "owner">>
<1> DEFINE S == {"holder", "supervisor", "owner"}
           one == <<"holder">>
           two == <<"holder", "supervisor">>
           three == <<"holder", "supervisor", "owner">>
<1>1. /\ one \in Seq(S) /\ two \in Seq(S) /\ three \in Seq(S)
      /\ Len(one) = 1 /\ Len(two) = 2 /\ Len(three) = 3
      /\ one[1] = "holder" /\ two[1] = "holder" /\ two[2] = "supervisor"
      /\ three[1] = "holder" /\ three[2] = "supervisor" /\ three[3] = "owner"
      /\ "supervisor" \in S /\ "owner" \in S
  OBVIOUS
<1> HIDE DEF S, one, two, three
<1>2. \A i \in 1 .. Len(one) : two[i] = one[i]
  BY <1>1
<1>3. \A i \in 1 .. Len(two) : three[i] = two[i]
  BY <1>1
<1>4. /\ Len(two) = Len(one) + 1 /\ two[Len(one) + 1] = "supervisor"
      /\ Len(three) = Len(two) + 1 /\ three[Len(two) + 1] = "owner"
  BY <1>1
<1>5. one \o <<"supervisor">> = two
  BY <1>1, <1>2, <1>4, OneMoreAtTheEnd, Zenon
<1>6. two \o <<"owner">> = three
  BY <1>1, <1>3, <1>4, OneMoreAtTheEnd, Zenon
<1> QED BY <1>5, <1>6 DEF one, two, three

\* The stages announced are a sequence of stages.
LEMMA RungsAreSequences ==
  ASSUME NEW s \in Rungs
  PROVE  s \in Seq({"holder", "supervisor", "owner"})
<1>1. CASE s = << >>
  BY <1>1
<1>2. CASE s = <<"holder">>
  BY <1>2
<1>3. CASE s = <<"holder", "supervisor">>
  BY <1>3
<1>4. CASE s = <<"holder", "supervisor", "owner">>
  BY <1>4
<1> QED BY <1>1, <1>2, <1>3, <1>4 DEF Rungs

\* The stage that is due of an expectation is the one whose turn it is.
LEMMA DueIsInTurn ==
  ASSUME Typed, NEW x \in Expectations, NEW s, Reached(x, s), DueStage(x) # "none"
  PROVE  IsTurnOf(DueStage(x), s)
<1>1. CASE s = << >> /\ x.reminded = {}
  BY <1>1 DEF DueStage, IsTurnOf
<1>2. CASE s = <<"holder">> /\ x.reminded = {"holder"}
  <2>1. "holder" \in x.reminded /\ "supervisor" \notin x.reminded
    BY <1>2
  <2>2. today - x.due >= 2 * EscalateAfter => today - x.due >= EscalateAfter
    <3>1. today \in Int /\ x.due \in Int /\ EscalateAfter \in Nat
      BY DEF Typed, Expectations
    <3> DEFINE n == today - x.due
    <3>2. n \in Int
      BY <3>1
    <3> HIDE DEF n
    <3>3. n >= 2 * EscalateAfter => n >= EscalateAfter
      BY <3>1, <3>2
    <3> QED BY <3>3 DEF n
  <2>3. DueStage(x) = "supervisor"
    BY <2>1, <2>2, Zenon DEF DueStage
  <2> QED BY <1>2, <2>3 DEF IsTurnOf
<1>3. CASE s = <<"holder", "supervisor">> /\ x.reminded = {"holder", "supervisor"}
  <2>1. "holder" \in x.reminded /\ "supervisor" \in x.reminded
    BY <1>3
  <2>2. DueStage(x) = "owner" \/ DueStage(x) = "none"
    <3>1. DueStage(x) = IF "owner" \notin x.reminded /\ today - x.due >= 2 * EscalateAfter
                        THEN "owner" ELSE "none"
      BY <2>1, Zenon DEF DueStage
    <3> QED BY <3>1, Zenon
  <2> QED BY <1>3, <2>2 DEF IsTurnOf
<1>4. CASE x.reminded = {"holder", "supervisor", "owner"}
  BY <1>4 DEF DueStage
<1> QED BY <1>1, <1>2, <1>3, <1>4 DEF Reached

\* The stage whose turn it is, stamped and announced.
LEMMA OneStageFurther ==
  ASSUME NEW x \in Expectations, NEW s, Reached(x, s), NEW stage, IsTurnOf(stage, s), NEW y,
         y.reminded = x.reminded \cup {stage}
  PROVE  Reached(y, s \o <<stage>>) /\ s \o <<stage>> \in Rungs
<1>1. CASE stage = "holder" /\ s = << >>
  BY <1>1 DEF Reached, Rungs
<1>2. CASE stage = "supervisor" /\ s = <<"holder">>
  <2>1. s \o <<stage>> = <<"holder", "supervisor">>
    BY <1>2, StagesJoin
  <2>2. x.reminded = {"holder"}
    BY <1>2 DEF Reached
  <2> QED BY <1>2, <2>1, <2>2 DEF Reached, Rungs
<1>3. CASE stage = "owner" /\ s = <<"holder", "supervisor">>
  <2>1. s \o <<stage>> = <<"holder", "supervisor", "owner">>
    BY <1>3, StagesJoin
  <2>2. x.reminded = {"holder", "supervisor"}
    BY <1>3 DEF Reached
  <2> QED BY <1>3, <2>1, <2>2 DEF Reached, Rungs
<1> QED BY <1>1, <1>2, <1>3 DEF IsTurnOf

\* It is one stage's turn at a time.
LEMMA OneTurn ==
  ASSUME NEW s, NEW stage, IsTurnOf(stage, s), NEW other, IsTurnOf(other, s)
  PROVE  other = stage
<1>1. ASSUME NEW x, IsTurnOf(x, s)
      PROVE  \/ x = "holder" /\ Len(s) = 0
             \/ x = "supervisor" /\ Len(s) = 1
             \/ x = "owner" /\ Len(s) = 2
  <2>1. CASE x = "holder" /\ s = << >>
    BY <2>1
  <2>2. CASE x = "supervisor" /\ s = <<"holder">>
    BY <2>2
  <2>3. CASE x = "owner" /\ s = <<"holder", "supervisor">>
    BY <2>3
  <2> QED BY <1>1, <2>1, <2>2, <2>3 DEF IsTurnOf
<1> DEFINE n == Len(s)
<1>2. \/ stage = "holder" /\ n = 0
      \/ stage = "supervisor" /\ n = 1
      \/ stage = "owner" /\ n = 2
  BY <1>1
<1>3. \/ other = "holder" /\ n = 0
      \/ other = "supervisor" /\ n = 1
      \/ other = "owner" /\ n = 2
  BY <1>1
<1> HIDE DEF n
<1> QED BY <1>2, <1>3

\* Nothing is expected and nothing swept.
LEMMA ChaseInit == Init => ChaseInv
<1> SUFFICES ASSUME Init PROVE InTurn
  BY DEF ChaseInv
<1> QED BY DEF Init, InTurn, Sweeping

\* A step that makes no sweep see more than it did, and that adds expectations nobody was
\* reminded of, keeps the chase in turn.
LEMMA ChaseKeeps ==
  ASSUME InTurn, DOMAIN rung' = DOMAIN owed', rung' \in Seq(Rungs), DOMAIN sweep' = Workers,
         DOMAIN owed \subseteq DOMAIN owed',
         \A w \in Workers : sweep'[w] # Idle => SweepFields \subseteq DOMAIN sweep'[w],
         \A e \in DOMAIN owed : owed'[e].reminded = owed[e].reminded /\ rung'[e] = rung[e],
         \A e \in DOMAIN owed' : e \notin DOMAIN owed => owed'[e].reminded = {} /\ rung'[e] = << >>,
         \A w \in Workers : Sweeping(w)' => Sweeping(w) /\ sweep'[w] = sweep[w]
  PROVE  InTurn'
<1>1. \A e \in DOMAIN owed' : Reached(owed'[e], rung'[e])
  BY DEF InTurn, Reached
<1>2. \A w \in Workers : Sweeping(w)' =>
          \A m \in sweep'[w].todo : m[1] \in DOMAIN owed' /\ IsTurnOf(m[2], rung'[m[1]])
  BY DEF InTurn
<1>3. \A v, w \in Workers : Sweeping(v)' /\ Sweeping(w)' => v = w
  BY DEF InTurn
<1> QED BY <1>1, <1>2, <1>3 DEF InTurn

\* One more expectation, that nobody was reminded of.
LEMMA OneMoreInTurn ==
  ASSUME Typed, InTurn, NEW h \in People, NEW due \in Nat, UNCHANGED sweep,
         owed' = Append(owed, Expectation(h, due)), rung' = Append(rung, << >>)
  PROVE  InTurn'
<1> DEFINE x == Expectation(h, due)
<1>1. x \in Expectations /\ x.reminded = {}
  BY DEF Expectation, Expectations
<1> HIDE DEF x
<1>2. << >> \in Rungs
  BY DEF Rungs
<1>3. /\ owed \in Seq(Expectations) /\ rung \in Seq(Rungs) /\ Len(rung) = Len(owed)
      /\ DOMAIN owed = 1 .. Len(owed)
  BY DEF Typed, InTurn
<1>4. /\ DOMAIN owed' = 1 .. Len(owed) + 1 /\ owed'[Len(owed) + 1] = x
      /\ \A e \in 1 .. Len(owed) : owed'[e] = owed[e]
  BY <1>1, <1>3 DEF x
<1>5. /\ rung' \in Seq(Rungs) /\ DOMAIN rung' = 1 .. Len(owed) + 1
      /\ rung'[Len(owed) + 1] = << >>
      /\ \A e \in 1 .. Len(owed) : rung'[e] = rung[e]
  BY <1>2, <1>3
<1>6. \A e \in DOMAIN owed' : e \notin DOMAIN owed => owed'[e].reminded = {} /\ rung'[e] = << >>
  BY <1>1, <1>3, <1>4, <1>5
<1>7. \A w \in Workers : Sweeping(w)' => Sweeping(w) /\ sweep'[w] = sweep[w]
  BY DEF Sweeping
<1>8. /\ DOMAIN sweep' = Workers
      /\ \A w \in Workers : sweep'[w] # Idle => SweepFields \subseteq DOMAIN sweep'[w]
      /\ DOMAIN owed \subseteq DOMAIN owed'
  BY <1>3, <1>4 DEF InTurn
<1> QED BY <1>3, <1>4, <1>5, <1>6, <1>7, <1>8, ChaseKeeps

\* A line of a release adds an expectation nobody was reminded of, or none.
LEMMA ReleaseInTurn ==
  ASSUME IInv, InTurn, NEW h \in People, ReleaseLine(h)
  PROVE  InTurn'
<1>1. PICK due \in Nat : \/ UNCHANGED <<owed, rung>>
                         \/ /\ owed' = Append(owed, Expectation(h, due))
                            /\ rung' = Append(rung, << >>)
  BY DEF ReleaseLine, NoDate, IInv, Typed
<1>2. UNCHANGED sweep
  BY DEF ReleaseLine
<1>3. CASE UNCHANGED <<owed, rung>>
  BY <1>2, <1>3, ChaseKeeps DEF InTurn, Sweeping
<1>4. CASE /\ owed' = Append(owed, Expectation(h, due))
           /\ rung' = Append(rung, << >>)
  BY <1>2, <1>4, OneMoreInTurn DEF IInv
<1> QED BY <1>1, <1>3, <1>4

\* A handover writes only the holders.
LEMMA HandoverInTurn ==
  ASSUME IInv, InTurn, NEW from \in People, NEW to \in People, Handover(from, to)
  PROVE  InTurn'
<1>1. /\ owed' = MoveExpectations(from, to) /\ UNCHANGED <<sweep, rung>>
  BY DEF Handover, chase
<1>2. owed \in Seq(Expectations)
  BY DEF IInv, Typed
<1>3. DOMAIN owed' = DOMAIN owed
  BY <1>1 DEF MoveExpectations
<1>4. ASSUME NEW e \in DOMAIN owed PROVE owed'[e].reminded = owed[e].reminded
  <2>1. owed'[e] = owed[e] \/ owed'[e] = [owed[e] EXCEPT !.holder = to]
    BY <1>1 DEF MoveExpectations
  <2>2. owed[e] \in Expectations
    BY <1>2
  <2> QED BY <2>1, <2>2 DEF Expectations
<1> QED BY <1>1, <1>3, <1>4, ChaseKeeps DEF InTurn, Sweeping

\* A closeout adds what it expects back.
LEMMA SubmitCloseoutInTurn ==
  ASSUME IInv, InTurn, NEW p \in Procs, SubmitCloseout(p)
  PROVE  InTurn'
<1>1. PICK c \in Closeouts : c = req[p].about
  BY DEF SubmitCloseout, IInv, RequestsAgree, RequestTyped
<1>2. PICK h \in People : h = Assignee[c.job]
  OBVIOUS
<1>3. /\ owed' = owed \o [k \in 1 .. c.back |-> Expectation(h, today)]
      /\ rung' = rung \o [k \in 1 .. c.back |-> << >>]
      /\ UNCHANGED sweep
  BY <1>1, <1>2 DEF SubmitCloseout
<1>4. c.back \in 0 .. 1
  OBVIOUS
<1>5. owed \in Seq(Expectations) /\ rung \in Seq(Rungs) /\ today \in Nat
  BY DEF IInv, Typed, InTurn
<1>6. CASE c.back = 0
  <2>1. /\ [k \in 1 .. c.back |-> Expectation(h, today)] = << >>
        /\ [k \in 1 .. c.back |-> << >>] = << >>
    BY <1>6
  <2>2. owed' = owed
    BY <1>3, <1>5, <2>1
  <2>3. rung' = rung
    <3>1. rung' = rung \o << >>
      BY <1>3, <2>1, Zenon
    <3>2. rung \o << >> = rung
      BY <1>5, ConcatEmptySeq, Zenon
    <3> QED BY <3>1, <3>2, Zenon
  <2> QED BY <1>3, <2>2, <2>3, ChaseKeeps DEF InTurn, Sweeping
<1>7. CASE c.back = 1
  <2>1. /\ [k \in 1 .. c.back |-> Expectation(h, today)] = << Expectation(h, today) >>
        /\ [k \in 1 .. c.back |-> << >>] = << << >> >>
    BY <1>7
  <2>2. owed' = Append(owed, Expectation(h, today))
    <3>1. owed' = owed \o << Expectation(h, today) >>
      BY <1>3, <2>1, Zenon
    <3> QED BY <1>5, <3>1
  <2>3. rung' = Append(rung, << >>)
    <3>1. << >> \in Rungs
      BY DEF Rungs
    <3>2. rung' = rung \o << << >> >>
      BY <1>3, <2>1, Zenon
    <3>3. Append(rung, << >>) = rung \o << << >> >>
      BY <1>5, <3>1, AppendIsConcat, Zenon
    <3> QED BY <3>2, <3>3, Zenon
  <2> QED BY <1>3, <1>5, <2>2, <2>3, OneMoreInTurn DEF IInv
<1> QED BY <1>4, <1>6, <1>7

\* What a sweep loads is due, and no other sweep is under way, or they have crossed.
LEMMA SweepLoadInTurn ==
  ASSUME IInv, InTurn, NEW w \in Workers, SweepLoad(w)
  PROVE  ChaseInv'
<1>1. PICK todo : /\ \A m \in todo : /\ m[1] \in DOMAIN owed
                                     /\ m[2] = DueStage(owed[m[1]]) /\ m[2] # "none"
                  /\ sweep' = [sweep EXCEPT ![w] =
                        [marked |-> Late, todo |-> todo, committed |-> FALSE]]
  <2> DEFINE overdue == {e \in DOMAIN owed : owed[e].status = "OVERDUE"} \cup Late
             ring == {<<e, DueStage(owed[e])>> : e \in overdue}
             todo == {r \in ring : r[2] # "none"}
  <2>1. \A m \in todo : m[1] \in DOMAIN owed /\ m[2] = DueStage(owed[m[1]]) /\ m[2] # "none"
    BY DEF Late
  <2>2. sweep' = [sweep EXCEPT ![w] = [marked |-> Late, todo |-> todo, committed |-> FALSE]]
    BY DEF SweepLoad
  <2> HIDE DEF todo
  <2> QED BY <2>1, <2>2
<1>2. UNCHANGED <<owed, rung>>
  BY DEF SweepLoad, books
<1>3. crossed' \/ \A v \in Workers : ~Sweeping(v)
  BY DEF SweepLoad, Sweeping
<1>4. CASE \A v \in Workers : ~Sweeping(v)
  <2>1. /\ DOMAIN sweep' = Workers /\ sweep'[w].todo = todo
        /\ \A v \in Workers \ {w} : sweep'[v] = sweep[v]
    BY <1>1 DEF InTurn
  <2>2. \A v \in Workers : Sweeping(v)' => v = w
    BY <1>4, <2>1 DEF Sweeping
  <2>3. ASSUME NEW m \in todo
        PROVE  m[1] \in DOMAIN owed /\ IsTurnOf(m[2], rung[m[1]])
    <3>1. owed[m[1]] \in Expectations /\ Reached(owed[m[1]], rung[m[1]])
      BY <1>1 DEF IInv, Typed, InTurn
    <3> QED BY <1>1, <3>1, DueIsInTurn DEF IInv
  <2>4. \A v \in Workers : sweep'[v] # Idle => SweepFields \subseteq DOMAIN sweep'[v]
    BY <1>1, <2>1 DEF InTurn, SweepFields
  <2>5. InTurn'
    BY <1>2, <2>1, <2>2, <2>3, <2>4 DEF InTurn
  <2> QED BY <2>5 DEF ChaseInv
<1> QED BY <1>3, <1>4 DEF ChaseInv

\* The commit stamps and announces the stages whose turn it is.
LEMMA SweepCommitInTurn ==
  ASSUME IInv, InTurn, NEW w \in Workers, SweepCommit(w)
  PROVE  InTurn'
<1> DEFINE todo == sweep[w].todo
           New(e) == {s \in ToSet(Stages) : <<e, s>> \in todo}
           Marked(e) == [owed[e] EXCEPT
                           !.status = IF e \in sweep[w].marked THEN "OVERDUE" ELSE @,
                           !.reminded = @ \cup New(e)]
           done == [sweep[w] EXCEPT !.committed = TRUE, !.marked = {}]
<1>1. Sweeping(w)
  BY Zenon DEF SweepCommit, Sweeping
<1>2. owed' = [e \in DOMAIN owed |-> Marked(e)]
  BY Zenon DEF SweepCommit
<1>3. rung' = [e \in DOMAIN rung |-> rung[e] \o SetToSeq(New(e))]
  BY Zenon DEF SweepCommit
<1>4. sweep' = [sweep EXCEPT ![w] = IF todo = {} THEN Idle ELSE done]
  BY Zenon DEF SweepCommit
<1> HIDE DEF Marked
<1>5. /\ owed \in Seq(Expectations) /\ rung \in Seq(Rungs) /\ DOMAIN rung = DOMAIN owed
      /\ DOMAIN sweep = Workers
      /\ \A e \in DOMAIN owed : Reached(owed[e], rung[e])
      /\ \A m \in todo : m[1] \in DOMAIN owed /\ IsTurnOf(m[2], rung[m[1]])
      /\ \A v \in Workers : Sweeping(v) => v = w
      /\ \A v \in Workers : sweep[v] # Idle => SweepFields \subseteq DOMAIN sweep[v]
  BY <1>1 DEF IInv, Typed, InTurn
<1>6. \A e \in DOMAIN owed : owed[e] \in Expectations
  BY <1>5
<1>7. /\ DOMAIN owed' = DOMAIN owed /\ DOMAIN rung' = DOMAIN rung
      /\ \A e \in DOMAIN owed : owed'[e] = Marked(e)
      /\ \A e \in DOMAIN rung : rung'[e] = rung[e] \o SetToSeq(New(e))
  <2> HIDE DEF New
  <2> QED BY <1>2, <1>3
<1>8. ASSUME NEW e \in DOMAIN owed
      PROVE  owed'[e].reminded = owed[e].reminded \cup New(e)
  <2> DEFINE st == IF e \in sweep[w].marked THEN "OVERDUE" ELSE owed[e].status
             new == New(e)
  <2>1. owed'[e] = [owed[e] EXCEPT !.status = st, !.reminded = @ \cup new]
    BY <1>7, Zenon DEF Marked
  <2> HIDE DEF st, new
  <2>2. owed'[e].reminded = owed[e].reminded \cup new
    BY <1>6, <2>1 DEF Expectations
  <2> QED BY <2>2 DEF new
<1>9. ASSUME NEW e \in DOMAIN owed
      PROVE  Reached(owed'[e], rung'[e]) /\ rung'[e] \in Rungs
  <2>1. rung[e] \in Rungs /\ rung'[e] = rung[e] \o SetToSeq(New(e))
    <3>1. e \in DOMAIN rung /\ \A k \in DOMAIN rung : rung[k] \in Rungs
      BY <1>5
    <3> QED BY <1>7, <3>1, Zenon
  <2>2. \A s \in New(e) : IsTurnOf(s, rung[e])
    <3> SUFFICES ASSUME NEW s \in New(e) PROVE IsTurnOf(s, rung[e])
      OBVIOUS
    <3>1. <<e, s>> \in todo /\ <<e, s>>[1] = e /\ <<e, s>>[2] = s
      OBVIOUS
    <3> QED BY <1>5, <3>1
  <2>3. owed'[e].reminded = owed[e].reminded \cup New(e)
    BY <1>8
  <2>4. Reached(owed[e], rung[e]) /\ owed[e] \in Expectations
    BY <1>5, <1>6
  <2> HIDE DEF New
  <2>5. CASE New(e) = {}
    <3>1. rung'[e] = rung[e] \o << >>
      BY <2>1, <2>5, ListedStage
    <3>2. rung'[e] = rung[e]
      BY <2>1, <3>1, RungsAreSequences, ConcatEmptySeq, Zenon
    <3>3. owed'[e].reminded = owed[e].reminded
      BY <2>3, <2>5
    <3> QED BY <2>1, <2>4, <3>2, <3>3 DEF Reached
  <2>6. ASSUME NEW s \in New(e)
        PROVE  Reached(owed'[e], rung'[e]) /\ rung'[e] \in Rungs
    <3>1. ASSUME NEW t \in New(e) PROVE t = s
      <4>1. IsTurnOf(t, rung[e]) /\ IsTurnOf(s, rung[e])
        BY <2>2, <2>6
      <4> QED BY <4>1, OneTurn
    <3>2. New(e) = {s}
      BY <3>1
    <3>3. rung'[e] = rung[e] \o <<s>>
      BY <2>1, <3>2, ListedStage
    <3>4. owed'[e].reminded = owed[e].reminded \cup {s}
      BY <2>3, <3>2
    <3>5. IsTurnOf(s, rung[e])
      BY <2>2, <2>6
    <3>6. Reached(owed'[e], rung[e] \o <<s>>) /\ rung[e] \o <<s>> \in Rungs
      BY <2>4, <3>4, <3>5, OneStageFurther, Zenon
    <3> QED BY <3>3, <3>6, Zenon
  <2> QED BY <2>5, <2>6
<1>10. /\ DOMAIN sweep' = Workers
       /\ \A v \in Workers : /\ ~Sweeping(v)'
                             /\ sweep'[v] # Idle => SweepFields \subseteq DOMAIN sweep'[v]
  <2>1. sweep[w] # Idle /\ SweepFields \subseteq DOMAIN sweep[w]
    BY <1>1, <1>5 DEF Sweeping
  <2>2. done.committed = TRUE /\ SweepFields \subseteq DOMAIN done
    BY <2>1 DEF SweepFields
  <2> HIDE DEF done, todo
  <2>3. /\ DOMAIN sweep' = Workers /\ \A v \in Workers \ {w} : sweep'[v] = sweep[v]
        /\ sweep'[w] = Idle \/ sweep'[w] = done
    BY <1>4, <1>5
  <2> QED BY <1>5, <2>2, <2>3 DEF Sweeping
<1>11. rung' \in Seq(Rungs)
  <2>1. DOMAIN rung' = 1 .. Len(rung)
    BY <1>5, <1>7
  <2>2. rung' = [e \in DOMAIN rung' |-> rung'[e]]
    BY <1>3, Zenon
  <2>3. rung' \in [1 .. Len(rung) -> Rungs]
    BY <1>5, <1>9, <2>1, <2>2
  <2>4. Len(rung) \in Nat
    BY <1>5, LenProperties
  <2> HIDE DEF New, done, todo
  <2> QED BY <2>3, <2>4, SeqDef, Zenon
<1> QED BY <1>5, <1>7, <1>9, <1>10, <1>11 DEF InTurn

\* The end of a sweep, and its messages, stamp nothing more.
LEMMA SweepEndsInTurn ==
  ASSUME InTurn, NEW w \in Workers, Dispatch(w) \/ WorkerDies(w)
  PROVE  InTurn'
<1>1. UNCHANGED <<owed, rung>>
  BY DEF Dispatch, WorkerDies, books
<1>2. PICK m : \/ sweep' = [sweep EXCEPT ![w] = Idle]
               \/ /\ sweep[w] # Idle /\ sweep[w].committed
                  /\ sweep' = [sweep EXCEPT ![w] = [sweep[w] EXCEPT !.todo = sweep[w].todo \ {m}]]
  <2>1. CASE WorkerDies(w)
    BY <2>1, Zenon DEF WorkerDies
  <2>2. CASE Dispatch(w)
    <3>1. PICK m : sweep' = [sweep EXCEPT ![w] = IF sweep[w].todo \ {m} = {} THEN Idle
                                ELSE [sweep[w] EXCEPT !.todo = sweep[w].todo \ {m}]]
      BY <2>2, Zenon DEF Dispatch
    <3>2. sweep[w] # Idle /\ sweep[w].committed
      BY <2>2, Zenon DEF Dispatch
    <3> QED BY <3>1, <3>2, Zenon
  <2> QED BY <2>1, <2>2
<1>3. DOMAIN sweep' = Workers /\ \A v \in Workers \ {w} : sweep'[v] = sweep[v]
  BY <1>2 DEF InTurn
<1>4. ~Sweeping(w)' /\ (sweep'[w] # Idle => SweepFields \subseteq DOMAIN sweep'[w])
  <2>1. CASE sweep' = [sweep EXCEPT ![w] = Idle]
    BY <2>1 DEF InTurn, Sweeping
  <2>2. CASE /\ sweep[w] # Idle /\ sweep[w].committed
             /\ sweep' = [sweep EXCEPT ![w] = [sweep[w] EXCEPT !.todo = sweep[w].todo \ {m}]]
    <3>1. sweep'[w] = [sweep[w] EXCEPT !.todo = sweep[w].todo \ {m}]
      BY <2>2, Zenon DEF InTurn
    <3>2. SweepFields \subseteq DOMAIN sweep[w]
      BY <2>2 DEF InTurn
    <3>3. sweep'[w].committed = sweep[w].committed
      BY <3>1, <3>2 DEF SweepFields
    <3> QED BY <2>2, <3>1, <3>2, <3>3 DEF Sweeping
  <2> QED BY <1>2, <2>1, <2>2
<1>5. \A v \in Workers : Sweeping(v)' => Sweeping(v) /\ sweep'[v] = sweep[v]
  BY <1>3, <1>4 DEF Sweeping
<1>6. \A v \in Workers : sweep'[v] # Idle => SweepFields \subseteq DOMAIN sweep'[v]
  BY <1>3, <1>4 DEF InTurn
<1> QED BY <1>1, <1>3, <1>5, <1>6, ChaseKeeps DEF InTurn

\* Every step keeps the chase in turn, or two sweeps have crossed.
LEMMA ChaseNext == IInv /\ ChaseInv /\ [Next]_vars => ChaseInv'
<1> SUFFICES ASSUME IInv, ChaseInv, [Next]_vars PROVE ChaseInv'
  OBVIOUS
<1> USE DEF books, chase
<1>1. CASE crossed
  <2>1. CASE UNCHANGED crossed
    BY <1>1, <2>1 DEF ChaseInv
  <2>2. CASE \E w \in Workers : SweepLoad(w)
    BY <1>1, <2>2 DEF SweepLoad, ChaseInv
  <2>3. UNCHANGED crossed \/ \E w \in Workers : SweepLoad(w)
    <3>1. CASE UNCHANGED vars
      BY <3>1 DEF vars
    <3>2. CASE \E h \in People : ReleaseLine(h) \/ Return(h) \/ Reactivate(h)
      BY <3>2 DEF ReleaseLine, Return, Reactivate
    <3>3. CASE \E h, k \in People : Handover(h, k)
      BY <3>3 DEF Handover
    <3>4. ASSUME NEW p \in Procs, Request(p) PROVE UNCHANGED crossed
      <4>1. CASE SubmitCloseout(p)
        BY <4>1, Zenon DEF SubmitCloseout
      <4>2. CASE StartCloseout(p) \/ StartClose(p) \/ StartDeactivate(p)
        BY <4>2 DEF StartCloseout, StartClose, StartDeactivate, Start
      <4>3. CASE Close(p) \/ Deactivate(p) \/ Fail(p)
        BY <4>3 DEF Close, Deactivate, Fail
      <4> QED BY <3>4, <4>1, <4>2, <4>3 DEF Request
    <3>5. CASE NewDay
      BY <3>5 DEF NewDay
    <3>6. CASE \E w \in Workers : SweepCommit(w) \/ Dispatch(w) \/ WorkerDies(w)
      BY <3>6, Zenon DEF SweepCommit, Dispatch, WorkerDies
    <3> QED BY <3>1, <3>2, <3>3, <3>4, <3>5, <3>6 DEF Next
  <2> QED BY <2>1, <2>2, <2>3
<1>2. CASE InTurn
  <2>1. ASSUME UNCHANGED <<owed, rung, sweep>>
        PROVE  ChaseInv'
    <3>1. InTurn'
      BY <1>2, <2>1 DEF InTurn, Sweeping
    <3> QED BY <3>1 DEF ChaseInv
  <2>2. CASE UNCHANGED vars
    BY <2>1, <2>2 DEF vars
  <2>3. CASE \E h \in People : ReleaseLine(h)
    BY <1>2, <2>3, ReleaseInTurn DEF ChaseInv
  <2>4. CASE \E h, k \in People : Handover(h, k)
    BY <1>2, <2>4, HandoverInTurn DEF ChaseInv
  <2>5. ASSUME NEW p \in Procs, Request(p) PROVE ChaseInv'
    <3>1. CASE SubmitCloseout(p)
      BY <1>2, <3>1, SubmitCloseoutInTurn DEF ChaseInv
    <3>2. CASE ~SubmitCloseout(p)
      <4>1. UNCHANGED <<owed, rung, sweep>>
        BY <2>5, <3>2 DEF Request, StartCloseout, StartClose, Close, StartDeactivate,
           Deactivate, Start, Fail
      <4> QED BY <2>1, <4>1
    <3> QED BY <3>1, <3>2
  <2>6. CASE NewDay \/ \E h \in People : Return(h) \/ Reactivate(h)
    BY <2>1, <2>6 DEF NewDay, Return, Reactivate
  <2>7. CASE \E w \in Workers : SweepLoad(w)
    BY <1>2, <2>7, SweepLoadInTurn
  <2>8. CASE \E w \in Workers : SweepCommit(w)
    BY <1>2, <2>8, SweepCommitInTurn DEF ChaseInv
  <2>9. ASSUME NEW w \in Workers, Dispatch(w) \/ WorkerDies(w) PROVE ChaseInv'
    BY <1>2, <2>9, SweepEndsInTurn DEF ChaseInv
  <2> QED BY <2>2, <2>3, <2>4, <2>5, <2>6, <2>7, <2>8, <2>9 DEF Next
<1> QED BY <1>1, <1>2 DEF ChaseInv

\* What is announced, in a chase in turn, are the first stages.
LEMMA ChaseIsInTurn == ChaseInv => StagesInTurn
<1> SUFFICES ASSUME InTurn, NEW e \in DOMAIN rung PROVE IsPrefix(rung[e], Stages)
  BY DEF ChaseInv, StagesInTurn
<1>1. rung[e] \in Rungs
  BY DEF InTurn
<1> QED BY <1>1, RungsArePrefixes

\* I3, for any people, expectations, days and deaths of workers: each stage of the chase
\* fires once and in its turn, unless two sweeps of the tenant ran at once
\* (escalate_overdue, custody/services.py).
THEOREM ChasedInTurn == Spec => []StagesInTurn
BY IInvInit, IInvNext, ChaseInit, ChaseNext, ChaseIsInTurn, PTL DEF Spec
=============================================================================
