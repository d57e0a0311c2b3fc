--------------------------- MODULE FinanceProofs ---------------------------
(***************************************************************************)
(* No night is paid twice, a purchase is reversed whole and once, and the  *)
(* status of an entry tells its approval requests, and nobody goes past    *)
(* the budget in silence but by a side door, for every set of entries,     *)
(* recorders, nights, amounts and workers.  None of them is inductive.     *)
(*   - Between the rule of the dates and the save of a new allowance only  *)
(*     the recorder's locked user row keeps another allowance of that      *)
(*     person from coming to life.                                         *)
(*   - What a reversal finds of the delivery under the row's lock is       *)
(*     decided by the life of the purchase: nothing is delivered or        *)
(*     reversed before the last signature, and what is signed stays so,    *)
(*     unless a late PATCH puts an old row back.                           *)
(*   - All rounds of requests but the last are over, and the status tells  *)
(*     where the last one is.                                              *)
(*   - The position is the sum of what each entry counts for, which only a *)
(*     new entry, judged against it, may raise: a signature moves what     *)
(*     waited or what a float held, a payment and a reversal add nothing,  *)
(*     and a copy in flight neither unsigns its row nor takes its mark.    *)
(***************************************************************************)
EXTENDS Finance, SumTheorems, SequenceTheorems, TLAPS

\* Enough to know of a row, and of the table of all: there is a status, and a link, to write.
IsRow(r) == {"status", "linked"} \subseteq DOMAIN r
AreRows(f) == DOMAIN f = Entries /\ \A e \in Entries : IsRow(f[e])

Recording(w, e) == Doing(w, "record", e)

\* The rows and the copies in flight are rows.
RowsTyped ==
    /\ inPlay \subseteq Entries
    /\ AreRows(entry)
    /\ DOMAIN work = Workers
    /\ \A w \in Workers : work[w] # Idle =>
          work[w].entry \in inPlay /\ IsRow(work[w].copy)

\* No PATCH is taken of an allowance.
EditsSpareNights ==
    \A w \in Workers, e \in Entries : Doing(w, "edit", e) => Kind[e] # "NIGHT_OUT"

\* The allowances of one person are recorded one at a time.
OneRecordingEach ==
    \A w, v \in Workers : \A e, o \in Allowances :
        w # v /\ Recording(w, e) /\ Recording(v, o) => Recorder[e] # Recorder[o]

\* An allowance being recorded clashes with nothing alive.
RecordingsAreClear ==
    \A w \in Workers, e \in Entries : Recording(w, e) => ~Clashes(e)

IInv ==
    /\ RowsTyped /\ EditsSpareNights /\ OneRecordingEach /\ RecordingsAreClear
    /\ NightsPaidOnce

\* The invariant holds when nothing has been recorded.
LEMMA IInvInit == Init => IInv
<1> SUFFICES ASSUME Init PROVE IInv
  OBVIOUS
<1>1. RowsTyped
  BY FinanceAssumption DEF Init, RowsTyped, IsRow, AreRows
<1>2. EditsSpareNights /\ OneRecordingEach /\ RecordingsAreClear
  BY DEF Init, EditsSpareNights, OneRecordingEach, RecordingsAreClear, Recording, Doing, Allowances
<1>3. NightsPaidOnce
  BY FinanceAssumption DEF Init, NightsPaidOnce, Is, Live, Pending, Costed
<1> QED BY <1>1, <1>2, <1>3 DEF IInv

\* A worker that ends its request records nothing any more; the others go on.
LEMMA EndsRequest ==
  ASSUME RowsTyped, NEW w \in Workers, Refused(w)
  PROVE  /\ DOMAIN work' = Workers
         /\ work'[w] = Idle
         /\ \A v \in Workers \ {w} : work'[v] = work[v]
BY DEF Refused, RowsTyped

\* A worker that starts a request; the others go on.
LEMMA StartsRequest ==
  ASSUME RowsTyped, NEW w \in Workers, NEW job, Start(w, job)
  PROVE  /\ DOMAIN work' = Workers
         /\ work'[w] = job
         /\ \A v \in Workers \ {w} : work'[v] = work[v]
BY DEF Start, RowsTyped

\* A request that brings nothing to life and records nothing keeps the invariant.
LEMMA QuietStep ==
  ASSUME IInv, RowsTyped', inPlay' = inPlay,
         \A w \in Workers, e \in Entries : Recording(w, e)' => Recording(w, e),
         \A w \in Workers, e \in Entries : Doing(w, "edit", e)' => Doing(w, "edit", e) \/ Kind[e] # "NIGHT_OUT",
         \A e \in inPlay : Kind[e] = "NIGHT_OUT" /\ Is(e, Live)' => Is(e, Live)
  PROVE  IInv'
<1>1. EditsSpareNights'
  BY DEF IInv, EditsSpareNights
<1>2. OneRecordingEach'
  BY DEF IInv, OneRecordingEach, Allowances
<1>3. RecordingsAreClear'
  BY DEF IInv, RecordingsAreClear, Clashes
<1>4. NightsPaidOnce'
  BY DEF IInv, NightsPaidOnce
<1> QED BY <1>1, <1>2, <1>3, <1>4 DEF IInv

\* An allowance is recorded while nobody else records one of its recorder.
LEMMA BeginRecordKeeps ==
  ASSUME IInv, NEW w \in Workers, NEW e \in Entries, BeginRecord(w, e)
  PROVE  IInv'
<1> DEFINE job == [op |-> "record", entry |-> e, copy |-> entry[e],
                   over |-> WouldExceed(e), position |-> Position]
<1>1. /\ Start(w, job) /\ UNCHANGED <<inPlay, entry>>
      /\ e \in inPlay /\ (e \in Allowances => RecorderFree(w, e) /\ ~Clashes(e))
  BY DEF BeginRecord
<1>2. /\ DOMAIN work' = Workers /\ work'[w] = job
      /\ \A v \in Workers \ {w} : work'[v] = work[v]
  BY <1>1, StartsRequest DEF IInv
<1>3. /\ job.op = "record" /\ job.entry = e /\ job.copy = entry[e] /\ job.over \in BOOLEAN
  BY DEF WouldExceed
<1> HIDE DEF job
<1>4. \A v \in Workers, o \in Entries : Recording(v, o)' =>
          (v = w /\ o = e) \/ (v # w /\ Recording(v, o))
  BY <1>2, <1>3 DEF Recording, Doing
<1>5. RowsTyped'
  BY <1>1, <1>2, <1>3 DEF IInv, RowsTyped, AreRows, IsRow
<1>6. EditsSpareNights'
  BY <1>2, <1>3 DEF IInv, EditsSpareNights, Doing
<1>7. ASSUME NEW v \in Workers \ {w}, NEW o \in Allowances, e \in Allowances, Recording(v, o)
      PROVE  Recorder[o] # Recorder[e]
  BY <1>1, <1>7 DEF RecorderFree, Recording
<1>8. OneRecordingEach'
  BY <1>4, <1>7 DEF IInv, OneRecordingEach, Allowances
<1>9. RecordingsAreClear'
  <2>1. \A o \in Entries : Clashes(o)' = Clashes(o)
    BY <1>1 DEF Clashes, Is
  <2>2. ~Clashes(e)
    BY <1>1 DEF Clashes, Allowances
  <2> QED BY <1>1, <1>4, <2>1, <2>2 DEF IInv, RecordingsAreClear
<1>10. NightsPaidOnce'
  BY <1>1 DEF IInv, NightsPaidOnce, Is
<1> QED BY <1>5, <1>6, <1>8, <1>9, <1>10 DEF IInv

\* One allowance comes to life that clashes with nothing alive, while nobody else records
\* one of its recorder.
LEMMA OneComesToLife ==
  ASSUME IInv, RowsTyped', inPlay' = inPlay, NEW w \in Workers, NEW e \in Entries,
         work'[w] = Idle, \A v \in Workers \ {w} : work'[v] = work[v],
         \A o \in Entries \ {e} : entry'[o] = entry[o],
         e \in inPlay, ~Clashes(e),
         \A v \in Workers \ {w}, o \in Allowances :
             e \in Allowances /\ Recording(v, o) => Recorder[o] # Recorder[e]
  PROVE  IInv'
<1>1. \A v \in Workers, o \in Entries : Recording(v, o)' => v # w /\ Recording(v, o)
  BY DEF Recording, Doing
<1>2. EditsSpareNights'
  BY DEF IInv, EditsSpareNights, Doing
<1>3. OneRecordingEach'
  BY <1>1 DEF IInv, OneRecordingEach, Allowances
<1>4. RecordingsAreClear'
  <2> SUFFICES ASSUME NEW v \in Workers, NEW o \in Entries, Recording(v, o)', Clashes(o)'
               PROVE  FALSE
    BY <1>1 DEF IInv, RecordingsAreClear
  <2>1. v # w /\ Recording(v, o) /\ ~Clashes(o)
    BY <1>1 DEF IInv, RecordingsAreClear
  <2>2. PICK x \in inPlay \ {o} : /\ Kind[o] = "NIGHT_OUT" /\ Kind[x] = "NIGHT_OUT"
                                  /\ Recorder[x] = Recorder[o]
                                  /\ Is(x, Live)' /\ Nights[x] \cap Nights[o] # {}
    BY DEF Clashes
  <2>3. x = e
    BY <2>1, <2>2 DEF Clashes, Is, IInv, RowsTyped
  <2>4. e \in Allowances /\ o \in Allowances
    BY <2>2, <2>3 DEF Allowances
  <2> QED BY <2>1, <2>2, <2>3, <2>4
<1>5. NightsPaidOnce'
  BY DEF IInv, NightsPaidOnce, Clashes, Is, RowsTyped
<1> QED BY <1>2, <1>3, <1>4, <1>5 DEF IInv

\* What an approval starts with is a row like any other.
LEMMA FirstStatusPends ==
  ASSUME NEW e \in Entries
  PROVE  FirstStatus(e) \in Pending
BY DEF FirstStatus, Pending

\* An allowance comes to life under the recorder's lock.
LEMMA EndRecordKeeps ==
  ASSUME IInv, NEW w \in Workers, NEW e \in Entries, EndRecord(w, e)
  PROVE  IInv'
<1>1. /\ Recording(w, e) /\ Refused(w) /\ UNCHANGED inPlay
      /\ entry' = [entry EXCEPT ![e].status = FirstStatus(e), ![e].over = work[w].over]
  BY DEF EndRecord, Recording, Doing
<1>2. /\ DOMAIN work' = Workers /\ work'[w] = Idle
      /\ \A v \in Workers \ {w} : work'[v] = work[v]
  BY <1>1, EndsRequest DEF IInv
<1>3. AreRows(entry') /\ \A o \in Entries \ {e} : entry'[o] = entry[o]
  BY <1>1 DEF IInv, RowsTyped, IsRow, AreRows
<1>4. RowsTyped'
  BY <1>1, <1>2, <1>3 DEF IInv, RowsTyped, AreRows, IsRow
<1>5. \A v \in Workers \ {w}, o \in Allowances :
         e \in Allowances /\ Recording(v, o) => Recorder[o] # Recorder[e]
  BY <1>1 DEF IInv, OneRecordingEach
<1>6. e \in inPlay /\ ~Clashes(e)
  BY <1>1 DEF IInv, RowsTyped, RecordingsAreClear, Recording, Doing
<1> QED BY <1>1, <1>2, <1>3, <1>4, <1>5, <1>6, OneComesToLife

\* An entry sent again is compared with the living under the same lock.
LEMMA EndResubmitKeeps ==
  ASSUME IInv, NEW w \in Workers, NEW e \in Entries, EndResubmit(w, e)
  PROVE  IInv'
<1>1. /\ Doing(w, "resubmit", e) /\ Refused(w) /\ UNCHANGED inPlay
      /\ RecorderFree(w, e) /\ ~Clashes(e)
      /\ entry' = [entry EXCEPT ![e] = [Copy(w) EXCEPT !.status = FirstStatus(e)]]
  BY DEF EndResubmit, May, MaySendAgain
<1>2. /\ DOMAIN work' = Workers /\ work'[w] = Idle
      /\ \A v \in Workers \ {w} : work'[v] = work[v]
  BY <1>1, EndsRequest DEF IInv
<1>3. AreRows(entry') /\ \A o \in Entries \ {e} : entry'[o] = entry[o]
  BY <1>1, FirstStatusPends DEF IInv, RowsTyped, IsRow, AreRows, Copy, Doing
<1>4. RowsTyped'
  BY <1>1, <1>2, <1>3 DEF IInv, RowsTyped, AreRows, IsRow
<1>5. e \in inPlay /\ \A v \in Workers \ {w}, o \in Allowances :
         e \in Allowances /\ Recording(v, o) => Recorder[o] # Recorder[e]
  BY <1>1 DEF IInv, RowsTyped, RecorderFree, Recording, Doing
<1> QED BY <1>1, <1>2, <1>3, <1>4, <1>5, OneComesToLife

\* A request other than a recording begins.
LEMMA LoadKeeps ==
  ASSUME IInv, NEW w \in Workers, NEW e \in Entries, NEW op, op # "record", Load(w, op, e),
         op = "edit" => Kind[e] # "NIGHT_OUT"
  PROVE  IInv'
<1> DEFINE job == [op |-> op, entry |-> e, copy |-> entry[e]]
<1>1. Start(w, job) /\ e \in inPlay /\ UNCHANGED <<inPlay, entry>>
  BY DEF Load
<1>2. /\ DOMAIN work' = Workers /\ work'[w] = job
      /\ \A v \in Workers \ {w} : work'[v] = work[v]
  BY <1>1, StartsRequest DEF IInv
<1>3. job.op = op /\ job.entry = e /\ job.copy = entry[e]
  OBVIOUS
<1> HIDE DEF job
<1>4. \A v \in Workers, o \in Entries : Recording(v, o)' => Recording(v, o)
  BY <1>2, <1>3 DEF Recording, Doing
<1>5. RowsTyped'
  BY <1>1, <1>2, <1>3 DEF IInv, RowsTyped, AreRows, IsRow
<1>6. \A v \in Workers, o \in Entries :
          Doing(v, "edit", o)' => Doing(v, "edit", o) \/ Kind[o] # "NIGHT_OUT"
  BY <1>2, <1>3 DEF Doing
<1>7. \A o \in inPlay : Is(o, Live)' => Is(o, Live)
  BY <1>1 DEF Is
<1> QED BY <1>1, <1>4, <1>5, <1>6, <1>7, QuietStep

\* A request ends that writes at most its own row, and brings nothing to life that may be
\* a night out.
LEMMA EndKeeps ==
  ASSUME IInv, NEW w \in Workers, NEW e \in Entries, Refused(w), inPlay' = inPlay,
         AreRows(entry'),
         \A o \in Entries : Kind[o] = "NIGHT_OUT" /\ Is(o, Live)' => Is(o, Live)
  PROVE  IInv'
<1>1. /\ DOMAIN work' = Workers /\ work'[w] = Idle
      /\ \A v \in Workers \ {w} : work'[v] = work[v]
  BY EndsRequest DEF IInv
<1>2. RowsTyped'
  BY <1>1 DEF IInv, RowsTyped, Recording, Doing
<1>3. /\ \A v \in Workers, o \in Entries : Recording(v, o)' => Recording(v, o)
      /\ \A v \in Workers, o \in Entries : Doing(v, "edit", o)' => Doing(v, "edit", o)
  BY <1>1 DEF Recording, Doing
<1>4. inPlay \subseteq Entries
  BY DEF IInv, RowsTyped
<1> QED BY <1>2, <1>3, <1>4, QuietStep

\* The answers and the payment: the row is the copy with another status.
LEMMA DecisionKeeps ==
  ASSUME IInv, NEW w \in Workers, NEW e \in Entries,
         Reject(w, e) \/ PassToFinance(w, e) \/ Approve(w, e) \/ EndPay(w, e)
  PROVE  IInv'
<1>1. inPlay' = inPlay /\ Refused(w)
  BY DEF Reject, PassToFinance, Approve, EndPay
<1>2. IsRow(Copy(w))
  BY <1>1 DEF IInv, RowsTyped, Refused, Copy
<1>3. CASE Reject(w, e)
  <2>1. entry' = [entry EXCEPT ![e] = [Copy(w) EXCEPT !.status = "REJECTED"]]
    BY <1>3 DEF Reject
  <2>2. AreRows(entry') /\ ~Is(e, Live)' /\ \A o \in Entries \ {e} : entry'[o] = entry[o]
    BY <1>2, <2>1 DEF IInv, RowsTyped, IsRow, AreRows, Is, Live, Pending, Costed
  <2> QED BY <1>1, <2>2, EndKeeps DEF Is
<1>4. CASE PassToFinance(w, e) \/ Approve(w, e)
  <2>1. \/ entry' = [entry EXCEPT ![e] = [Copy(w) EXCEPT !.status = "PENDING_FINANCE"]]
        \/ entry' = [entry EXCEPT ![e] = [Copy(w) EXCEPT !.status = "APPROVED",
                                                        !.linked = e \in IntoYard]]
    BY <1>4 DEF PassToFinance, Approve
  <2>2. entry[e].status \in Pending
    BY <1>4 DEF PassToFinance, Approve, May, StillAsLoaded
  <2>3. Is(e, Live)
    BY <2>2 DEF Is, Live
  <2>4. PICK r : IsRow(r) /\ entry' = [entry EXCEPT ![e] = r]
    <3>1. IsRow([Copy(w) EXCEPT !.status = "PENDING_FINANCE"])
      BY <1>2 DEF IsRow
    <3>2. IsRow([Copy(w) EXCEPT !.status = "APPROVED", !.linked = e \in IntoYard])
      BY <1>2 DEF IsRow
    <3> QED BY <2>1, <3>1, <3>2
  <2>5. AreRows(entry') /\ \A o \in Entries \ {e} : entry'[o] = entry[o]
    BY <2>4 DEF IInv, RowsTyped, AreRows
  <2> QED BY <1>1, <2>3, <2>5, EndKeeps DEF Is
<1>5. CASE EndPay(w, e)
  <2>1. /\ entry' = [entry EXCEPT ![e] = [Copy(w) EXCEPT !.status = "PAID"]]
        /\ entry[e].status \in {"APPROVED"}
    BY <1>5 DEF EndPay, May, StillAsLoaded
  <2>2. AreRows(entry') /\ Is(e, Live) /\ \A o \in Entries \ {e} : entry'[o] = entry[o]
    BY <1>2, <2>1 DEF IInv, RowsTyped, IsRow, AreRows, Is, Live, Pending, Costed
  <2> QED BY <1>1, <2>2, EndKeeps DEF Is
<1> QED BY <1>3, <1>4, <1>5

\* A PATCH puts an old row back, and never that of an allowance.
LEMMA EndEditKeeps ==
  ASSUME IInv, NEW w \in Workers, NEW e \in Entries, EndEdit(w, e)
  PROVE  IInv'
<1>1. /\ Doing(w, "edit", e) /\ Refused(w) /\ inPlay' = inPlay
      /\ entry' = [entry EXCEPT ![e] = Copy(w)]
  BY DEF EndEdit
<1>2. IsRow(Copy(w)) /\ Kind[e] # "NIGHT_OUT"
  BY <1>1 DEF IInv, RowsTyped, EditsSpareNights, Doing, Copy
<1>3. AreRows(entry') /\ \A o \in Entries \ {e} : entry'[o] = entry[o]
  BY <1>1, <1>2 DEF IInv, RowsTyped, AreRows
<1> QED BY <1>1, <1>2, <1>3, EndKeeps DEF Is

\* The two steps of a reversal, and the requests that end with nothing written.
LEMMA ReversalKeeps ==
  ASSUME IInv, NEW w \in Workers, NEW e \in Entries,
         EndReverseExpense(w, e) \/ LockPurchase(w, e) \/ EndReversePurchase(w, e) \/ Refuse(w, e)
  PROVE  IInv'
<1>1. CASE EndReverseExpense(w, e) \/ Refuse(w, e)
  <2>1. Refused(w) /\ UNCHANGED <<inPlay, entry>>
    BY <1>1 DEF EndReverseExpense, Refuse
  <2> QED BY <2>1, EndKeeps DEF IInv, RowsTyped, Is
<1>2. CASE EndReversePurchase(w, e)
  <2>1. /\ Refused(w) /\ inPlay' = inPlay
        /\ entry' = [entry EXCEPT ![e].linked = FALSE] \/ entry' = entry
    BY <1>2 DEF EndReversePurchase
  <2>2. AreRows(entry') /\ \A o \in Entries : entry'[o].status = entry[o].status
    BY <2>1 DEF IInv, RowsTyped, IsRow, AreRows
  <2> QED BY <2>1, <2>2, EndKeeps DEF Is
<1>3. CASE LockPurchase(w, e)
  <2> DEFINE job == [op |-> "reverse locked", entry |-> e, copy |-> entry[e], found |-> delivery[e]]
  <2>1. Start(w, job) /\ UNCHANGED <<inPlay, entry>> /\ e \in inPlay
    BY <1>3 DEF LockPurchase, Doing, IInv, RowsTyped
  <2>2. /\ DOMAIN work' = Workers /\ work'[w] = job
        /\ \A v \in Workers \ {w} : work'[v] = work[v]
    <3> HIDE DEF job
    <3> QED BY <2>1, StartsRequest DEF IInv
  <2>3. job.op = "reverse locked" /\ job.entry = e /\ job.copy = entry[e]
    OBVIOUS
  <2> HIDE DEF job
  <2>4. /\ \A v \in Workers, o \in Entries : Recording(v, o)' => Recording(v, o)
        /\ \A v \in Workers, o \in Entries : Doing(v, "edit", o)' => Doing(v, "edit", o)
    BY <2>2, <2>3 DEF Recording, Doing
  <2>5. RowsTyped'
    <3>1. AreRows(entry)' /\ inPlay' \subseteq Entries
      BY <2>1 DEF IInv, RowsTyped, AreRows
    <3>2. \A v \in Workers : work'[v] # Idle =>
              work'[v].entry \in inPlay /\ IsRow(work'[v].copy)
      BY <2>1, <2>2, <2>3 DEF IInv, RowsTyped, AreRows
    <3> QED BY <2>1, <2>2, <3>1, <3>2 DEF RowsTyped
  <2>6. \A o \in inPlay : Is(o, Live)' => Is(o, Live)
    BY <2>1 DEF Is
  <2> QED BY <2>1, <2>4, <2>5, <2>6, QuietStep
<1> QED BY <1>1, <1>2, <1>3

\* Closing a float, posting and voiding a delivery.
LEMMA RestKeeps ==
  ASSUME IInv, NEW e \in Entries,
         \/ PostDelivery(e) \/ VoidDelivery(e)
         \/ \E back \in 0 .. Amount[e] : CloseFloat(e, back)
  PROVE  IInv'
<1>1. /\ inPlay' = inPlay /\ work' = work
      /\ AreRows(entry') /\ \A o \in Entries : entry'[o].status = entry[o].status
  <2>1. CASE PostDelivery(e) \/ VoidDelivery(e)
    BY <2>1 DEF PostDelivery, VoidDelivery, IInv, RowsTyped
  <2>2. CASE \E back \in 0 .. Amount[e] : CloseFloat(e, back)
    <3>1. PICK back \in 0 .. Amount[e] : CloseFloat(e, back)
      BY <2>2
    <3> QED BY <3>1 DEF CloseFloat, IInv, RowsTyped, IsRow, AreRows
  <2> QED BY <2>1, <2>2
<1>2. RowsTyped'
  BY <1>1 DEF IInv, RowsTyped, Recording, Doing
<1>3. /\ \A v \in Workers, o \in Entries : Recording(v, o)' => Recording(v, o)
      /\ \A v \in Workers, o \in Entries : Doing(v, "edit", o)' => Doing(v, "edit", o)
      /\ \A o \in inPlay : Is(o, Live)' => Is(o, Live)
  BY <1>1 DEF Recording, Doing, Is, IInv, RowsTyped
<1> QED BY <1>1, <1>2, <1>3, QuietStep

\* Every step keeps the invariant.
LEMMA IInvNext == IInv /\ [Next]_vars => IInv'
<1> SUFFICES ASSUME IInv, [Next]_vars PROVE IInv'
  OBVIOUS
<1>1. CASE UNCHANGED vars
  <2>1. RowsTyped' /\ EditsSpareNights' /\ OneRecordingEach'
    BY <1>1 DEF vars, IInv, RowsTyped, EditsSpareNights, OneRecordingEach, Recording, Doing
  <2>2. RecordingsAreClear' /\ NightsPaidOnce'
    BY <1>1 DEF vars, IInv, RecordingsAreClear, Recording, Doing, Clashes, NightsPaidOnce, Is
  <2> QED BY <2>1, <2>2 DEF IInv
<1>2. ASSUME NEW w \in Workers, NEW e \in Entries,
             \/ BeginDecide(w, e) \/ BeginEdit(w, e) \/ BeginResubmit(w, e)
             \/ BeginPay(w, e) \/ BeginReverse(w, e)
      PROVE  IInv'
  <2>1. PICK op \in {"decide", "edit", "resubmit", "pay", "reverse"} :
           Load(w, op, e) /\ (op = "edit" => Kind[e] # "NIGHT_OUT")
    BY <1>2 DEF BeginDecide, BeginEdit, BeginResubmit, BeginPay, BeginReverse
  <2> QED BY <2>1, LoadKeeps
<1>3. ASSUME NEW w \in Workers, NEW e \in Entries,
             \/ BeginRecord(w, e) \/ EndRecord(w, e)
             \/ Reject(w, e) \/ PassToFinance(w, e) \/ Approve(w, e)
             \/ EndEdit(w, e) \/ EndResubmit(w, e) \/ EndPay(w, e)
             \/ EndReverseExpense(w, e) \/ LockPurchase(w, e) \/ EndReversePurchase(w, e)
             \/ Refuse(w, e)
      PROVE  IInv'
  BY <1>3, BeginRecordKeeps, EndRecordKeeps, DecisionKeeps, EndEditKeeps, EndResubmitKeeps,
     ReversalKeeps
<1> QED BY <1>1, <1>2, <1>3, RestKeeps DEF Next

\* For any entries, people, nights and workers, two night-out allowances of one person never
\* cover one day while both live (_lock_recorder in commercials/finance.py).
THEOREM NoNightTwice == Spec => []NightsPaidOnce
<1>1. IInv => NightsPaidOnce
  BY DEF IInv
<1> QED BY IInvInit, IInvNext, <1>1, PTL DEF Spec

-----------------------------------------------------------------------------
(* Purchases.                                                              *)

\* The purchases that one of the two crossings has reached.
Strayed == overwritten \cup crossed

\* Of any other: what is not signed has no delivery, a draft is linked, and a request in
\* flight that counts on the signature, or on the draft, may.
Sound(e) ==
    /\ ~Is(e, Costed) => delivery[e] = "none" /\ reversals[e] = 0
    /\ delivery[e] = "draft" => entry[e].linked = TRUE
    /\ delivery[e] # "orphaned"
    /\ reversals[e] = 1 => delivery[e] \notin {"draft", "posted"}
    /\ \A v, w \in Workers : Recording(v, e) /\ Recording(w, e) => v = w
    /\ \A w \in Workers :
          /\ Recording(w, e) => Is(e, {"NONE"})
          /\ Doing(w, "pay", e) => Is(e, Costed) /\ (delivery[e] = "draft" => Copy(w).linked = TRUE)
          /\ Doing(w, "reverse", e) => Is(e, Costed)
          /\ Doing(w, "reverse locked", e) =>
                /\ Is(e, Costed)
                /\ work[w].found = "draft" => Copy(w).linked = TRUE /\ delivery[e] # "posted"
                /\ work[w].found # "draft" => delivery[e] \notin {"draft", "posted"}

\* A reversal that has the lock is the only one, and the first.
Tidy(e) ==
    /\ reversals[e] \in {0, 1}
    /\ \A v, w \in Workers :
          Doing(v, "reverse locked", e) /\ Doing(w, "reverse locked", e) => v = w
    /\ \A w \in Workers : Doing(w, "reverse locked", e) => reversals[e] = 0
    /\ e \notin Strayed => Sound(e)

Purchases == {e \in inPlay : Kind[e] = "PURCHASE"}
BooksTyped == DOMAIN delivery = Entries /\ DOMAIN reversals = Entries
PurchasesInv == BooksTyped /\ \A e \in Purchases : Tidy(e)

\* Nobody goes on with e that did not, and those that do are where they were.
NobodyNew(e) ==
    \A w \in Workers :
       \A op \in {"record", "pay", "reverse", "reverse locked"} :
          Doing(w, op, e)' => Doing(w, op, e) /\ work'[w] = work[w]

\* A step that does nothing to a purchase, beyond ending a request for it, leaves it tidy.
LEMMA Elsewhere ==
  ASSUME NEW e \in Entries, Tidy(e), NobodyNew(e),
         entry'[e] = entry[e], delivery'[e] = delivery[e], reversals'[e] = reversals[e],
         Strayed \subseteq Strayed'
  PROVE  Tidy(e)'
<1>1. ASSUME e \notin Strayed' PROVE Sound(e)'
  <2>1. Sound(e)
    BY <1>1 DEF Tidy
  <2>2. \A w \in Workers : Recording(w, e)' => Recording(w, e)
    BY DEF NobodyNew, Recording
  <2>3. \A op \in {"pay", "reverse", "reverse locked"} : \A w \in Workers :
            Doing(w, op, e)' => Doing(w, op, e) /\ work'[w] = work[w]
    BY DEF NobodyNew
  <2>4. Is(e, Costed)' = Is(e, Costed) /\ Is(e, {"NONE"})' = Is(e, {"NONE"})
    BY DEF Is
  <2>5. \A w \in Workers : Recording(w, e)' => Is(e, {"NONE"})'
    BY <2>1, <2>2, <2>4 DEF Sound
  <2>6. \A w \in Workers :
          /\ Doing(w, "pay", e)' => Is(e, Costed)' /\ (delivery'[e] = "draft" => work'[w].copy.linked = TRUE)
          /\ Doing(w, "reverse", e)' => Is(e, Costed)'
    <3> SUFFICES ASSUME NEW w \in Workers PROVE
          /\ Doing(w, "pay", e)' => Is(e, Costed)' /\ (delivery'[e] = "draft" => work'[w].copy.linked = TRUE)
          /\ Doing(w, "reverse", e)' => Is(e, Costed)'
      OBVIOUS
    <3>1. /\ Doing(w, "pay", e)' => Doing(w, "pay", e) /\ work'[w] = work[w]
          /\ Doing(w, "reverse", e)' => Doing(w, "reverse", e)
      BY <2>3
    <3>2. /\ Doing(w, "pay", e) => Is(e, Costed) /\ (delivery[e] = "draft" => work[w].copy.linked = TRUE)
          /\ Doing(w, "reverse", e) => Is(e, Costed)
      BY <2>1 DEF Sound, Copy
    <3> QED BY <2>4, <3>1, <3>2
  <2>7. \A w \in Workers : Doing(w, "reverse locked", e)' =>
          /\ Is(e, Costed)'
          /\ work'[w].found = "draft" => work'[w].copy.linked = TRUE /\ delivery'[e] # "posted"
          /\ work'[w].found # "draft" => delivery'[e] \notin {"draft", "posted"}
    <3> SUFFICES ASSUME NEW w \in Workers, Doing(w, "reverse locked", e)' PROVE
          /\ Is(e, Costed)'
          /\ work'[w].found = "draft" => work'[w].copy.linked = TRUE /\ delivery'[e] # "posted"
          /\ work'[w].found # "draft" => delivery'[e] \notin {"draft", "posted"}
      OBVIOUS
    <3>1. Doing(w, "reverse locked", e) /\ work'[w] = work[w]
      BY <2>3
    <3>2. /\ Is(e, Costed)
          /\ work[w].found = "draft" => work[w].copy.linked = TRUE /\ delivery[e] # "posted"
          /\ work[w].found # "draft" => delivery[e] \notin {"draft", "posted"}
      BY <2>1, <3>1 DEF Sound, Copy
    <3> QED BY <2>4, <3>1, <3>2
  <2>8. /\ ~Is(e, Costed)' => delivery'[e] = "none" /\ reversals'[e] = 0
        /\ delivery'[e] = "draft" => entry'[e].linked = TRUE
        /\ delivery'[e] # "orphaned"
        /\ reversals'[e] = 1 => delivery'[e] \notin {"draft", "posted"}
        /\ \A v, w \in Workers : Recording(v, e)' /\ Recording(w, e)' => v = w
    BY <2>1, <2>2, <2>4 DEF Sound
  <2> QED BY <2>5, <2>6, <2>7, <2>8 DEF Sound, Copy
<1> QED BY <1>1 DEF Tidy, NobodyNew

\* What is not signed yet has nobody that counts on it, so its row may be written, and its
\* draft made with the last signature.
LEMMA UnsignedStep ==
  ASSUME NEW e \in Entries, Tidy(e), NobodyNew(e),
         e \notin Strayed => ~Is(e, Costed) /\ \A w \in Workers : ~Recording(w, e)',
         reversals'[e] = reversals[e], Strayed' = Strayed,
         \/ delivery'[e] = delivery[e]
         \/ delivery'[e] = "draft" /\ Is(e, Costed)' /\ entry'[e].linked = TRUE
  PROVE  Tidy(e)'
<1>1. ASSUME e \notin Strayed' PROVE Sound(e)'
  <2>1. /\ delivery[e] = "none" /\ reversals[e] = 0
        /\ \A w \in Workers : /\ ~Doing(w, "pay", e) /\ ~Doing(w, "reverse", e)
                               /\ ~Doing(w, "reverse locked", e)
    BY <1>1 DEF Tidy, Sound
  <2>2. \A w \in Workers : /\ ~Doing(w, "pay", e)' /\ ~Doing(w, "reverse", e)'
                            /\ ~Doing(w, "reverse locked", e)' /\ ~Recording(w, e)'
    BY <1>1, <2>1 DEF NobodyNew
  <2>3. /\ ~Is(e, Costed)' => delivery'[e] = "none" /\ reversals'[e] = 0
        /\ delivery'[e] = "draft" => entry'[e].linked = TRUE
        /\ delivery'[e] # "orphaned"
        /\ reversals'[e] # 1
    <3>1. reversals'[e] = 0
      BY <2>1
    <3>2. delivery'[e] = "none" \/ (Is(e, Costed)' /\ entry'[e].linked = TRUE)
      BY <2>1
    <3>3. delivery'[e] = "none" => delivery'[e] \notin {"draft", "orphaned"}
      OBVIOUS
    <3>4. delivery'[e] \in {"none", "draft"}
      BY <2>1
    <3> QED BY <3>1, <3>2, <3>3, <3>4
  <2> QED BY <2>2, <2>3 DEF Sound
<1> QED BY <1>1 DEF Tidy, NobodyNew

\* A worker that ends its request brings nobody to any entry.
LEMMA EndingIsNothingNew ==
  ASSUME RowsTyped, NEW w \in Workers, Refused(w)
  PROVE  /\ \A e \in Entries : NobodyNew(e)
         /\ \A op, e : ~Doing(w, op, e)'
BY EndsRequest DEF NobodyNew, Doing

\* A worker that starts a request for e comes to no other entry.
LEMMA StartingIsNothingElse ==
  ASSUME NEW w \in Workers, NEW e \in Entries, work'[w].entry = e,
         \A v \in Workers \ {w} : work'[v] = work[v]
  PROVE  \A o \in Entries \ {e} : NobodyNew(o)
<1>1. ASSUME NEW o \in Entries \ {e}, NEW v \in Workers, NEW op, Doing(v, op, o)'
      PROVE  Doing(v, op, o) /\ work'[v] = work[v]
  <2>1. v # w
    BY <1>1 DEF Doing
  <2> QED BY <1>1, <2>1 DEF Doing
<1> QED BY <1>1 DEF NobodyNew

\* A step about e leaves every other purchase tidy.
LEMMA OthersTidy ==
  ASSUME RowsTyped, PurchasesInv, NEW e \in Entries, inPlay' = inPlay, BooksTyped',
         \A o \in Entries \ {e} : /\ entry'[o] = entry[o] /\ delivery'[o] = delivery[o]
                                  /\ reversals'[o] = reversals[o] /\ NobodyNew(o),
         Strayed \subseteq Strayed',
         e \in Purchases => Tidy(e)'
  PROVE  PurchasesInv'
<1>1. ASSUME NEW o \in Purchases \ {e} PROVE Tidy(o)'
  BY <1>1, Elsewhere DEF PurchasesInv, RowsTyped, Purchases
<1>2. Purchases' = Purchases
  BY DEF Purchases
<1> QED BY <1>1, <1>2 DEF PurchasesInv

\* Most requests begin with a row that says what they count on.
LEMMA LoadTidy ==
  ASSUME RowsTyped, PurchasesInv, NEW w \in Workers, NEW e \in Entries, NEW op,
         op \notin {"record", "reverse locked"}, Load(w, op, e),
         op \in {"pay", "reverse"} => Is(e, Costed)
  PROVE  PurchasesInv'
<1> DEFINE job == [op |-> op, entry |-> e, copy |-> entry[e]]
<1>1. Start(w, job) /\ UNCHANGED <<inPlay, entry, delivery, reversals, Strayed>>
  BY DEF Load, books, history, Strayed
<1>2. job.op = op /\ job.entry = e /\ job.copy = entry[e]
  OBVIOUS
<1> HIDE DEF job
<1>3. work'[w] = job /\ \A v \in Workers \ {w} : work'[v] = work[v]
  BY <1>1, StartsRequest
<1>4. \A v \in Workers : /\ Recording(v, e)' => Recording(v, e)
                         /\ Doing(v, "reverse locked", e)' =>
                                Doing(v, "reverse locked", e) /\ work'[v] = work[v]
  <2>1. ASSUME NEW v \in Workers, NEW kind \in {"record", "reverse locked"}, Doing(v, kind, e)'
        PROVE  Doing(v, kind, e) /\ work'[v] = work[v]
    <3>1. v # w
      BY <2>1, <1>2, <1>3 DEF Doing
    <3> QED BY <2>1, <1>3, <3>1 DEF Doing
  <2>2. \A v \in Workers : Doing(v, "record", e)' => Doing(v, "record", e)
    BY <2>1
  <2>3. \A v \in Workers : Doing(v, "reverse locked", e)' =>
                                Doing(v, "reverse locked", e) /\ work'[v] = work[v]
    BY <2>1
  <2> QED BY <2>2, <2>3 DEF Recording
<1>5. ASSUME e \in Purchases PROVE Tidy(e)'
  <2>1. Tidy(e)
    BY <1>5 DEF PurchasesInv
  <2>2. ASSUME e \notin Strayed' PROVE Sound(e)'
    <3>1. Sound(e)
      BY <1>1, <2>1, <2>2 DEF Tidy
    <3>2. Is(e, Costed)' = Is(e, Costed) /\ Is(e, {"NONE"})' = Is(e, {"NONE"})
      BY <1>1 DEF Is
    <3>3. \A v \in Workers :
          /\ Recording(v, e)' => Is(e, {"NONE"})'
          /\ Doing(v, "reverse locked", e)' =>
                /\ Is(e, Costed)'
                /\ work'[v].found = "draft" => work'[v].copy.linked = TRUE /\ delivery'[e] # "posted"
                /\ work'[v].found # "draft" => delivery'[e] \notin {"draft", "posted"}
      <4> SUFFICES ASSUME NEW v \in Workers
                   PROVE  /\ Recording(v, e)' => Is(e, {"NONE"})'
                          /\ Doing(v, "reverse locked", e)' =>
                                /\ Is(e, Costed)'
                                /\ work'[v].found = "draft" => work'[v].copy.linked = TRUE /\ delivery'[e] # "posted"
                                /\ work'[v].found # "draft" => delivery'[e] \notin {"draft", "posted"}
        OBVIOUS
      <4>1. /\ Recording(v, e) => Is(e, {"NONE"})
            /\ Doing(v, "reverse locked", e) =>
                  /\ Is(e, Costed)
                  /\ work[v].found = "draft" => work[v].copy.linked = TRUE /\ delivery[e] # "posted"
                  /\ work[v].found # "draft" => delivery[e] \notin {"draft", "posted"}
        BY <3>1 DEF Sound, Copy
      <4>2. delivery' = delivery
        BY <1>1
      <4> QED BY <1>4, <3>2, <4>1, <4>2
    <3>4. ASSUME NEW v \in Workers
          PROVE  /\ Doing(v, "pay", e)' =>
                       Is(e, Costed)' /\ (delivery'[e] = "draft" => work'[v].copy.linked = TRUE)
                 /\ Doing(v, "reverse", e)' => Is(e, Costed)'
      <4>1. CASE v = w
        <5>1. /\ Doing(v, "pay", e)' => op = "pay"
              /\ Doing(v, "reverse", e)' => op = "reverse"
          BY <4>1, <1>2, <1>3 DEF Doing
        <5>2. work'[v].copy = entry[e] /\ (delivery'[e] = "draft" => entry[e].linked = TRUE)
          BY <4>1, <1>1, <1>2, <1>3, <3>1 DEF Sound
        <5> QED BY <5>1, <5>2, <3>2
      <4>2. CASE v # w
        <5>1. /\ work'[v] = work[v]
              /\ Doing(v, "pay", e)' = Doing(v, "pay", e)
              /\ Doing(v, "reverse", e)' = Doing(v, "reverse", e)
          BY <4>2, <1>3 DEF Doing
        <5> QED BY <5>1, <1>1, <3>1, <3>2 DEF Sound, Copy
      <4> QED BY <4>1, <4>2
    <3>5. /\ ~Is(e, Costed)' => delivery'[e] = "none" /\ reversals'[e] = 0
          /\ delivery'[e] = "draft" => entry'[e].linked = TRUE
          /\ delivery'[e] # "orphaned"
          /\ reversals'[e] = 1 => delivery'[e] \notin {"draft", "posted"}
          /\ \A u, v \in Workers : Recording(u, e)' /\ Recording(v, e)' => u = v
      BY <1>1, <1>4, <3>1, <3>2 DEF Sound
    <3> QED BY <3>3, <3>4, <3>5 DEF Sound, Copy
  <2> QED BY <1>1, <1>4, <2>1, <2>2 DEF Tidy
<1>6. \A o \in Entries \ {e} : NobodyNew(o)
  BY <1>2, <1>3, StartingIsNothingElse
<1> QED BY <1>1, <1>5, <1>6, OthersTidy DEF PurchasesInv, BooksTyped

\* A purchase is recorded by one worker, while it is not there.
LEMMA BeginRecordTidy ==
  ASSUME RowsTyped, PurchasesInv, NEW w \in Workers, NEW e \in Entries, BeginRecord(w, e)
  PROVE  PurchasesInv'
<1> DEFINE job == [op |-> "record", entry |-> e, copy |-> entry[e],
                   over |-> WouldExceed(e), position |-> Position]
<1>1. /\ Start(w, job) /\ Is(e, {"NONE"}) /\ \A v \in Workers : ~Recording(v, e)
      /\ UNCHANGED <<inPlay, entry, delivery, reversals, Strayed>>
  BY DEF BeginRecord, books, history, Strayed, Recording
<1>2. job.op = "record" /\ job.entry = e
  OBVIOUS
<1> HIDE DEF job
<1>3. work'[w] = job /\ \A v \in Workers \ {w} : work'[v] = work[v]
  BY <1>1, StartsRequest
<1>4. \A v \in Workers : \A op \in {"pay", "reverse", "reverse locked"} :
          Doing(v, op, e)' => Doing(v, op, e) /\ work'[v] = work[v]
  <2> SUFFICES ASSUME NEW v \in Workers, NEW op \in {"pay", "reverse", "reverse locked"},
                      Doing(v, op, e)'
               PROVE  Doing(v, op, e) /\ work'[v] = work[v]
    OBVIOUS
  <2>1. v # w
    BY <1>2, <1>3 DEF Doing
  <2> QED BY <1>3, <2>1 DEF Doing
<1>5. \A v \in Workers : Recording(v, e)' => v = w
  BY <1>1, <1>3 DEF Recording, Doing
<1>6. ASSUME e \in Purchases PROVE Tidy(e)'
  <2>1. Tidy(e)
    BY <1>6 DEF PurchasesInv
  <2>2. ASSUME e \notin Strayed' PROVE Sound(e)'
    <3>1. Sound(e) /\ ~Is(e, Costed)
      BY <1>1, <2>1, <2>2 DEF Tidy, Is, Costed
    <3>2. /\ delivery'[e] = "none" /\ reversals'[e] = 0
          /\ \A v \in Workers : /\ ~Doing(v, "pay", e)' /\ ~Doing(v, "reverse", e)'
                                 /\ ~Doing(v, "reverse locked", e)'
      BY <1>1, <1>4, <3>1 DEF Sound
    <3>3. Is(e, {"NONE"})'
      BY <1>1 DEF Is
    <3> QED BY <1>5, <3>2, <3>3 DEF Sound
  <2> QED BY <1>1, <1>4, <2>1, <2>2 DEF Tidy
<1>7. \A o \in Entries \ {e} : NobodyNew(o)
  BY <1>2, <1>3, StartingIsNothingElse
<1> QED BY <1>1, <1>6, <1>7, OthersTidy DEF PurchasesInv, BooksTyped

\* The row of an entry is written with what is not signed yet, and its draft made with the
\* last signature.
LEMMA DecisionTidy ==
  ASSUME RowsTyped, PurchasesInv, NEW w \in Workers, NEW e \in Entries,
         \/ EndRecord(w, e) \/ EndResubmit(w, e)
         \/ Reject(w, e) \/ PassToFinance(w, e) \/ Approve(w, e)
  PROVE  PurchasesInv'
<1>1. /\ Refused(w) /\ UNCHANGED <<inPlay, reversals, Strayed>>
      /\ delivery' = delivery \/ Approve(w, e)
  BY DEF EndRecord, EndResubmit, Reject, PassToFinance, Approve, books, history, Strayed
<1>2. (\A o \in Entries : NobodyNew(o)) /\ (\A op, o : ~Doing(w, op, o)')
  BY <1>1, EndingIsNothingNew
<1>3. PICK r : entry' = [entry EXCEPT ![e] = r] \/ EndRecord(w, e)
  BY DEF EndResubmit, Reject, PassToFinance, Approve
<1>4. \A o \in Entries \ {e} : entry'[o] = entry[o]
  BY <1>3 DEF EndRecord, RowsTyped, AreRows
<1>5. (\A o \in Entries \ {e} : delivery'[o] = delivery[o]) /\ DOMAIN delivery' = Entries
  BY <1>1 DEF Approve, PurchasesInv, BooksTyped
<1>6. ASSUME e \in Purchases PROVE Tidy(e)'
  <2>1. Tidy(e)
    BY <1>6 DEF PurchasesInv
  <2>2. CASE EndRecord(w, e)
    <3>1. e \notin Strayed =>
             /\ ~Is(e, Costed)
             /\ \A v \in Workers : ~Recording(v, e)'
      <4>1. Recording(w, e)
        BY <2>2 DEF EndRecord, Recording
      <4>2. e \notin Strayed => Is(e, {"NONE"}) /\ \A v \in Workers : Recording(v, e) => v = w
        BY <2>1, <4>1 DEF Tidy, Sound
      <4>3. \A v \in Workers : Recording(v, e)' => Recording(v, e) /\ v # w
        BY <1>2 DEF NobodyNew, Recording
      <4> QED BY <4>2, <4>3 DEF Is, Costed
    <3>2. delivery'[e] = delivery[e] /\ reversals'[e] = reversals[e] /\ NobodyNew(e)
      BY <1>2, <2>2 DEF EndRecord, books
    <3> QED BY <1>1, <1>2, <2>1, <3>1, <3>2, UnsignedStep
  <2>3. CASE ~EndRecord(w, e)
    <3>1. entry[e].status \in {"PENDING_PM", "PENDING_FINANCE", "REJECTED"}
      BY <2>3 DEF EndResubmit, Reject, PassToFinance, Approve, May, StillAsLoaded, Pending
    <3>2. ~Is(e, Costed) /\ ~Is(e, {"NONE"})
      BY <3>1 DEF Is, Costed
    <3>3. e \notin Strayed => \A v \in Workers : ~Recording(v, e)'
      BY <1>2, <2>1, <3>2 DEF Tidy, Sound, NobodyNew, Recording
    <3>4. \/ delivery'[e] = delivery[e]
          \/ delivery'[e] = "draft" /\ Is(e, Costed)' /\ entry'[e].linked = TRUE
      <4>1. CASE Approve(w, e)
        <5>1. IsRow(Copy(w)) /\ AreRows(entry) /\ DOMAIN delivery = Entries
          BY <4>1 DEF Approve, May, Doing, RowsTyped, Copy, PurchasesInv, BooksTyped
        <5>2. CASE e \in IntoYard
          <6>1. entry' = [entry EXCEPT ![e] = [Copy(w) EXCEPT !.status = "APPROVED",
                                                              !.linked = e \in IntoYard]]
            BY <4>1 DEF Approve
          <6>2. entry'[e] = [Copy(w) EXCEPT !.status = "APPROVED", !.linked = e \in IntoYard]
            BY <5>1, <6>1 DEF AreRows
          <6>3. entry'[e].status = "APPROVED" /\ entry'[e].linked = (e \in IntoYard)
            BY <5>1, <6>2 DEF IsRow
          <6>4. delivery'[e] = "draft"
            BY <4>1, <5>1, <5>2 DEF Approve
          <6> QED BY <5>2, <6>3, <6>4 DEF Is, Costed
        <5>3. CASE e \notin IntoYard
          BY <4>1, <5>1, <5>3 DEF Approve
        <5> QED BY <5>2, <5>3
      <4> QED BY <1>1, <4>1
    <3> QED BY <1>1, <1>2, <2>1, <3>2, <3>3, <3>4, UnsignedStep
  <2> QED BY <2>2, <2>3
<1> QED BY <1>1, <1>2, <1>4, <1>5, <1>6, OthersTidy DEF PurchasesInv, BooksTyped

\* A PATCH either finds the row it has read, or puts an old one back.
LEMMA EndEditTidy ==
  ASSUME RowsTyped, PurchasesInv, NEW w \in Workers, NEW e \in Entries, EndEdit(w, e)
  PROVE  PurchasesInv'
<1>1. /\ Refused(w) /\ UNCHANGED <<inPlay, delivery, reversals>>
      /\ entry' = [entry EXCEPT ![e] = Copy(w)]
      /\ Strayed' = IF entry[e] # Copy(w) THEN Strayed \cup {e} ELSE Strayed
  BY DEF EndEdit, books, Strayed
<1>2. \A o \in Entries : NobodyNew(o)
  BY <1>1, EndingIsNothingNew
<1>3. /\ \A o \in Entries \ {e} : entry'[o] = entry[o]
      /\ entry'[e] = entry[e] \/ e \in Strayed'
  BY <1>1 DEF RowsTyped, AreRows
<1>4. Strayed \subseteq Strayed'
  BY <1>1
<1>5. ASSUME e \in Purchases PROVE Tidy(e)'
  <2>1. Tidy(e)
    BY <1>5 DEF PurchasesInv
  <2>2. CASE entry'[e] = entry[e]
    BY <1>1, <1>2, <1>4, <2>1, <2>2, Elsewhere
  <2>3. CASE e \in Strayed'
    BY <1>1, <1>2, <2>1, <2>3 DEF Tidy, NobodyNew
  <2> QED BY <1>3, <2>2, <2>3
<1> QED BY <1>1, <1>2, <1>3, <1>4, <1>5, OthersTidy DEF PurchasesInv, BooksTyped

\* What is paid was signed, and the link it had when it was read is there still.
LEMMA EndPayTidy ==
  ASSUME RowsTyped, PurchasesInv, NEW w \in Workers, NEW e \in Entries, EndPay(w, e)
  PROVE  PurchasesInv'
<1>1. /\ Refused(w) /\ UNCHANGED <<inPlay, delivery, reversals, Strayed>>
      /\ entry' = [entry EXCEPT ![e] = [Copy(w) EXCEPT !.status = "PAID"]]
      /\ Doing(w, "pay", e) /\ RowFree(w, e)
  BY DEF EndPay, May, books, history, Strayed
<1>2. (\A o \in Entries : NobodyNew(o)) /\ (\A op, o : ~Doing(w, op, o)')
  BY <1>1, EndingIsNothingNew
<1>3. \A o \in Entries \ {e} : entry'[o] = entry[o]
  BY <1>1 DEF RowsTyped, AreRows
<1>4. IsRow(Copy(w)) /\ entry'[e] = [Copy(w) EXCEPT !.status = "PAID"]
  BY <1>1 DEF RowsTyped, Copy, Doing, AreRows
<1>5. entry'[e].status = "PAID" /\ entry'[e].linked = Copy(w).linked
  BY <1>4 DEF IsRow
<1>6. Is(e, Costed)'
  BY <1>5 DEF Is, Costed
<1>7. ASSUME e \in Purchases PROVE Tidy(e)'
  <2>1. Tidy(e)
    BY <1>7 DEF PurchasesInv
  <2>2. ASSUME e \notin Strayed' PROVE Sound(e)'
    <3>1. Sound(e)
      BY <1>1, <2>1, <2>2 DEF Tidy
    <3>2. /\ Is(e, Costed) /\ (delivery[e] = "draft" => Copy(w).linked = TRUE)
          /\ \A v \in Workers : ~Recording(v, e)
      <4>1. Is(e, Costed) /\ (delivery[e] = "draft" => Copy(w).linked = TRUE)
        BY <1>1, <3>1 DEF Sound
      <4>2. ~Is(e, {"NONE"})
        BY <4>1 DEF Is, Costed
      <4> QED BY <3>1, <4>1, <4>2 DEF Sound
    <3>3. \A v \in Workers : ~Recording(v, e)' /\ ~Doing(v, "reverse locked", e)'
      <4>1. \A v \in Workers : ~Recording(v, e)'
        BY <1>2, <3>2 DEF NobodyNew, Recording
      <4>2. \A v \in Workers : ~Doing(v, "reverse locked", e)'
        <5> SUFFICES ASSUME NEW v \in Workers, Doing(v, "reverse locked", e)' PROVE FALSE
          OBVIOUS
        <5>1. Doing(v, "reverse locked", e) /\ v # w
          BY <1>2 DEF NobodyNew
        <5> QED BY <1>1, <5>1 DEF RowFree
      <4> QED BY <4>1, <4>2
    <3>4. \A v \in Workers : Doing(v, "pay", e)' => (delivery'[e] = "draft" => work'[v].copy.linked = TRUE)
      <4> SUFFICES ASSUME NEW v \in Workers, Doing(v, "pay", e)', delivery'[e] = "draft"
                   PROVE  work'[v].copy.linked = TRUE
        OBVIOUS
      <4>1. Doing(v, "pay", e) /\ work'[v] = work[v]
        BY <1>2 DEF NobodyNew
      <4>2. work[v].copy.linked = TRUE
        BY <1>1, <3>1, <4>1 DEF Sound, Copy
      <4> QED BY <4>1, <4>2
    <3>5. /\ delivery'[e] = "draft" => entry'[e].linked = TRUE
          /\ delivery'[e] # "orphaned"
          /\ reversals'[e] = 1 => delivery'[e] \notin {"draft", "posted"}
      BY <1>1, <1>5, <3>1, <3>2 DEF Sound
    <3> QED BY <1>6, <3>3, <3>4, <3>5 DEF Sound, Copy
  <2> QED BY <1>1, <1>2, <2>1, <2>2 DEF Tidy, NobodyNew
<1> QED BY <1>1, <1>2, <1>3, <1>7, OthersTidy DEF PurchasesInv, BooksTyped

\* The row is locked with the link it has, and what is found of the delivery.
LEMMA LockPurchaseTidy ==
  ASSUME RowsTyped, PurchasesInv, NEW w \in Workers, NEW e \in Entries, LockPurchase(w, e)
  PROVE  PurchasesInv'
<1> DEFINE job == [op |-> "reverse locked", entry |-> e, copy |-> entry[e], found |-> delivery[e]]
<1>1. /\ Start(w, job) /\ Doing(w, "reverse", e) /\ RowFree(w, e)
      /\ Kind[e] = "PURCHASE" /\ MayStillReverse(e)
      /\ UNCHANGED <<inPlay, entry, delivery, reversals, Strayed>>
  BY DEF LockPurchase, books, history, Strayed
<1>2. /\ job.op = "reverse locked" /\ job.entry = e
      /\ job.copy = entry[e] /\ job.found = delivery[e]
  OBVIOUS
<1> HIDE DEF job
<1>3. work'[w] = job /\ \A v \in Workers \ {w} : work'[v] = work[v]
  BY <1>1, StartsRequest
<1>4. delivery[e] # "posted" /\ reversals[e] = 0
  BY <1>1 DEF MayStillReverse
<1>5. \A v \in Workers : \A op \in {"record", "pay", "reverse"} :
          Doing(v, op, e)' => Doing(v, op, e) /\ work'[v] = work[v]
  <2> SUFFICES ASSUME NEW v \in Workers, NEW op \in {"record", "pay", "reverse"},
                      Doing(v, op, e)'
               PROVE  Doing(v, op, e) /\ work'[v] = work[v]
    OBVIOUS
  <2>1. v # w
    BY <1>2, <1>3 DEF Doing
  <2> QED BY <1>3, <2>1 DEF Doing
<1>6. \A v \in Workers : Doing(v, "reverse locked", e)' => v = w
  <2> SUFFICES ASSUME NEW v \in Workers \ {w}, Doing(v, "reverse locked", e)' PROVE FALSE
    OBVIOUS
  <2> QED BY <1>1, <1>3 DEF RowFree, Doing
<1>7. ASSUME e \in Purchases PROVE Tidy(e)'
  <2>1. Tidy(e)
    BY <1>7 DEF PurchasesInv
  <2>2. ASSUME e \notin Strayed' PROVE Sound(e)'
    <3>1. Sound(e)
      BY <1>1, <2>1, <2>2 DEF Tidy
    <3>2. Is(e, Costed)' = Is(e, Costed) /\ Is(e, {"NONE"})' = Is(e, {"NONE"})
      BY <1>1 DEF Is
    <3>3. Is(e, Costed)
      BY <1>1, <3>1 DEF Sound
    <3>4. ASSUME NEW v \in Workers
          PROVE  /\ Recording(v, e)' => Recording(v, e)
                 /\ Recording(v, e)' => Is(e, {"NONE"})'
                 /\ Doing(v, "pay", e)' => (delivery'[e] = "draft" => work'[v].copy.linked = TRUE)
      <4>1. /\ Recording(v, e) => Is(e, {"NONE"})
            /\ Doing(v, "pay", e) => (delivery[e] = "draft" => work[v].copy.linked = TRUE)
        BY <3>1 DEF Sound, Copy
      <4>2. Doing(v, "pay", e)' => Doing(v, "pay", e) /\ work'[v] = work[v]
        BY <1>5
      <4>3. Recording(v, e)' => Recording(v, e)
        BY <1>5 DEF Recording
      <4> QED BY <1>1, <3>2, <4>1, <4>2, <4>3
    <3>5. ASSUME NEW v \in Workers, Doing(v, "reverse locked", e)'
          PROVE  /\ work'[v].found = "draft" => work'[v].copy.linked = TRUE /\ delivery'[e] # "posted"
                 /\ work'[v].found # "draft" => delivery'[e] \notin {"draft", "posted"}
      <4>1. work'[v].found = delivery[e] /\ work'[v].copy = entry[e]
        BY <1>2, <1>3, <1>6, <3>5
      <4>2. delivery[e] = "draft" => entry[e].linked = TRUE
        BY <3>1 DEF Sound
      <4> QED BY <1>1, <1>4, <4>1, <4>2
    <3>6. /\ delivery'[e] = "draft" => entry'[e].linked = TRUE
          /\ delivery'[e] # "orphaned"
          /\ reversals'[e] = 1 => delivery'[e] \notin {"draft", "posted"}
          /\ \A u, v \in Workers : Recording(u, e)' /\ Recording(v, e)' => u = v
      BY <1>1, <3>1, <3>4 DEF Sound
    <3> QED BY <3>2, <3>3, <3>4, <3>5, <3>6 DEF Sound, Copy
  <2> QED BY <1>1, <1>4, <1>6, <2>1, <2>2 DEF Tidy
<1>8. \A o \in Entries \ {e} : NobodyNew(o)
  BY <1>2, <1>3, StartingIsNothingElse
<1> QED BY <1>1, <1>7, <1>8, OthersTidy DEF PurchasesInv, BooksTyped

\* The reversal takes the draft along that it has found, and otherwise there is none.
LEMMA EndReversePurchaseTidy ==
  ASSUME RowsTyped, PurchasesInv, NEW w \in Workers, NEW e \in Entries, EndReversePurchase(w, e)
  PROVE  PurchasesInv'
<1>1. /\ Refused(w) /\ UNCHANGED <<inPlay, Strayed>> /\ Doing(w, "reverse locked", e)
      /\ reversals' = [reversals EXCEPT ![e] = @ + 1]
  BY DEF EndReversePurchase, history, Strayed
<1>2. \/ /\ entry' = [entry EXCEPT ![e].linked = FALSE]
         /\ delivery' = Deleted(e)
      \/ /\ entry' = entry /\ delivery' = delivery
         /\ ~(Copy(w).linked = TRUE /\ work[w].found = "draft")
  BY DEF EndReversePurchase
<1>3. (\A o \in Entries : NobodyNew(o)) /\ (\A op, o : ~Doing(w, op, o)')
  BY <1>1, EndingIsNothingNew
<1>4. /\ \A o \in Entries \ {e} : /\ entry'[o] = entry[o] /\ delivery'[o] = delivery[o]
                                  /\ reversals'[o] = reversals[o]
      /\ DOMAIN delivery' = Entries /\ DOMAIN reversals' = Entries
      /\ reversals'[e] = reversals[e] + 1 /\ entry'[e].status = entry[e].status
  <2>1. DOMAIN entry = Entries /\ IsRow(entry[e]) /\ DOMAIN delivery = Entries /\ DOMAIN reversals = Entries
    BY DEF RowsTyped, AreRows, PurchasesInv, BooksTyped
  <2>2. /\ \A o \in Entries \ {e} : reversals'[o] = reversals[o]
        /\ DOMAIN reversals' = Entries /\ reversals'[e] = reversals[e] + 1
    BY <1>1, <2>1
  <2>3. /\ \A o \in Entries \ {e} : delivery'[o] = delivery[o]
        /\ DOMAIN delivery' = Entries
    BY <1>2, <2>1 DEF Deleted
  <2>4. /\ \A o \in Entries \ {e} : entry'[o] = entry[o]
        /\ entry'[e].status = entry[e].status
    BY <1>2, <2>1 DEF IsRow
  <2> QED BY <2>2, <2>3, <2>4
<1>5. delivery'[e] = (IF delivery[e] = "posted" THEN "orphaned" ELSE "gone")
      \/ (entry' = entry /\ delivery'[e] = delivery[e]
          /\ ~(Copy(w).linked = TRUE /\ work[w].found = "draft"))
  BY <1>2 DEF Deleted, PurchasesInv, BooksTyped
<1>6. ASSUME e \in Purchases PROVE Tidy(e)'
  <2>1. Tidy(e) /\ reversals'[e] = 1
    <3>1. Tidy(e)
      BY <1>6 DEF PurchasesInv
    <3>2. reversals[e] = 0
      BY <1>1, <3>1 DEF Tidy
    <3> QED BY <1>4, <3>1, <3>2
  <2>2. \A v \in Workers : ~Doing(v, "reverse locked", e)'
    <3> SUFFICES ASSUME NEW v \in Workers, Doing(v, "reverse locked", e)' PROVE FALSE
      OBVIOUS
    <3>1. Doing(v, "reverse locked", e) /\ v # w
      BY <1>3 DEF NobodyNew
    <3> QED BY <1>1, <2>1, <3>1 DEF Tidy
  <2>3. ASSUME e \notin Strayed' PROVE Sound(e)'
    <3>1. Sound(e)
      BY <1>1, <2>1, <2>3 DEF Tidy
    <3>2. /\ Is(e, Costed)
          /\ work[w].found = "draft" => Copy(w).linked = TRUE /\ delivery[e] # "posted"
          /\ work[w].found # "draft" => delivery[e] \notin {"draft", "posted"}
          /\ delivery[e] # "orphaned"
      BY <1>1, <3>1 DEF Sound
    <3>3. delivery'[e] \notin {"draft", "posted", "orphaned"}
      BY <1>5, <3>2
    <3>4. Is(e, Costed)'
      BY <1>4, <3>2 DEF Is
    <3>5. \A v \in Workers : ~Recording(v, e)'
      <4>1. ~Is(e, {"NONE"})
        BY <3>2 DEF Is, Costed
      <4> QED BY <1>3, <3>1, <4>1 DEF Sound, NobodyNew, Recording
    <3> QED BY <2>2, <3>3, <3>4, <3>5 DEF Sound
  <2> QED BY <2>1, <2>2, <2>3 DEF Tidy
<1> QED BY <1>1, <1>3, <1>4, <1>6, OthersTidy DEF BooksTyped

\* A delivery is posted or voided, a float closed, an expense reversed.
LEMMA RestTidy ==
  ASSUME RowsTyped, PurchasesInv, NEW e \in Entries,
         \/ PostDelivery(e) \/ VoidDelivery(e)
         \/ \E back \in 0 .. Amount[e] : CloseFloat(e, back)
         \/ \E w \in Workers : EndReverseExpense(w, e) \/ Refuse(w, e)
  PROVE  PurchasesInv'
<1>1. CASE PostDelivery(e) \/ VoidDelivery(e)
  <2>1. /\ UNCHANGED <<inPlay, entry, reversals, work>>
        /\ Strayed' = Strayed \/ Strayed' = Strayed \cup {e}
        /\ \/ /\ delivery[e] = "draft" /\ delivery' = [delivery EXCEPT ![e] = "posted"]
              /\ e \notin Strayed' => ~DraftInHand(e)
           \/ delivery[e] = "posted" /\ delivery' = [delivery EXCEPT ![e] = "void"]
    <3>1. CASE PostDelivery(e)
      BY <3>1 DEF PostDelivery, Strayed
    <3>2. CASE VoidDelivery(e)
      BY <3>2 DEF VoidDelivery, Strayed
    <3> QED BY <1>1, <3>1, <3>2
  <2>2. \A o \in Entries : NobodyNew(o)
    BY <2>1 DEF NobodyNew, Doing
  <2>3. /\ \A o \in Entries \ {e} : delivery'[o] = delivery[o]
        /\ DOMAIN delivery' = Entries
        /\ \/ /\ delivery[e] = "draft" /\ delivery'[e] = "posted"
              /\ e \notin Strayed' => ~DraftInHand(e)
           \/ delivery[e] = "posted" /\ delivery'[e] = "void"
    <3>1. DOMAIN delivery = Entries
      BY DEF PurchasesInv, BooksTyped
    <3> QED BY <2>1, <3>1
  <2>4. ASSUME e \in Purchases PROVE Tidy(e)'
    <3>1. Tidy(e)
      BY <2>4 DEF PurchasesInv
    <3>2. ASSUME e \notin Strayed' PROVE Sound(e)'
      <4>1. Sound(e)
        BY <2>1, <3>1, <3>2 DEF Tidy
      <4>2. /\ Is(e, Costed)' = Is(e, Costed) /\ Is(e, {"NONE"})' = Is(e, {"NONE"})
            /\ \A v \in Workers : \A op : Doing(v, op, e)' = Doing(v, op, e)
        BY <2>1 DEF Is, Doing
      <4>3. Is(e, Costed) /\ reversals[e] # 1 /\ delivery'[e] \notin {"draft", "orphaned"}
        BY <2>3, <4>1 DEF Sound
      <4>4. \A v \in Workers : Recording(v, e)' = Recording(v, e)
        BY <4>2 DEF Recording
      <4>5. \A v \in Workers : ~Recording(v, e)
        <5>1. ~Is(e, {"NONE"})
          BY <4>3 DEF Is, Costed
        <5> QED BY <4>1, <5>1 DEF Sound
      <4>6. ASSUME NEW v \in Workers, Doing(v, "reverse locked", e)'
            PROVE  FALSE
        <5>1. /\ Doing(v, "reverse locked", e)
              /\ work[v].found = "draft" => Copy(v).linked = TRUE /\ delivery[e] # "posted"
              /\ work[v].found # "draft" => delivery[e] \notin {"draft", "posted"}
          BY <4>1, <4>2, <4>6 DEF Sound
        <5>2. work[v].found = "draft" /\ delivery[e] = "draft"
          BY <2>3, <5>1
        <5>3. DraftInHand(e)
          BY <5>1, <5>2 DEF DraftInHand
        <5> QED BY <2>3, <3>2, <5>2, <5>3
      <4>7. reversals'[e] # 1 /\ Is(e, Costed)'
        BY <2>1, <4>2, <4>3
      <4> QED BY <4>3, <4>4, <4>5, <4>6, <4>7 DEF Sound, Copy
    <3> QED BY <2>1, <2>2, <3>1, <3>2 DEF Tidy, NobodyNew
  <2> QED BY <2>1, <2>2, <2>3, <2>4, OthersTidy DEF PurchasesInv, BooksTyped
<1>2. CASE \E back \in 0 .. Amount[e] : CloseFloat(e, back)
  <2>1. PICK back \in 0 .. Amount[e] : CloseFloat(e, back)
    BY <1>2
  <2>2. /\ UNCHANGED <<inPlay, delivery, reversals, work, Strayed>> /\ e \notin Purchases
        /\ entry' = [entry EXCEPT ![e].closed = TRUE, ![e].returned = back]
    BY <2>1 DEF CloseFloat, books, history, Strayed, Purchases
  <2>3. \A o \in Entries \ {e} : entry'[o] = entry[o]
    BY <2>2 DEF RowsTyped, AreRows
  <2>4. \A o \in Entries : NobodyNew(o)
    BY <2>2 DEF NobodyNew, Doing
  <2> QED BY <2>2, <2>3, <2>4, OthersTidy DEF PurchasesInv, BooksTyped
<1>3. ASSUME NEW w \in Workers, EndReverseExpense(w, e) \/ Refuse(w, e) PROVE PurchasesInv'
  <2>1. /\ Refused(w) /\ UNCHANGED <<inPlay, entry, delivery, Strayed>>
        /\ \/ reversals' = reversals
           \/ reversals' = [reversals EXCEPT ![e] = @ + 1] /\ e \notin Purchases
    BY <1>3 DEF EndReverseExpense, Refuse, books, history, Strayed, Purchases
  <2>2. \A o \in Entries : NobodyNew(o)
    BY <2>1, EndingIsNothingNew
  <2>3. /\ \A o \in Entries \ {e} : reversals'[o] = reversals[o]
        /\ DOMAIN reversals' = Entries
        /\ e \in Purchases => reversals'[e] = reversals[e]
    BY <2>1 DEF PurchasesInv, BooksTyped
  <2>4. ASSUME e \in Purchases PROVE Tidy(e)'
    BY <2>1, <2>2, <2>3, <2>4, Elsewhere DEF PurchasesInv
  <2> QED BY <2>1, <2>2, <2>3, <2>4, OthersTidy DEF PurchasesInv, BooksTyped
<1> QED BY <1>1, <1>2, <1>3

\* Every step leaves the purchases tidy.
LEMMA PurchasesInvNext == IInv /\ PurchasesInv /\ [Next]_vars => PurchasesInv'
<1> SUFFICES ASSUME RowsTyped, PurchasesInv, [Next]_vars PROVE PurchasesInv'
  BY DEF IInv
<1>1. CASE UNCHANGED vars
  <2>1. /\ UNCHANGED <<inPlay, entry, delivery, reversals, work, Strayed>>
    BY <1>1 DEF vars, Strayed
  <2>2. \A o \in Entries : NobodyNew(o)
    BY <2>1 DEF NobodyNew, Doing
  <2>3. \A o \in Purchases : Tidy(o)'
    BY <2>1, <2>2, Elsewhere DEF PurchasesInv, RowsTyped, Purchases
  <2> QED BY <2>1, <2>3 DEF PurchasesInv, BooksTyped, Purchases
<1>2. ASSUME NEW w \in Workers, NEW e \in Entries,
             \/ BeginDecide(w, e) \/ BeginEdit(w, e) \/ BeginResubmit(w, e)
             \/ BeginPay(w, e) \/ BeginReverse(w, e)
      PROVE  PurchasesInv'
  <2>1. PICK op \in {"decide", "edit", "resubmit", "pay", "reverse"} :
           Load(w, op, e) /\ (op \in {"pay", "reverse"} => Is(e, Costed))
    BY <1>2 DEF BeginDecide, BeginEdit, BeginResubmit, BeginPay, BeginReverse, Is, Costed
  <2> QED BY <2>1, LoadTidy
<1>3. ASSUME NEW w \in Workers, NEW e \in Entries,
             \/ BeginRecord(w, e) \/ EndRecord(w, e)
             \/ Reject(w, e) \/ PassToFinance(w, e) \/ Approve(w, e)
             \/ EndEdit(w, e) \/ EndResubmit(w, e) \/ EndPay(w, e)
             \/ LockPurchase(w, e) \/ EndReversePurchase(w, e)
      PROVE  PurchasesInv'
  BY <1>3, BeginRecordTidy, DecisionTidy, EndEditTidy, EndPayTidy, LockPurchaseTidy,
     EndReversePurchaseTidy
<1> QED BY <1>1, <1>2, <1>3, RestTidy DEF Next

\* For any entries and workers a site purchase is reversed once, and the goods of a reversed
\* one neither wait nor stand in stock, unless a late PATCH has put its old row back or its
\* draft was posted under the reversal (reverse_purchase in commercials/services.py).
THEOREM ReversedWholeAndOnce == Spec => []ReversedPurchaseIsUndoneUnlessCrossed
<1>1. Init => PurchasesInv
  <2> SUFFICES ASSUME Init PROVE PurchasesInv
    OBVIOUS
  <2>1. BooksTyped
    BY DEF Init, BooksTyped
  <2>2. ASSUME NEW e \in Purchases PROVE Tidy(e)
    <3>1. e \in Entries
      BY FinanceAssumption DEF Init, Purchases
    <3>2. \A v \in Workers : \A op : ~Doing(v, op, e)
      BY DEF Init, Doing
    <3>3. delivery[e] = "none" /\ reversals[e] = 0
      BY <3>1 DEF Init
    <3>4. \A v \in Workers : ~Recording(v, e)
      BY <3>2 DEF Recording
    <3>5. Sound(e)
      BY <3>2, <3>3, <3>4 DEF Sound
    <3> QED BY <3>2, <3>3, <3>5 DEF Tidy
  <2> QED BY <2>1, <2>2 DEF PurchasesInv
<1>2. PurchasesInv => ReversedPurchaseIsUndoneUnlessCrossed
  <2> SUFFICES ASSUME PurchasesInv, NEW e \in inPlay, Kind[e] = "PURCHASE"
               PROVE  /\ reversals[e] <= 1
                      /\ reversals[e] = 1 =>
                            e \in Strayed \/ delivery[e] \notin {"draft", "posted", "orphaned"}
    BY DEF ReversedPurchaseIsUndoneUnlessCrossed, Strayed
  <2>1. Tidy(e)
    BY DEF PurchasesInv, Purchases
  <2>2. reversals[e] = 1 /\ e \notin Strayed =>
             delivery[e] \notin {"draft", "posted", "orphaned"}
    BY <2>1 DEF Tidy, Sound
  <2>3. reversals[e] \in {0, 1}
    BY <2>1 DEF Tidy
  <2> QED BY <2>2, <2>3
<1> QED BY IInvInit, IInvNext, PurchasesInvNext, <1>1, <1>2, PTL DEF Spec

-----------------------------------------------------------------------------
(* What the status tells of the approval requests.                         *)

Answers == {"PENDING", "APPROVED", "REJECTED", "SUPERSEDED"}
Rows == Seq([level : {1, 2}, status : Answers])

\* The first k requests have been answered.
Settled(rows, k) == \A i \in 1 .. k : rows[i].status # "PENDING"

\* Where the last round is, the earlier ones being over.
PmIsAsked(rows) ==
    /\ Len(rows) >= 2 /\ Settled(rows, Len(rows) - 2)
    /\ rows[Len(rows) - 1] = [level |-> 1, status |-> "PENDING"]
    /\ rows[Len(rows)] = [level |-> 2, status |-> "PENDING"]
FinanceIsAsked(rows) ==
    /\ Len(rows) >= 1 /\ Settled(rows, Len(rows) - 1)
    /\ rows[Len(rows)] = [level |-> 2, status |-> "PENDING"]
IsSigned(rows) ==
    /\ Len(rows) >= 1 /\ Settled(rows, Len(rows))
    /\ rows[Len(rows)] = [level |-> 2, status |-> "APPROVED"]
IsRefused(rows) ==
    /\ Len(rows) >= 1 /\ Settled(rows, Len(rows))
    /\ rows[Len(rows)].status \in {"REJECTED", "SUPERSEDED"}

\* The status tells it.
Tells(status, rows) ==
    /\ rows \in Rows
    /\ \/ status = "NONE" /\ rows = << >>
       \/ status = "PENDING_PM" /\ PmIsAsked(rows)
       \/ status = "PENDING_FINANCE" /\ FinanceIsAsked(rows)
       \/ status \in Costed /\ IsSigned(rows)
       \/ status = "REJECTED" /\ IsRefused(rows)

\* An entry is recorded by one worker, while it is not there.
RecordedOnce(e) ==
    /\ \A v, w \in Workers : Recording(v, e) /\ Recording(w, e) => v = w
    /\ \A w \in Workers : Recording(w, e) => Is(e, {"NONE"})

Told(e) == RecordedOnce(e) /\ Tells(entry[e].status, requests[e])

AnswersInv == DOMAIN requests = Entries /\ \A e \in inPlay \ overwritten : Told(e)

Open(rows) == {i \in DOMAIN rows : rows[i].status = "PENDING"}

\* The last of some numbers, and the one before.
LEMMA LastOnes ==
  ASSUME NEW n \in Nat
  PROVE  /\ \A i \in 1 .. n : i \in 1 .. n - 1 \/ i = n
         /\ \A i \in 1 .. n : i \in 1 .. n - 2 \/ i = n - 1 \/ i = n
OBVIOUS

\* The open requests are at the end.
LEMMA OpenAtEnd ==
  ASSUME NEW rows, NEW n \in Nat, DOMAIN rows = 1 .. n
  PROVE  /\ Settled(rows, n) => Open(rows) = {}
         /\ (n >= 1 /\ Settled(rows, n - 1) /\ rows[n].status = "PENDING") => Open(rows) = {n}
         /\ (n >= 2 /\ Settled(rows, n - 2)
             /\ rows[n - 1].status = "PENDING" /\ rows[n].status = "PENDING")
            => Open(rows) = {n - 1, n}
<1>1. ASSUME Settled(rows, n) PROVE Open(rows) = {}
  BY <1>1 DEF Open, Settled
<1>2. ASSUME n >= 1, Settled(rows, n - 1), rows[n].status = "PENDING" PROVE Open(rows) = {n}
  <2>1. n \in 1 .. n
    BY <1>2
  <2> QED BY <1>2, <2>1, LastOnes DEF Open, Settled
<1>3. ASSUME n >= 2, Settled(rows, n - 2), rows[n - 1].status = "PENDING", rows[n].status = "PENDING"
      PROVE  Open(rows) = {n - 1, n}
  <2>1. n \in 1 .. n /\ n - 1 \in 1 .. n
    BY <1>3
  <2> QED BY <1>3, <2>1, LastOnes DEF Open, Settled
<1> QED BY <1>1, <1>2, <1>3

\* Which requests are open.
LEMMA OpenByStatus ==
  ASSUME NEW status, NEW rows, Tells(status, rows)
  PROVE  /\ status = "PENDING_PM" => Open(rows) = {Len(rows) - 1, Len(rows)}
         /\ status = "PENDING_FINANCE" => Open(rows) = {Len(rows)}
         /\ status \notin Pending => Open(rows) = {}
<1>1. Len(rows) \in Nat /\ DOMAIN rows = 1 .. Len(rows)
  BY DEF Tells, Rows
<1>2. CASE status = "PENDING_PM"
  <2>1. PmIsAsked(rows)
    BY <1>2 DEF Tells, Costed
  <2>2. /\ Len(rows) >= 2 /\ Settled(rows, Len(rows) - 2)
        /\ rows[Len(rows) - 1].status = "PENDING" /\ rows[Len(rows)].status = "PENDING"
    BY <2>1 DEF PmIsAsked
  <2>3. Open(rows) = {Len(rows) - 1, Len(rows)}
    BY <1>1, <2>2, OpenAtEnd
  <2> QED BY <1>2, <2>3 DEF Pending
<1>3. CASE status = "PENDING_FINANCE"
  <2>1. FinanceIsAsked(rows)
    BY <1>3 DEF Tells, Costed
  <2>2. Len(rows) >= 1 /\ Settled(rows, Len(rows) - 1) /\ rows[Len(rows)].status = "PENDING"
    BY <2>1 DEF FinanceIsAsked
  <2>3. Open(rows) = {Len(rows)}
    BY <1>1, <2>2, OpenAtEnd
  <2> QED BY <1>3, <2>3 DEF Pending
<1>4. CASE status \notin Pending
  <2>1. rows = << >> \/ IsSigned(rows) \/ IsRefused(rows)
    BY <1>4 DEF Tells, Pending
  <2>2. Settled(rows, Len(rows))
    BY <2>1 DEF IsSigned, IsRefused, Settled
  <2>3. Open(rows) = {}
    BY <1>1, <2>2, OpenAtEnd
  <2> QED BY <1>4, <2>3 DEF Pending
<1> QED BY <1>2, <1>3, <1>4 DEF Pending

\* Two different requests are two.
LEMMA TwoOpen ==
  ASSUME NEW n \in Nat
  PROVE  Cardinality({n - 1, n}) = 2 /\ Cardinality({n}) = 1 /\ Cardinality({1, 2}) = 2
         /\ Cardinality({2}) = 1
<1>1. /\ Cardinality({n}) = 1 /\ IsFiniteSet({n}) /\ Cardinality({2}) = 1 /\ IsFiniteSet({2})
  BY FS_Singleton
<1>2. Cardinality({n} \cup {n - 1}) = 2 /\ Cardinality({2} \cup {1}) = 2
  <2>1. n - 1 \notin {n} /\ 1 \notin {2}
    OBVIOUS
  <2> QED BY <1>1, <2>1, FS_AddElement
<1>3. {n} \cup {n - 1} = {n - 1, n} /\ {2} \cup {1} = {1, 2}
  OBVIOUS
<1> QED BY <1>1, <1>2, <1>3

\* The property, of the entries whose status tells.
LEMMA TellsIsEnough ==
  ASSUME NEW e \in Entries, Tells(entry[e].status, requests[e])
  PROVE  /\ Cardinality(OpenLevels(e)) = Cardinality(OpenRequests(e))
         /\ Is(e, {"PENDING_PM"}) <=> 1 \in OpenLevels(e)
         /\ Is(e, {"PENDING_FINANCE"}) <=> OpenLevels(e) = {2}
         /\ Is(e, Costed) => Last(requests[e]) = [level |-> 2, status |-> "APPROVED"]
         /\ Is(e, {"REJECTED"}) => Last(requests[e]).status \in {"REJECTED", "SUPERSEDED"}
<1> DEFINE status == entry[e].status
           rows == requests[e]
<1>1. /\ status = "PENDING_PM" => OpenRequests(e) = {Len(rows) - 1, Len(rows)}
      /\ status = "PENDING_FINANCE" => OpenRequests(e) = {Len(rows)}
      /\ status \notin Pending => OpenRequests(e) = {}
  <2>1. OpenRequests(e) = Open(rows)
    BY DEF OpenRequests, Open
  <2> QED BY <2>1, OpenByStatus
<1>2. Len(rows) \in Nat
  BY DEF Tells, Rows
<1>3. OpenLevels(e) = {rows[i].level : i \in OpenRequests(e)}
  BY DEF OpenLevels
<1>4. Last(rows) = rows[Len(rows)]
  BY DEF Last
<1>5. CASE status = "PENDING_PM"
  <2>1. rows[Len(rows) - 1].level = 1 /\ rows[Len(rows)].level = 2
    <3>1. PmIsAsked(rows)
      BY <1>5 DEF Tells, Costed
    <3> QED BY <3>1 DEF PmIsAsked
  <2>2. OpenLevels(e) = {1, 2}
    BY <1>1, <1>3, <1>5, <2>1
  <2>3. Cardinality(OpenLevels(e)) = Cardinality(OpenRequests(e))
    BY <1>1, <1>2, <1>5, <2>2, TwoOpen
  <2>4. ~Is(e, Costed) /\ ~Is(e, {"REJECTED"}) /\ ~Is(e, {"PENDING_FINANCE"}) /\ Is(e, {"PENDING_PM"})
    BY <1>5 DEF Is, Costed
  <2>5. 1 \in OpenLevels(e) /\ OpenLevels(e) # {2}
    BY <2>2
  <2> QED BY <2>3, <2>4, <2>5
<1>6. CASE status = "PENDING_FINANCE"
  <2>1. rows[Len(rows)].level = 2
    <3>1. FinanceIsAsked(rows)
      BY <1>6 DEF Tells, Costed
    <3> QED BY <3>1 DEF FinanceIsAsked
  <2>2. OpenLevels(e) = {2}
    BY <1>1, <1>3, <1>6, <2>1
  <2>3. Cardinality(OpenLevels(e)) = Cardinality(OpenRequests(e))
    BY <1>1, <1>2, <1>6, <2>2, TwoOpen
  <2>4. ~Is(e, Costed) /\ ~Is(e, {"REJECTED"}) /\ Is(e, {"PENDING_FINANCE"}) /\ ~Is(e, {"PENDING_PM"})
    BY <1>6 DEF Is, Costed
  <2>5. 1 \notin OpenLevels(e)
    BY <2>2
  <2> QED BY <2>2, <2>3, <2>4, <2>5
<1>7. CASE status \notin Pending
  <2>1. OpenLevels(e) = {} /\ OpenRequests(e) = {}
    BY <1>1, <1>3, <1>7
  <2>2. /\ status \in Costed => rows[Len(rows)] = [level |-> 2, status |-> "APPROVED"]
        /\ status = "REJECTED" => rows[Len(rows)].status \in {"REJECTED", "SUPERSEDED"}
    <3>1. /\ status \in Costed => IsSigned(rows)
          /\ status = "REJECTED" => IsRefused(rows)
      BY DEF Tells, Costed
    <3> QED BY <3>1 DEF IsSigned, IsRefused
  <2> QED BY <1>4, <1>7, <2>1, <2>2 DEF Is, Pending
<1> QED BY <1>5, <1>6, <1>7 DEF Pending

\* A request is its two fields, in rows as elsewhere.
LEMMA RequestFields ==
  ASSUME NEW rows \in Rows
  PROVE  /\ Len(rows) \in Nat /\ DOMAIN rows = 1 .. Len(rows)
         /\ \A i \in 1 .. Len(rows) :
               /\ rows[i] \in [level : {1, 2}, status : Answers]
               /\ rows[i] = [level |-> rows[i].level, status |-> rows[i].status]
<1>1. Len(rows) \in Nat /\ DOMAIN rows = 1 .. Len(rows)
  BY LenProperties DEF Rows
<1>2. ASSUME NEW i \in 1 .. Len(rows) PROVE rows[i] \in [level : {1, 2}, status : Answers]
  BY <1>2, ElementOfSeq DEF Rows
<1>3. ASSUME NEW r \in [level : {1, 2}, status : Answers]
      PROVE  r = [level |-> r.level, status |-> r.status]
  OBVIOUS
<1> QED BY <1>1, <1>2, <1>3

\* A function on the first n numbers is a sequence.
LEMMA FunctionIsSeq ==
  ASSUME NEW S, NEW n \in Nat, NEW f \in [1 .. n -> S]
  PROVE  f \in Seq(S) /\ Len(f) = n
<1>1. f \in Seq(S)
  OBVIOUS
<1>2. Len(f) \in Nat /\ 1 .. Len(f) = 1 .. n
  BY <1>1, LenProperties
<1>3. \A a, b \in Nat : 1 .. a = 1 .. b => a <= b
  <2> SUFFICES ASSUME NEW a \in Nat, NEW b \in Nat, 1 .. a = 1 .. b, b < a PROVE FALSE
    OBVIOUS
  <2>1. a \in 1 .. a /\ a \notin 1 .. b
    OBVIOUS
  <2> QED BY <2>1
<1> QED BY <1>1, <1>2, <1>3

\* The requests of an entry when the k-th is answered.
AnsweredRows(rows, k, answer) ==
    [i \in DOMAIN rows |->
        IF i = k THEN [rows[i] EXCEPT !.status = answer]
        ELSE IF answer = "REJECTED" /\ rows[i].status = "PENDING"
        THEN [rows[i] EXCEPT !.status = "SUPERSEDED"] ELSE rows[i]]

\* An answer changes the statuses of requests.
LEMMA AnsweredTyped ==
  ASSUME NEW rows \in Rows, NEW k, NEW answer \in Answers
  PROVE  LET new == AnsweredRows(rows, k, answer) IN
         /\ new \in Rows /\ Len(new) = Len(rows)
         /\ \A i \in 1 .. Len(rows) :
               /\ new[i].level = rows[i].level
               /\ new[i].status = IF i = k THEN answer
                                  ELSE IF answer = "REJECTED" /\ rows[i].status = "PENDING"
                                  THEN "SUPERSEDED" ELSE rows[i].status
<1> DEFINE new == AnsweredRows(rows, k, answer)
           n == Len(rows)
<1>1. n \in Nat /\ DOMAIN rows = 1 .. n /\ \A i \in 1 .. n : rows[i] \in [level : {1, 2}, status : Answers]
  BY RequestFields
<1>2. DOMAIN new = 1 .. n
  BY <1>1 DEF AnsweredRows
<1>3. ASSUME NEW i \in 1 .. n
      PROVE  /\ new[i] \in [level : {1, 2}, status : Answers]
             /\ new[i].level = rows[i].level
             /\ new[i].status = IF i = k THEN answer
                                ELSE IF answer = "REJECTED" /\ rows[i].status = "PENDING"
                                THEN "SUPERSEDED" ELSE rows[i].status
  <2>1. new[i] = IF i = k THEN [rows[i] EXCEPT !.status = answer]
                 ELSE IF answer = "REJECTED" /\ rows[i].status = "PENDING"
                 THEN [rows[i] EXCEPT !.status = "SUPERSEDED"] ELSE rows[i]
    BY <1>1 DEF AnsweredRows
  <2>2. rows[i] \in [level : {1, 2}, status : Answers] /\ "SUPERSEDED" \in Answers
    BY <1>1 DEF Answers
  <2> HIDE DEF new
  <2> QED BY <2>1, <2>2
<1>4. new = [i \in 1 .. n |-> new[i]]
  BY <1>1 DEF AnsweredRows
<1> HIDE DEF new, n
<1>5. new \in [1 .. n -> [level : {1, 2}, status : Answers]]
  BY <1>3, <1>4
<1>6. new \in Seq([level : {1, 2}, status : Answers]) /\ Len(new) = n
  BY <1>1, <1>5, FunctionIsSeq
<1> QED BY <1>3, <1>6 DEF new, n, Rows

\* The first open request is answered: a refusal ends the round, an approval passes it on
\* to Finance, and the last one signs.
LEMMA AnswerTells ==
  ASSUME NEW status, NEW rows, Tells(status, rows), NEW k \in Open(rows),
         \A j \in Open(rows) : rows[k].level <= rows[j].level
  PROVE  /\ Tells("REJECTED", AnsweredRows(rows, k, "REJECTED"))
         /\ Cardinality(Open(rows)) > 1 => Tells("PENDING_FINANCE", AnsweredRows(rows, k, "APPROVED"))
         /\ Cardinality(Open(rows)) = 1 => Tells("APPROVED", AnsweredRows(rows, k, "APPROVED"))
<1> DEFINE no == AnsweredRows(rows, k, "REJECTED")
           yes == AnsweredRows(rows, k, "APPROVED")
           n == Len(rows)
<1>1. rows \in Rows /\ n \in Nat
  BY DEF Tells, Rows
<1>2. /\ no \in Rows /\ Len(no) = n
      /\ \A i \in 1 .. n : no[i].status = IF i = k THEN "REJECTED"
                                          ELSE IF rows[i].status = "PENDING" THEN "SUPERSEDED"
                                          ELSE rows[i].status
  BY <1>1, AnsweredTyped DEF Answers
<1>3. /\ yes \in Rows /\ Len(yes) = n
      /\ \A i \in 1 .. n : /\ yes[i].level = rows[i].level
                           /\ yes[i].status = IF i = k THEN "APPROVED" ELSE rows[i].status
  BY <1>1, AnsweredTyped DEF Answers
<1>4. \A r \in Rows : \A i \in 1 .. Len(r) : r[i] = [level |-> r[i].level, status |-> r[i].status]
  BY RequestFields
<1> HIDE DEF no, yes, n
<1>5. CASE status = "PENDING_PM"
  <2>1. PmIsAsked(rows)
    BY <1>5 DEF Tells, Costed
  <2>2. /\ n >= 2 /\ Settled(rows, n - 2)
        /\ rows[n - 1].status = "PENDING" /\ rows[n].status = "PENDING"
        /\ rows[n - 1].level = 1 /\ rows[n].level = 2
    BY <2>1 DEF PmIsAsked, n
  <2>3. Open(rows) = {n - 1, n} /\ Cardinality(Open(rows)) = 2
    BY <1>1, <1>5, OpenByStatus, TwoOpen DEF n
  <2>4. k = n - 1
    BY <2>2, <2>3
  <2>5. n \in 1 .. n /\ n - 1 \in 1 .. n
    BY <1>1, <2>2
  <2>6. no[n].status = "SUPERSEDED" /\ Settled(no, n)
    <3>1. n # k /\ no[n].status = "SUPERSEDED"
      BY <1>1, <1>2, <2>2, <2>4, <2>5
    <3>2. \A i \in 1 .. n : no[i].status # "PENDING"
      BY <1>2
    <3> QED BY <3>1, <3>2 DEF Settled
  <2>7. IsRefused(no)
    BY <1>2, <2>2, <2>6 DEF IsRefused
  <2>8. yes[n] = [level |-> 2, status |-> "PENDING"]
    <3>1. yes[n].level = 2 /\ yes[n].status = "PENDING"
      BY <1>1, <1>3, <2>2, <2>4, <2>5
    <3>2. yes[n] = [level |-> yes[n].level, status |-> yes[n].status]
      BY <1>3, <1>4, <2>5
    <3> QED BY <3>1, <3>2
  <2>9. Settled(yes, n - 1)
    <3>1. \A i \in 1 .. n - 1 : i \in 1 .. n /\ (i \in 1 .. n - 2 \/ i = k)
      BY <1>1, <2>4
    <3> QED BY <1>3, <2>2, <3>1 DEF Settled
  <2>10. FinanceIsAsked(yes)
    BY <1>3, <2>2, <2>8, <2>9 DEF FinanceIsAsked
  <2> QED BY <1>2, <1>3, <2>3, <2>7, <2>10 DEF Tells, no, yes
<1>6. CASE status = "PENDING_FINANCE"
  <2>1. FinanceIsAsked(rows)
    BY <1>6 DEF Tells, Costed
  <2>2. n >= 1 /\ Settled(rows, n - 1) /\ rows[n].level = 2
    BY <2>1 DEF FinanceIsAsked, n
  <2>3. Open(rows) = {n} /\ Cardinality(Open(rows)) = 1
    BY <1>1, <1>6, OpenByStatus, TwoOpen DEF n
  <2>4. k = n /\ n \in 1 .. n
    BY <1>1, <2>2, <2>3
  <2>5. no[n].status = "REJECTED" /\ Settled(no, n)
    <3>1. \A i \in 1 .. n : no[i].status # "PENDING"
      BY <1>2
    <3> QED BY <1>2, <2>4, <3>1 DEF Settled
  <2>6. IsRefused(no)
    BY <1>2, <2>2, <2>5 DEF IsRefused
  <2>7. yes[n] = [level |-> 2, status |-> "APPROVED"]
    <3>1. yes[n].level = 2 /\ yes[n].status = "APPROVED"
      BY <1>3, <2>2, <2>4
    <3>2. yes[n] = [level |-> yes[n].level, status |-> yes[n].status]
      BY <1>3, <1>4, <2>4
    <3> QED BY <3>1, <3>2
  <2>8. Settled(yes, n)
    <3>1. \A i \in 1 .. n : i \in 1 .. n - 1 \/ i = n
      BY <1>1, LastOnes
    <3> QED BY <1>3, <2>2, <2>4, <3>1 DEF Settled
  <2>9. IsSigned(yes)
    BY <1>3, <2>2, <2>7, <2>8 DEF IsSigned
  <2> QED BY <1>2, <1>3, <2>3, <2>6, <2>9 DEF Tells, Costed, no, yes
<1>7. CASE status \notin Pending
  BY <1>7, OpenByStatus
<1> QED BY <1>5, <1>6, <1>7 DEF Pending

\* The requests of a new round of e.
Round(e) == [k \in DOMAIN Levels(e) |-> [level |-> Levels(e)[k], status |-> "PENDING"]]

\* A round that begins when nothing is open is told by the first status.
LEMMA RoundTells ==
  ASSUME NEW e, NEW status \in {"NONE", "REJECTED"}, NEW rows, Tells(status, rows)
  PROVE  Tells(FirstStatus(e), rows \o Round(e))
<1> DEFINE n == Len(rows)
           pm == [level |-> 1, status |-> "PENDING"]
           fin == [level |-> 2, status |-> "PENDING"]
           all == rows \o Round(e)
<1>1. rows \in Rows /\ n \in Nat
  BY RequestFields DEF Tells
<1>2. Settled(rows, n)
  <2>1. rows = << >> \/ IsRefused(rows)
    BY DEF Tells, Costed
  <2> QED BY <2>1 DEF IsRefused, Settled
<1>3. pm \in [level : {1, 2}, status : Answers] /\ fin \in [level : {1, 2}, status : Answers]
  BY DEF Answers
<1>4. CASE Recorder[e] \in Managers
  <2>1. Levels(e) = <<2>> /\ FirstStatus(e) = "PENDING_FINANCE"
    BY <1>4 DEF Levels, FirstStatus
  <2>2. Round(e) = <<fin>>
    BY <2>1 DEF Round
  <2> HIDE DEF fin, n
  <2>3. <<fin>> \in Rows /\ Len(<<fin>>) = 1 /\ <<fin>>[1] = fin
    BY <1>3 DEF Rows
  <2>4. /\ all \in Rows /\ Len(all) = n + 1
        /\ \A i \in 1 .. n + 1 : all[i] = IF i <= n THEN rows[i] ELSE <<fin>>[i - n]
    BY <1>1, <2>2, <2>3, ConcatProperties DEF Rows, n
  <2> HIDE DEF all
  <2>5. all[n + 1] = fin
    BY <1>1, <2>3, <2>4
  <2>6. Settled(all, n)
    <3>1. \A i \in 1 .. n : all[i] = rows[i]
      BY <1>1, <2>4
    <3> QED BY <1>2, <3>1 DEF Settled
  <2>7. FinanceIsAsked(all)
    BY <1>1, <2>4, <2>5, <2>6 DEF FinanceIsAsked, fin
  <2> QED BY <2>1, <2>4, <2>7 DEF Tells, all
<1>5. CASE Recorder[e] \notin Managers
  <2>1. Levels(e) = <<1, 2>> /\ FirstStatus(e) = "PENDING_PM"
    BY <1>5 DEF Levels, FirstStatus
  <2>2. Round(e) = <<pm, fin>>
    BY <2>1 DEF Round
  <2> HIDE DEF fin, pm, n
  <2>3. <<pm, fin>> \in Rows /\ Len(<<pm, fin>>) = 2 /\ <<pm, fin>>[1] = pm /\ <<pm, fin>>[2] = fin
    BY <1>3 DEF Rows
  <2>4. /\ all \in Rows /\ Len(all) = n + 2
        /\ \A i \in 1 .. n + 2 : all[i] = IF i <= n THEN rows[i] ELSE <<pm, fin>>[i - n]
    BY <1>1, <2>2, <2>3, ConcatProperties DEF Rows, n
  <2> HIDE DEF all
  <2>5. all[n + 1] = pm /\ all[n + 2] = fin
    BY <1>1, <2>3, <2>4
  <2>6. Settled(all, n)
    <3>1. \A i \in 1 .. n : all[i] = rows[i]
      BY <1>1, <2>4
    <3> QED BY <1>2, <3>1 DEF Settled
  <2>7. /\ Len(all) >= 2 /\ Len(all) - 2 = n /\ Len(all) - 1 = n + 1
    BY <1>1, <2>4
  <2>8. PmIsAsked(all)
    BY <2>4, <2>5, <2>6, <2>7 DEF PmIsAsked, pm, fin
  <2> QED BY <2>1, <2>4, <2>8 DEF Tells, all
<1> QED BY <1>4, <1>5

\* A step about e leaves the other entries told.
LEMMA OthersTold ==
  ASSUME RowsTyped, AnswersInv, NEW e \in Entries, inPlay' = inPlay,
         DOMAIN requests' = Entries, overwritten \subseteq overwritten',
         \A o \in Entries \ {e} :
            /\ entry'[o].status = entry[o].status /\ requests'[o] = requests[o]
            /\ \A v \in Workers : Recording(v, o)' => Recording(v, o),
         e \in inPlay \ overwritten' => Told(e)'
  PROVE  AnswersInv'
<1>1. ASSUME NEW o \in inPlay \ overwritten', o # e PROVE Told(o)'
  <2>1. Told(o) /\ o \in Entries \ {e}
    BY <1>1 DEF AnswersInv, RowsTyped
  <2>2. RecordedOnce(o)'
    <3>1. Is(o, {"NONE"})' = Is(o, {"NONE"})
      BY <2>1 DEF Is
    <3> QED BY <2>1, <3>1 DEF Told, RecordedOnce
  <2>3. Tells(entry'[o].status, requests'[o])
    BY <2>1 DEF Told
  <2> QED BY <2>2, <2>3 DEF Told
<1> QED BY <1>1 DEF AnswersInv

\* What changes neither a status nor a request, and records nothing more, leaves all told.
LEMMA QuietTold ==
  ASSUME RowsTyped, AnswersInv, inPlay' = inPlay, requests' = requests,
         overwritten \subseteq overwritten',
         \A o \in Entries :
            /\ entry'[o].status = entry[o].status \/ o \in overwritten'
            /\ \A v \in Workers : Recording(v, o)' => Recording(v, o)
  PROVE  AnswersInv'
<1>1. ASSUME NEW o \in inPlay \ overwritten' PROVE Told(o)'
  <2>1. Told(o) /\ o \in Entries
    BY <1>1 DEF AnswersInv, RowsTyped
  <2>2. RecordedOnce(o)'
    <3>1. Is(o, {"NONE"})' = Is(o, {"NONE"})
      BY <1>1, <2>1 DEF Is
    <3> QED BY <2>1, <3>1 DEF Told, RecordedOnce
  <2>3. Tells(entry'[o].status, requests'[o])
    BY <1>1, <2>1 DEF Told
  <2> QED BY <2>2, <2>3 DEF Told
<1> QED BY <1>1 DEF AnswersInv

\* A request that ends records nothing more.
LEMMA EndingStopsRecording ==
  ASSUME RowsTyped, NEW w \in Workers, Refused(w)
  PROVE  \A v \in Workers, o \in Entries :
            /\ Recording(v, o)' => Recording(v, o)
            /\ ~Recording(w, o)'
BY EndingIsNothingNew DEF NobodyNew, Recording

\* The answers, and sending again.
LEMMA DecisionTold ==
  ASSUME RowsTyped, AnswersInv, NEW w \in Workers, NEW e \in Entries,
         Reject(w, e) \/ PassToFinance(w, e) \/ Approve(w, e) \/ EndResubmit(w, e)
  PROVE  AnswersInv'
<1>1. /\ Refused(w) /\ UNCHANGED <<inPlay, overwritten>> /\ Doing(w, work[w].op, e)
  BY DEF Reject, PassToFinance, Approve, EndResubmit, May, history, Doing
<1>2. PICK status, r, s :
         /\ entry' = [entry EXCEPT ![e] = r] /\ requests' = [requests EXCEPT ![e] = s]
         /\ r.status = status
         /\ entry[e].status \in {"PENDING_PM", "PENDING_FINANCE", "REJECTED"}
         /\ Tells(entry[e].status, requests[e]) => Tells(status, s)
  <2>1. IsRow(Copy(w)) /\ entry[e].status = Copy(w).status
    BY DEF Reject, PassToFinance, Approve, EndResubmit, May, StillAsLoaded, Doing, RowsTyped, Copy
  <2>2. ASSUME OpenRequests(e) # {}, Tells(entry[e].status, requests[e])
        PROVE  /\ Tells("REJECTED", AnsweredRows(requests[e], NextRequest(e), "REJECTED"))
               /\ Cardinality(OpenRequests(e)) > 1 =>
                     Tells("PENDING_FINANCE", AnsweredRows(requests[e], NextRequest(e), "APPROVED"))
               /\ Cardinality(OpenRequests(e)) = 1 =>
                     Tells("APPROVED", AnsweredRows(requests[e], NextRequest(e), "APPROVED"))
    <3>1. OpenRequests(e) = Open(requests[e])
      BY DEF OpenRequests, Open
    <3>2. NextRequest(e) \in Open(requests[e])
          /\ \A j \in Open(requests[e]) : requests[e][NextRequest(e)].level <= requests[e][j].level
      <4>1. \E i \in OpenRequests(e) : \A k \in OpenRequests(e) : requests[e][i].level <= requests[e][k].level
        <5>1. \A i \in OpenRequests(e) : requests[e][i].level \in {1, 2}
          BY <2>2, RequestFields DEF Tells, OpenRequests
        <5>2. CASE \E i \in OpenRequests(e) : requests[e][i].level = 1
          BY <5>1, <5>2
        <5>3. CASE \A i \in OpenRequests(e) : requests[e][i].level = 2
          BY <2>2, <5>3
        <5> QED BY <5>1, <5>2, <5>3
      <4> QED BY <3>1, <4>1 DEF NextRequest
    <3> HIDE DEF NextRequest
    <3> QED BY <2>2, <3>1, <3>2, AnswerTells
  <2>3. \A answer : Answered(e, answer) =
           [requests EXCEPT ![e] = AnsweredRows(requests[e], NextRequest(e), answer)]
    BY DEF Answered, AnsweredRows
  <2>4. \A status : [Copy(w) EXCEPT !.status = status].status = status
    BY <2>1 DEF IsRow
  <2>5. CASE Reject(w, e)
    <3>1. /\ entry' = [entry EXCEPT ![e] = [Copy(w) EXCEPT !.status = "REJECTED"]]
          /\ requests' = [requests EXCEPT ![e] = AnsweredRows(requests[e], NextRequest(e), "REJECTED")]
          /\ entry[e].status \in Pending /\ OpenRequests(e) # {}
      BY <2>3, <2>5 DEF Reject, May, StillAsLoaded
    <3> QED BY <2>2, <2>4, <3>1 DEF Pending
  <2>6. CASE PassToFinance(w, e)
    <3>1. /\ entry' = [entry EXCEPT ![e] = [Copy(w) EXCEPT !.status = "PENDING_FINANCE"]]
          /\ requests' = [requests EXCEPT ![e] = AnsweredRows(requests[e], NextRequest(e), "APPROVED")]
          /\ entry[e].status \in Pending /\ Cardinality(OpenRequests(e)) > 1
      BY <2>3, <2>6 DEF PassToFinance, May, StillAsLoaded
    <3>2. OpenRequests(e) # {}
      BY <3>1, FS_EmptySet
    <3> QED BY <2>2, <2>4, <3>1, <3>2 DEF Pending
  <2>7. CASE Approve(w, e)
    <3>1. /\ entry' = [entry EXCEPT ![e] = [Copy(w) EXCEPT !.status = "APPROVED",
                                                           !.linked = e \in IntoYard]]
          /\ requests' = [requests EXCEPT ![e] = AnsweredRows(requests[e], NextRequest(e), "APPROVED")]
          /\ entry[e].status \in Pending /\ Cardinality(OpenRequests(e)) = 1
      BY <2>3, <2>7 DEF Approve, May, StillAsLoaded
    <3>2. OpenRequests(e) # {}
      BY <3>1, FS_EmptySet
    <3>3. [Copy(w) EXCEPT !.status = "APPROVED", !.linked = e \in IntoYard].status = "APPROVED"
      BY <2>1 DEF IsRow
    <3> QED BY <2>2, <3>1, <3>2, <3>3 DEF Pending
  <2>8. CASE EndResubmit(w, e)
    <3>1. /\ entry' = [entry EXCEPT ![e] = [Copy(w) EXCEPT !.status = FirstStatus(e)]]
          /\ requests' = [requests EXCEPT ![e] = requests[e] \o Round(e)]
          /\ entry[e].status = "REJECTED"
      BY <2>8 DEF EndResubmit, May, StillAsLoaded, Routed, Round
    <3>2. Tells("REJECTED", requests[e]) => Tells(FirstStatus(e), requests[e] \o Round(e))
      BY RoundTells
    <3> QED BY <2>4, <3>1, <3>2
  <2> QED BY <2>5, <2>6, <2>7, <2>8
<1>3. \A v \in Workers, o \in Entries : Recording(v, o)' => Recording(v, o)
  BY <1>1, EndingStopsRecording
<1>4. /\ DOMAIN entry = Entries /\ DOMAIN requests = Entries
  BY DEF RowsTyped, AreRows, AnswersInv
<1>5. /\ entry'[e].status = status /\ requests'[e] = s /\ DOMAIN requests' = Entries
      /\ \A o \in Entries \ {e} : entry'[o] = entry[o] /\ requests'[o] = requests[o]
  BY <1>2, <1>4
<1>6. ASSUME e \in inPlay \ overwritten' PROVE Told(e)'
  <2>1. Told(e)
    BY <1>1, <1>6 DEF AnswersInv
  <2>2. Tells(entry'[e].status, requests'[e])
    BY <1>2, <1>5, <2>1 DEF Told
  <2>3. \A v \in Workers : ~Recording(v, e)'
    <3>1. ~Is(e, {"NONE"})
      BY <1>2 DEF Is
    <3> QED BY <1>3, <2>1, <3>1 DEF Told, RecordedOnce
  <2>4. RecordedOnce(e)'
    BY <2>3 DEF RecordedOnce
  <2> QED BY <2>2, <2>4 DEF Told
<1> QED BY <1>1, <1>3, <1>5, <1>6, OthersTold

\* An entry is recorded, and its first round begins.
LEMMA RecordTold ==
  ASSUME RowsTyped, AnswersInv, NEW w \in Workers, NEW e \in Entries,
         BeginRecord(w, e) \/ EndRecord(w, e)
  PROVE  AnswersInv'
<1>1. CASE BeginRecord(w, e)
  <2> DEFINE job == [op |-> "record", entry |-> e, copy |-> entry[e],
                     over |-> WouldExceed(e), position |-> Position]
  <2>1. /\ Start(w, job) /\ Is(e, {"NONE"}) /\ \A v \in Workers : ~Recording(v, e)
        /\ UNCHANGED <<inPlay, entry, requests, overwritten>>
    BY <1>1 DEF BeginRecord, books, history, Recording
  <2>2. job.op = "record" /\ job.entry = e
    OBVIOUS
  <2> HIDE DEF job
  <2>3. work'[w] = job /\ \A v \in Workers \ {w} : work'[v] = work[v]
    BY <2>1, StartsRequest
  <2>4. /\ \A v \in Workers : Recording(v, e)' => v = w
        /\ \A v \in Workers, o \in Entries \ {e} : Recording(v, o)' => Recording(v, o)
    BY <2>1, <2>2, <2>3 DEF Recording, Doing
  <2>5. ASSUME e \in inPlay \ overwritten' PROVE Told(e)'
    <3>1. Told(e)
      BY <2>1, <2>5 DEF AnswersInv
    <3>2. Is(e, {"NONE"})'
      BY <2>1 DEF Is
    <3>3. RecordedOnce(e)'
      BY <2>4, <3>2 DEF RecordedOnce
    <3>4. Tells(entry'[e].status, requests'[e])
      BY <2>1, <3>1 DEF Told
    <3> QED BY <3>3, <3>4 DEF Told
  <2>6. DOMAIN requests' = Entries
    BY <2>1 DEF AnswersInv
  <2> QED BY <2>1, <2>4, <2>5, <2>6, OthersTold
<1>2. CASE EndRecord(w, e)
  <2>1. /\ Refused(w) /\ UNCHANGED <<inPlay, overwritten>> /\ Recording(w, e)
        /\ entry' = [entry EXCEPT ![e].status = FirstStatus(e), ![e].over = work[w].over]
        /\ requests' = [requests EXCEPT ![e] = requests[e] \o Round(e)]
    BY <1>2 DEF EndRecord, Recording, Routed, Round
  <2>2. \A v \in Workers, o \in Entries : (Recording(v, o)' => Recording(v, o)) /\ ~Recording(w, o)'
    BY <2>1, EndingStopsRecording
  <2>3. DOMAIN entry = Entries /\ DOMAIN requests = Entries /\ IsRow(entry[e])
    BY DEF RowsTyped, AreRows, AnswersInv
  <2>4. /\ requests'[e] = requests[e] \o Round(e) /\ DOMAIN requests' = Entries
        /\ \A o \in Entries \ {e} : requests'[o] = requests[o]
    BY <2>1, <2>3
  <2>5. /\ entry'[e].status = FirstStatus(e)
        /\ \A o \in Entries \ {e} : entry'[o] = entry[o]
    BY <2>1, <2>3 DEF IsRow
  <2>6. ASSUME e \in inPlay \ overwritten' PROVE Told(e)'
    <3>1. Told(e)
      BY <2>1, <2>6 DEF AnswersInv
    <3>2. entry[e].status = "NONE"
      BY <2>1, <3>1 DEF Told, RecordedOnce, Is
    <3>3. Tells(entry'[e].status, requests'[e])
      BY <2>4, <2>5, <3>1, <3>2, RoundTells DEF Told
    <3>4. \A v \in Workers : ~Recording(v, e)'
      BY <2>1, <2>2, <3>1 DEF Told, RecordedOnce
    <3>5. RecordedOnce(e)'
      BY <3>4 DEF RecordedOnce
    <3> QED BY <3>3, <3>5 DEF Told
  <2> QED BY <2>1, <2>2, <2>4, <2>5, <2>6, OthersTold
<1> QED BY <1>1, <1>2

\* An approved entry is paid.
LEMMA EndPayTold ==
  ASSUME RowsTyped, AnswersInv, NEW w \in Workers, NEW e \in Entries, EndPay(w, e)
  PROVE  AnswersInv'
<1>1. /\ Refused(w) /\ UNCHANGED <<inPlay, requests, overwritten>>
      /\ entry' = [entry EXCEPT ![e] = [Copy(w) EXCEPT !.status = "PAID"]]
      /\ Doing(w, "pay", e) /\ entry[e].status = "APPROVED"
  BY DEF EndPay, May, StillAsLoaded, books, history
<1>2. DOMAIN entry = Entries /\ IsRow(Copy(w))
  BY <1>1 DEF RowsTyped, AreRows, Doing, Copy
<1>3. /\ entry'[e].status = "PAID"
      /\ \A o \in Entries \ {e} : entry'[o] = entry[o]
  BY <1>1, <1>2 DEF IsRow
<1>4. \A v \in Workers, o \in Entries : Recording(v, o)' => Recording(v, o)
  BY <1>1, EndingStopsRecording
<1>5. ASSUME e \in inPlay \ overwritten' PROVE Told(e)'
  <2>1. Told(e)
    BY <1>1, <1>5 DEF AnswersInv
  <2>2. Tells("APPROVED", requests[e]) => Tells("PAID", requests[e])
    BY DEF Tells, Costed
  <2>3. Tells(entry'[e].status, requests'[e])
    BY <1>1, <1>3, <2>1, <2>2 DEF Told
  <2>4. \A v \in Workers : ~Recording(v, e)'
    <3>1. ~Is(e, {"NONE"})
      BY <1>1 DEF Is
    <3> QED BY <1>4, <2>1, <3>1 DEF Told, RecordedOnce
  <2>5. RecordedOnce(e)'
    BY <2>4 DEF RecordedOnce
  <2> QED BY <2>3, <2>5 DEF Told
<1>6. DOMAIN requests' = Entries
  BY <1>1 DEF AnswersInv
<1> QED BY <1>1, <1>3, <1>4, <1>5, <1>6, OthersTold

\* What writes no status, but for a late PATCH.
LEMMA EditTold ==
  ASSUME RowsTyped, AnswersInv, NEW w \in Workers, NEW e \in Entries,
         EndEdit(w, e) \/ EndReverseExpense(w, e) \/ EndReversePurchase(w, e) \/ Refuse(w, e)
  PROVE  AnswersInv'
<1>1. /\ Refused(w) /\ UNCHANGED <<inPlay, requests>> /\ overwritten \subseteq overwritten'
  BY DEF EndEdit, EndReverseExpense, EndReversePurchase, Refuse, books, history
<1>2. \A v \in Workers, o \in Entries : Recording(v, o)' => Recording(v, o)
  BY <1>1, EndingStopsRecording
<1>3. DOMAIN entry = Entries /\ IsRow(entry[e])
  BY DEF RowsTyped, AreRows
<1>4. \A o \in Entries : entry'[o].status = entry[o].status \/ o \in overwritten'
  <2>1. CASE EndEdit(w, e)
    BY <1>3, <2>1 DEF EndEdit
  <2>2. CASE EndReversePurchase(w, e)
    <3>1. entry' = [entry EXCEPT ![e].linked = FALSE] \/ entry' = entry
      BY <2>2 DEF EndReversePurchase
    <3>2. CASE entry' = [entry EXCEPT ![e].linked = FALSE]
      BY <1>3, <3>2 DEF IsRow
    <3> QED BY <3>1, <3>2
  <2>3. CASE EndReverseExpense(w, e) \/ Refuse(w, e)
    BY <2>3 DEF EndReverseExpense, Refuse
  <2> QED BY <2>1, <2>2, <2>3
<1> QED BY <1>1, <1>2, <1>4, QuietTold

\* A request other than a recording begins, or goes on under the lock.
LEMMA LoadTold ==
  ASSUME RowsTyped, AnswersInv, NEW w \in Workers, NEW e \in Entries,
         LockPurchase(w, e) \/ \E op : op # "record" /\ Load(w, op, e)
  PROVE  AnswersInv'
<1>1. UNCHANGED <<inPlay, entry, requests, overwritten>>
  BY DEF LockPurchase, Load, history
<1>2. \A v \in Workers, o \in Entries : Recording(v, o)' => Recording(v, o)
  <2>1. \E job : Start(w, job) /\ job.op # "record"
    <3>1. CASE LockPurchase(w, e)
      <4> DEFINE job == [op |-> "reverse locked", entry |-> e, copy |-> entry[e], found |-> delivery[e]]
      <4>1. Start(w, job) /\ job.op = "reverse locked"
        BY <3>1 DEF LockPurchase
      <4> QED BY <4>1
    <3>2. CASE \E op : op # "record" /\ Load(w, op, e)
      <4>1. PICK op : op # "record" /\ Load(w, op, e)
        BY <3>2
      <4> DEFINE job == [op |-> op, entry |-> e, copy |-> entry[e]]
      <4>2. Start(w, job) /\ job.op = op
        BY <4>1 DEF Load
      <4> QED BY <4>1, <4>2
    <3> QED BY <3>1, <3>2
  <2>2. work'[w].op # "record" /\ \A v \in Workers \ {w} : work'[v] = work[v]
    BY <2>1 DEF Start, RowsTyped
  <2> QED BY <2>2 DEF Recording, Doing
<1> QED BY <1>1, <1>2, QuietTold

\* Every step leaves the statuses telling.
LEMMA AnswersInvNext == IInv /\ AnswersInv /\ [Next]_vars => AnswersInv'
<1> SUFFICES ASSUME RowsTyped, AnswersInv, [Next]_vars PROVE AnswersInv'
  BY DEF IInv
<1>1. CASE UNCHANGED vars
  <2>1. UNCHANGED <<inPlay, entry, requests, work, overwritten>>
    BY <1>1 DEF vars
  <2>2. \A v \in Workers, o \in Entries : Recording(v, o)' => Recording(v, o)
    BY <2>1 DEF Recording, Doing
  <2> QED BY <2>1, <2>2, QuietTold
<1>2. ASSUME NEW w \in Workers, NEW e \in Entries,
             \/ BeginDecide(w, e) \/ BeginEdit(w, e) \/ BeginResubmit(w, e)
             \/ BeginPay(w, e) \/ BeginReverse(w, e)
      PROVE  AnswersInv'
  <2>1. \E op : op # "record" /\ Load(w, op, e)
    BY <1>2 DEF BeginDecide, BeginEdit, BeginResubmit, BeginPay, BeginReverse
  <2> QED BY <2>1, LoadTold
<1>3. ASSUME NEW w \in Workers, NEW e \in Entries,
             \/ BeginRecord(w, e) \/ EndRecord(w, e)
             \/ Reject(w, e) \/ PassToFinance(w, e) \/ Approve(w, e)
             \/ EndEdit(w, e) \/ EndResubmit(w, e) \/ EndPay(w, e)
             \/ EndReverseExpense(w, e) \/ LockPurchase(w, e) \/ EndReversePurchase(w, e)
             \/ Refuse(w, e)
      PROVE  AnswersInv'
  BY <1>3, RecordTold, DecisionTold, EditTold, EndPayTold, LoadTold
<1>4. ASSUME NEW e \in Entries,
             \/ PostDelivery(e) \/ VoidDelivery(e)
             \/ \E back \in 0 .. Amount[e] : CloseFloat(e, back)
      PROVE  AnswersInv'
  <2>1. UNCHANGED <<inPlay, requests, work, overwritten>>
    BY <1>4 DEF PostDelivery, VoidDelivery, CloseFloat, history
  <2>2. \A v \in Workers, o \in Entries : Recording(v, o)' => Recording(v, o)
    BY <2>1 DEF Recording, Doing
  <2>3. \A o \in Entries : entry'[o].status = entry[o].status
    <3>1. CASE PostDelivery(e) \/ VoidDelivery(e)
      BY <3>1 DEF PostDelivery, VoidDelivery
    <3>2. CASE \E back \in 0 .. Amount[e] : CloseFloat(e, back)
      <4>1. PICK back : entry' = [entry EXCEPT ![e].closed = TRUE, ![e].returned = back]
        BY <3>2 DEF CloseFloat
      <4>2. DOMAIN entry = Entries /\ IsRow(entry[e])
        BY DEF RowsTyped, AreRows
      <4> QED BY <4>1, <4>2 DEF IsRow
    <3> QED BY <1>4, <3>1, <3>2
  <2> QED BY <2>1, <2>2, <2>3, QuietTold
<1> QED BY <1>1, <1>2, <1>3, <1>4 DEF Next

\* No request has been made of anyone.
LEMMA AnswersInit == Init => AnswersInv
<1> SUFFICES ASSUME Init PROVE AnswersInv
  OBVIOUS
<1>1. DOMAIN requests = Entries
  BY DEF Init
<1>2. ASSUME NEW e \in inPlay PROVE Told(e)
  <2>1. e \in Entries
    BY FinanceAssumption DEF Init
  <2>2. entry[e].status = "NONE" /\ requests[e] = << >>
    BY <2>1 DEF Init
  <2>3. RecordedOnce(e)
    BY DEF Init, RecordedOnce, Recording, Doing
  <2>4. Tells("NONE", << >>)
    BY DEF Tells, Rows
  <2> QED BY <2>2, <2>3, <2>4 DEF Told
<1> QED BY <1>1, <1>2 DEF AnswersInv

\* For any entries, people, rounds and workers the status of an entry tells its approval
\* requests, unless a late PATCH has put its old row back (decide and resubmit in
\* commercials/finance.py).
THEOREM StatusTellsRequests == Spec => []StatusTellsRequestsUnlessOverwritten
<1>1. IInv /\ AnswersInv => StatusTellsRequestsUnlessOverwritten
  <2> SUFFICES ASSUME RowsTyped, AnswersInv, NEW e \in inPlay \ overwritten
               PROVE  /\ Cardinality(OpenLevels(e)) = Cardinality(OpenRequests(e))
                      /\ Is(e, {"PENDING_PM"}) <=> 1 \in OpenLevels(e)
                      /\ Is(e, {"PENDING_FINANCE"}) <=> OpenLevels(e) = {2}
                      /\ Is(e, Costed) => Last(requests[e]) = [level |-> 2, status |-> "APPROVED"]
                      /\ Is(e, {"REJECTED"}) => Last(requests[e]).status \in {"REJECTED", "SUPERSEDED"}
    BY DEF IInv, StatusTellsRequestsUnlessOverwritten
  <2> QED BY TellsIsEnough DEF AnswersInv, Told, RowsTyped
<1> QED BY IInvInit, IInvNext, AnswersInit, AnswersInvNext, <1>1, PTL DEF Spec
-----------------------------------------------------------------------------
(* The budget.                                                             *)

\* Whatever else is in a row, this is; a float that is not closed has returned nothing.
Columns == {"status", "over", "linked", "closed", "returned"}
RowSound(r) ==
    /\ Columns \subseteq DOMAIN r
    /\ r.returned \in Nat
    /\ ~r.closed => r.returned = 0

\* What is not there yet is not marked, and nothing is recorded of the other projects.
RowsSound ==
    /\ reversals \in [Entries -> Nat] /\ DOMAIN delivery = Entries
    /\ \A e \in Entries : RowSound(entry[e])
    /\ \A e \in Entries : Is(e, {"NONE"}) => ~entry[e].over
    /\ \A e \in Entries \ inPlay : Is(e, {"NONE"})

\* The copy c of row r is marked if r is, and was signed or linked only if r has been.
CopyOf(c, r) ==
    /\ RowSound(c)
    /\ c.status # "NONE" /\ r.status # "NONE"
    /\ c.over <=> r.over
    /\ c.status \in Costed => r.status \in Costed /\ (r.linked => c.linked)

CopiesSound ==
    \A w \in Workers : work[w] # Idle /\ work[w].op # "record" =>
        CopyOf(work[w].copy, entry[work[w].entry])

\* Who records an entry has judged it by the position that was.
RecordingsJudged ==
    \A w \in Workers, e \in Entries : Recording(w, e) =>
        /\ work[w].position \in Int
        /\ work[w].over <=> OnFloat[e] = NoFloat /\ work[w].position + Amount[e] > Budget

\* What is spent from a float is spent from one of the project, paid out.
FloatsReady ==
    \A e \in Entries :
        OnFloat[e] # NoFloat /\ (~Is(e, {"NONE"}) \/ \E w \in Workers : Recording(w, e)) =>
            OnFloat[e] \in inPlay /\ Is(OnFloat[e], {"PAID"})

Weighed == RowsSound /\ CopiesSound /\ RecordingsJudged /\ FloatsReady /\ ~Silent

BudgetInv == unweighed \cup overwritten # {} \/ Weighed

-----------------------------------------------------------------------------
(* Shares.                                                                 *)

Spent(f) == {e \in Charged(f) : Is(e, Costed)}

\* What entry e counts for, by its row r, its n reversals, its delivery d and what is spent
\* from it.
SignedShare(e, r, n) == (IF r.status \in Costed THEN Amount[e] ELSE 0) - n * Amount[e]
LeftOver(e, r, spent) ==
    IF spent + r.returned <= Amount[e] THEN Amount[e] - spent - r.returned ELSE 0
AllowanceShare(e, r, spent) ==
    IF r.status = "PAID" /\ Kind[e] = "FLOAT" THEN LeftOver(e, r, spent)
    ELSE IF r.status \in Costed THEN Amount[e] ELSE 0
PurchaseShare(e, r, n, d) ==
    IF e \in IntoYard /\ r.linked /\ d = "posted" THEN -(n * Amount[e]) ELSE SignedShare(e, r, n)
CountedShare(e, r, n, d, spent) ==
    IF e \in Allowances THEN AllowanceShare(e, r, spent)
    ELSE IF Kind[e] = "PURCHASE" THEN PurchaseShare(e, r, n, d)
    ELSE SignedShare(e, r, n)
WaitingShare(e, r) == IF r.status \in Pending /\ OnFloat[e] = NoFloat THEN Amount[e] ELSE 0
Share(e, r, n, d, spent) == CountedShare(e, r, n, d, spent) + WaitingShare(e, r)

Shares == [e \in inPlay |-> Share(e, entry[e], reversals[e], delivery[e], CostedOn(e))]

\* The greater of nothing and a number.
LEMMA AtLeastNothing ==
  ASSUME NEW x \in Int
  PROVE  Max({0, x}) = IF 0 <= x THEN x ELSE 0
<1> DEFINE m == IF 0 <= x THEN x ELSE 0
<1>1. m \in {0, x} /\ \A y \in {0, x} : m >= y
  OBVIOUS
<1>2. \A z \in {0, x} : (\A y \in {0, x} : z >= y) => z = m
  OBVIOUS
<1> HIDE DEF m
<1> QED BY <1>1, <1>2 DEF Max, m

\* What is spent from a float is a whole sum.
LEMMA SpentIsNat ==
  ASSUME NEW f
  PROVE  CostedOn(f) = SumFun(Amount, Spent(f)) /\ IsFiniteSet(Spent(f)) /\ CostedOn(f) \in Nat
<1>1. CostedOn(f) = SumFun(Amount, Spent(f))
  BY DEF CostedOn, SumFun, Spent
<1>2. Spent(f) \subseteq Entries
  BY DEF Spent, Charged
<1>3. IsFiniteSet(Spent(f))
  BY <1>2, FS_Subset, FinanceAssumption
<1>4. \A e \in Spent(f) : Amount[e] \in Nat
  BY <1>2, FinanceAssumption
<1> QED BY <1>1, <1>3, <1>4, SumNonNegative

\* Position is the sum of the shares.
LEMMA PositionIsSum ==
  ASSUME inPlay \subseteq Entries, \A e \in Entries : RowSound(entry[e])
  PROVE  Position = SumFun(Shares, inPlay)
<1>1. ASSUME NEW e \in inPlay
      PROVE  Counted(e) + Waiting(e) = Share(e, entry[e], reversals[e], delivery[e], CostedOn(e))
  <2>1. CASE e \in Allowances /\ Is(e, {"PAID"}) /\ Kind[e] = "FLOAT"
    <3> DEFINE a == Amount[e]  c == CostedOn(e)  b == entry[e].returned
    <3>1. a \in Nat /\ b \in Nat /\ c \in Nat
      BY SpentIsNat, FinanceAssumption DEF RowSound
    <3>2. Counted(e) = Max({0, a - c - b})
      <4>1. Counted(e) = OfAllowance(e)
        BY <2>1 DEF Counted
      <4> QED BY <2>1, <4>1 DEF OfAllowance
    <3>3. CountedShare(e, entry[e], reversals[e], delivery[e], c)
            = IF c + b <= a THEN a - c - b ELSE 0
      BY <2>1 DEF CountedShare, AllowanceShare, LeftOver, Is
    <3> HIDE DEF a, b, c
    <3>4. a - c - b \in Int /\ (0 <= a - c - b <=> c + b <= a)
      BY <3>1
    <3>5. Counted(e) = CountedShare(e, entry[e], reversals[e], delivery[e], c)
      BY <3>2, <3>3, <3>4, AtLeastNothing
    <3> QED BY <3>5 DEF c, Share, Waiting, WaitingShare, Is
  <2>2. CASE e \in Allowances /\ ~(Is(e, {"PAID"}) /\ Kind[e] = "FLOAT")
    <3>1. Counted(e) = IF Is(e, Costed) THEN Amount[e] ELSE 0
      <4>1. Counted(e) = OfAllowance(e)
        BY <2>2 DEF Counted
      <4> QED BY <2>2, <4>1 DEF OfAllowance
    <3>2. CountedShare(e, entry[e], reversals[e], delivery[e], CostedOn(e))
            = IF Is(e, Costed) THEN Amount[e] ELSE 0
      BY <2>2 DEF CountedShare, AllowanceShare, Is
    <3> QED BY <3>1, <3>2 DEF Share, Waiting, WaitingShare, Is
  <2>3. CASE e \notin Allowances
    <3>1. Counted(e) = IF Kind[e] = "PURCHASE" THEN OfPurchase(e) ELSE Signed(e)
      BY <2>3 DEF Counted
    <3> QED BY <2>3, <3>1 DEF OfPurchase, Signed, Share, CountedShare, PurchaseShare,
                              SignedShare, Waiting, WaitingShare, Is
  <2> QED BY <2>1, <2>2, <2>3
<1> DEFINE f == [e \in inPlay |-> Counted(e) + Waiting(e)]
<1>2. f = Shares
  BY <1>1 DEF Shares
<1>3. Position = FoldFunction(+, 0, f)
  BY Zenon DEF Position
<1>4. DOMAIN f = inPlay
  OBVIOUS
<1> HIDE DEF f
<1>5. FoldFunction(+, 0, f) = SumFun(f, DOMAIN f)
  BY Zenon DEF SumFun, FoldFunction, FoldFunctionOnSet, MapThenSumSet, MapThenFoldSet
<1> QED BY Zenon, <1>2, <1>3, <1>4, <1>5

\* What an entry that is not signed counts for.
Unsigned(e, n) == IF e \in Allowances THEN 0 ELSE -(n * Amount[e])

\* An entry counts for no more than its amount, and for nothing before it is signed.
LEMMA CountedBetween ==
  ASSUME NEW e \in Entries, NEW r, RowSound(r), NEW n \in Nat, NEW d, NEW spent \in Nat
  PROVE  /\ Unsigned(e, n) \in Int
         /\ CountedShare(e, r, n, d, spent) \in Int
         /\ Unsigned(e, n) <= CountedShare(e, r, n, d, spent)
         /\ CountedShare(e, r, n, d, spent) <= Unsigned(e, n) + Amount[e]
         /\ r.status \notin Costed => CountedShare(e, r, n, d, spent) = Unsigned(e, n)
<1> DEFINE a == Amount[e]
           b == n * Amount[e]
<1>1. a \in Nat /\ b \in Nat /\ r.returned \in Nat
  BY FinanceAssumption DEF RowSound
<1>2. Unsigned(e, n) = IF e \in Allowances THEN 0 ELSE -b
  BY DEF Unsigned
<1>3. SignedShare(e, r, n) = (IF r.status \in Costed THEN a ELSE 0) - b
  BY DEF SignedShare
<1>4. LeftOver(e, r, spent) = IF spent + r.returned <= a THEN a - spent - r.returned ELSE 0
  BY DEF LeftOver
<1>5. PurchaseShare(e, r, n, d) = -b \/ PurchaseShare(e, r, n, d) = SignedShare(e, r, n)
  BY DEF PurchaseShare
<1>6. AllowanceShare(e, r, spent) = IF r.status = "PAID" /\ Kind[e] = "FLOAT" THEN LeftOver(e, r, spent)
                                    ELSE IF r.status \in Costed THEN a ELSE 0
  BY DEF AllowanceShare
<1> HIDE DEF a, b
<1>7. LeftOver(e, r, spent) \in Int /\ 0 <= LeftOver(e, r, spent) /\ LeftOver(e, r, spent) <= a
  BY <1>1, <1>4
<1>8. CASE e \in Allowances
  <2>1. CountedShare(e, r, n, d, spent) = AllowanceShare(e, r, spent) /\ Unsigned(e, n) = 0
    BY <1>2, <1>8 DEF CountedShare
  <2>2. r.status \notin Costed => AllowanceShare(e, r, spent) = 0
    BY <1>6 DEF Costed
  <2>3. AllowanceShare(e, r, spent) \in Int /\ 0 <= AllowanceShare(e, r, spent)
        /\ AllowanceShare(e, r, spent) <= a
    BY <1>1, <1>6, <1>7
  <2> QED BY <1>1, <2>1, <2>2, <2>3 DEF a
<1>9. CASE e \notin Allowances
  <2>1. \/ CountedShare(e, r, n, d, spent) = -b
        \/ CountedShare(e, r, n, d, spent) = SignedShare(e, r, n)
    BY <1>5, <1>9 DEF CountedShare
  <2>2. Unsigned(e, n) = -b
    BY <1>2, <1>9
  <2>3. CASE r.status \in Costed
    <3>1. SignedShare(e, r, n) = a - b
      BY <1>3, <2>3
    <3> QED BY <1>1, <2>1, <2>2, <2>3, <3>1 DEF a
  <2>4. CASE r.status \notin Costed
    <3>1. SignedShare(e, r, n) = 0 - b
      BY <1>3, <2>4
    <3> QED BY <1>1, <2>1, <2>2, <2>4, <3>1 DEF a
  <2> QED BY <2>3, <2>4
<1> QED BY <1>8, <1>9

\* A share is a whole sum, whose waiting part is the amount or nothing.
LEMMA ShareParts ==
  ASSUME NEW e \in Entries, NEW r, RowSound(r), NEW n \in Nat, NEW d, NEW spent \in Nat
  PROVE  /\ Share(e, r, n, d, spent) = CountedShare(e, r, n, d, spent) + WaitingShare(e, r)
         /\ Share(e, r, n, d, spent) \in Int
         /\ WaitingShare(e, r) \in {0, Amount[e]}
         /\ r.status \in Pending /\ OnFloat[e] = NoFloat => WaitingShare(e, r) = Amount[e]
         /\ r.status \notin Pending \/ OnFloat[e] # NoFloat => WaitingShare(e, r) = 0
         /\ Amount[e] \in Nat
<1>1. Amount[e] \in Nat
  BY FinanceAssumption
<1>2. /\ r.status \in Pending /\ OnFloat[e] = NoFloat => WaitingShare(e, r) = Amount[e]
      /\ r.status \notin Pending \/ OnFloat[e] # NoFloat => WaitingShare(e, r) = 0
  BY DEF WaitingShare
<1>3. CountedShare(e, r, n, d, spent) \in Int
  BY CountedBetween
<1>4. WaitingShare(e, r) \in Int
  BY <1>1, <1>2
<1> QED BY <1>1, <1>2, <1>3, <1>4 DEF Share

\* Paid, an entry counts for no more than approved.
LEMMA PaidShare ==
  ASSUME NEW e \in Entries, NEW r, RowSound(r), NEW s, RowSound(s), NEW n \in Nat, NEW d,
         NEW spent \in Nat, r.status = "APPROVED", s.status = "PAID", r.linked => s.linked
  PROVE  Share(e, s, n, d, spent) <= Share(e, r, n, d, spent)
<1>1. /\ CountedShare(e, r, n, d, spent) \in Int /\ CountedShare(e, s, n, d, spent) \in Int
      /\ Unsigned(e, n) \in Int
      /\ Unsigned(e, n) <= CountedShare(e, r, n, d, spent)
      /\ CountedShare(e, s, n, d, spent) <= Unsigned(e, n) + Amount[e]
  BY CountedBetween
<1>2. WaitingShare(e, r) = 0 /\ WaitingShare(e, s) = 0 /\ Amount[e] \in Nat
  BY ShareParts DEF Pending
<1>3. r.status \in Costed /\ s.status \in Costed /\ r.status # "PAID"
  BY DEF Costed
<1>4. CountedShare(e, s, n, d, spent) <= CountedShare(e, r, n, d, spent)
  <2>1. CASE e \in Allowances
    <3>1. CountedShare(e, r, n, d, spent) = Amount[e] /\ Unsigned(e, n) = 0
      BY <1>3, <2>1 DEF CountedShare, AllowanceShare, Unsigned
    <3> QED BY <1>1, <1>2, <3>1
  <2>2. CASE e \notin Allowances
    <3>1. SignedShare(e, s, n) = SignedShare(e, r, n)
      BY <1>3 DEF SignedShare
    <3>2. CASE Kind[e] = "PURCHASE" /\ e \in IntoYard /\ s.linked /\ d = "posted"
      <4>1. CountedShare(e, s, n, d, spent) = Unsigned(e, n)
        BY <2>2, <3>2 DEF CountedShare, PurchaseShare, Unsigned
      <4> QED BY <1>1, <4>1
    <3>3. CASE ~(Kind[e] = "PURCHASE" /\ e \in IntoYard /\ s.linked /\ d = "posted")
      <4>1. CountedShare(e, s, n, d, spent) = SignedShare(e, s, n)
            /\ CountedShare(e, r, n, d, spent) = SignedShare(e, r, n)
        BY <2>2, <3>3 DEF CountedShare, PurchaseShare
      <4> QED BY <1>1, <3>1, <4>1
    <3> QED BY <3>2, <3>3
  <2> QED BY <2>1, <2>2
<1> QED BY <1>1, <1>2, <1>4 DEF Share

\* Once more the amount.
LEMMA OnceMore ==
  ASSUME NEW n \in Nat, NEW a \in Nat
  PROVE  (n + 1) * a = n * a + a /\ n * a \in Int
OBVIOUS

\* Reversed once more, whatever becomes of its delivery and its link, an entry counts for
\* no more than before.
LEMMA ReversedShare ==
  ASSUME NEW e \in Entries, NEW r, RowSound(r), NEW s, RowSound(s), NEW n \in Nat, NEW d,
         NEW c, NEW spent \in Nat, s.status = r.status, s.returned = r.returned
  PROVE  Share(e, s, n + 1, c, spent) <= Share(e, r, n, d, spent)
<1> DEFINE old == CountedShare(e, r, n, d, spent)
           new == CountedShare(e, s, n + 1, c, spent)
<1>1. n + 1 \in Nat
  OBVIOUS
<1>2. /\ old \in Int /\ Unsigned(e, n) <= old /\ Unsigned(e, n) \in Int
      /\ new \in Int /\ new <= Unsigned(e, n + 1) + Amount[e] /\ Unsigned(e, n + 1) \in Int
      /\ Amount[e] \in Nat
  BY <1>1, CountedBetween, ShareParts
<1>3. WaitingShare(e, s) = WaitingShare(e, r) /\ WaitingShare(e, r) \in Int
  <2>1. WaitingShare(e, r) \in Int
    BY <1>2 DEF WaitingShare
  <2> QED BY <2>1 DEF WaitingShare
<1>4. new <= old
  <2>1. CASE e \in Allowances
    <3>1. new = AllowanceShare(e, s, spent) /\ old = AllowanceShare(e, r, spent)
      BY <2>1 DEF CountedShare
    <3>2. AllowanceShare(e, s, spent) = AllowanceShare(e, r, spent)
      BY DEF AllowanceShare, LeftOver
    <3> QED BY <1>2, <3>1, <3>2
  <2>2. CASE e \notin Allowances
    <3>1. Unsigned(e, n + 1) = -((n + 1) * Amount[e]) /\ Unsigned(e, n) = -(n * Amount[e])
      BY <2>2 DEF Unsigned
    <3>2. (n + 1) * Amount[e] = n * Amount[e] + Amount[e] /\ n * Amount[e] \in Int
      BY <1>2, OnceMore
    <3>3. Unsigned(e, n + 1) + Amount[e] = Unsigned(e, n)
      <4> DEFINE b == n * Amount[e]
                 m == (n + 1) * Amount[e]
      <4> HIDE DEF b, m
      <4>1. m = b + Amount[e] /\ b \in Int /\ Unsigned(e, n + 1) = -m /\ Unsigned(e, n) = -b
        BY <3>1, <3>2 DEF b, m
      <4> QED BY <1>2, <4>1
    <3> HIDE DEF new, old
    <3> QED BY <1>2, <3>3
  <2> QED BY <2>1, <2>2
<1> HIDE DEF new, old
<1>5. Share(e, s, n + 1, c, spent) = new + WaitingShare(e, s)
      /\ Share(e, r, n, d, spent) = old + WaitingShare(e, r)
  BY DEF Share, new, old
<1> QED BY <1>2, <1>3, <1>4, <1>5

\* Goods received are no longer committed.
LEMMA PostedShare ==
  ASSUME NEW e \in Entries, NEW r, RowSound(r), NEW n \in Nat, NEW spent \in Nat
  PROVE  Share(e, r, n, "posted", spent) <= Share(e, r, n, "draft", spent)
<1> DEFINE old == CountedShare(e, r, n, "draft", spent)
           new == CountedShare(e, r, n, "posted", spent)
<1>1. new = old \/ new = Unsigned(e, n)
  BY DEF CountedShare, PurchaseShare, Unsigned
<1>2. new \in Int /\ old \in Int /\ Unsigned(e, n) <= old /\ Unsigned(e, n) \in Int
  BY CountedBetween
<1>3. WaitingShare(e, r) \in Int
  BY ShareParts
<1>4. Share(e, r, n, "posted", spent) = new + WaitingShare(e, r)
      /\ Share(e, r, n, "draft", spent) = old + WaitingShare(e, r)
  BY DEF Share
<1> HIDE DEF new, old
<1> QED BY <1>1, <1>2, <1>3, <1>4

\* A float that is closed holds no more than it did.
LEMMA ClosedShare ==
  ASSUME NEW e \in Entries, NEW r, RowSound(r), NEW s, RowSound(s), NEW n \in Nat, NEW d,
         NEW spent \in Nat, s.status = r.status, s.linked = r.linked, r.returned = 0
  PROVE  Share(e, s, n, d, spent) <= Share(e, r, n, d, spent)
<1> DEFINE old == CountedShare(e, r, n, d, spent)
           new == CountedShare(e, s, n, d, spent)
<1>1. new \in Int /\ old \in Int
  BY CountedBetween
<1>2. LeftOver(e, s, spent) <= LeftOver(e, r, spent)
  <2>1. s.returned \in Nat /\ Amount[e] \in Nat
    BY FinanceAssumption DEF RowSound
  <2> QED BY <2>1 DEF LeftOver
<1>3. new <= old
  <2>1. CASE e \in Allowances /\ r.status = "PAID" /\ Kind[e] = "FLOAT"
    <3>1. new = LeftOver(e, s, spent) /\ old = LeftOver(e, r, spent)
      BY <2>1 DEF CountedShare, AllowanceShare
    <3> QED BY <1>2, <3>1
  <2>2. CASE ~(e \in Allowances /\ r.status = "PAID" /\ Kind[e] = "FLOAT")
    <3>1. new = old
      BY <2>2 DEF CountedShare, AllowanceShare, PurchaseShare, SignedShare
    <3> HIDE DEF new, old
    <3> QED BY <1>1, <3>1
  <2> QED BY <2>1, <2>2
<1>4. WaitingShare(e, s) = WaitingShare(e, r) /\ WaitingShare(e, r) \in Int
  <2>1. WaitingShare(e, r) \in Int
    BY ShareParts
  <2> QED BY <2>1 DEF WaitingShare
<1>5. Share(e, s, n, d, spent) = new + WaitingShare(e, s)
      /\ Share(e, r, n, d, spent) = old + WaitingShare(e, r)
  BY DEF Share
<1> HIDE DEF new, old
<1> QED BY <1>1, <1>3, <1>4, <1>5

\* Before an entry is signed its share is what waits, and it grows by no more than its
\* amount when it is.
LEMMA SignedLater ==
  ASSUME NEW e \in Entries, NEW r, RowSound(r), NEW s, RowSound(s), NEW n \in Nat, NEW d,
         NEW c, NEW spent \in Nat, r.status \notin Costed
  PROVE  /\ Share(e, r, n, d, spent) = Unsigned(e, n) + WaitingShare(e, r)
         /\ s.status \notin Costed => Share(e, s, n, c, spent) = Unsigned(e, n) + WaitingShare(e, s)
         /\ s.status \in Costed => Share(e, s, n, c, spent) <= Unsigned(e, n) + Amount[e]
         /\ Unsigned(e, n) \in Int
<1>1. /\ CountedShare(e, r, n, d, spent) = Unsigned(e, n) /\ Unsigned(e, n) \in Int
      /\ CountedShare(e, s, n, c, spent) <= Unsigned(e, n) + Amount[e]
      /\ CountedShare(e, s, n, c, spent) \in Int /\ Amount[e] \in Nat
      /\ s.status \notin Costed => CountedShare(e, s, n, c, spent) = Unsigned(e, n)
  BY CountedBetween, ShareParts
<1>2. s.status \in Costed => WaitingShare(e, s) = 0
  BY DEF Costed, Pending, WaitingShare
<1>3. Share(e, r, n, d, spent) = Unsigned(e, n) + WaitingShare(e, r)
  BY <1>1 DEF Share
<1>4. Share(e, s, n, c, spent) = CountedShare(e, s, n, c, spent) + WaitingShare(e, s)
  BY DEF Share
<1>5. ASSUME s.status \in Costed PROVE Share(e, s, n, c, spent) <= Unsigned(e, n) + Amount[e]
  <2>1. Share(e, s, n, c, spent) = CountedShare(e, s, n, c, spent) + 0
    BY <1>2, <1>4, <1>5
  <2> QED BY <1>1, <2>1
<1> QED BY <1>1, <1>3, <1>4, <1>5

\* What is spent from a float comes off what it holds.
LEMMA SpendingShare ==
  ASSUME NEW f \in Entries, Kind[f] = "FLOAT", NEW r, RowSound(r), r.status = "PAID",
         NEW n \in Nat, NEW d, NEW spent \in Nat, NEW more \in Nat,
         spent + more + r.returned <= Amount[f]
  PROVE  Share(f, r, n, d, spent + more) = Share(f, r, n, d, spent) - more
<1>1. Share(f, r, n, d, spent) = LeftOver(f, r, spent)
      /\ Share(f, r, n, d, spent + more) = LeftOver(f, r, spent + more)
  <2>1. f \in Allowances /\ WaitingShare(f, r) = 0
    BY DEF Allowances, WaitingShare, Pending
  <2>2. CountedShare(f, r, n, d, spent) = LeftOver(f, r, spent)
        /\ CountedShare(f, r, n, d, spent + more) = LeftOver(f, r, spent + more)
    BY <2>1 DEF CountedShare, AllowanceShare
  <2>3. LeftOver(f, r, spent) \in Int /\ LeftOver(f, r, spent + more) \in Int
    BY FinanceAssumption DEF LeftOver, RowSound
  <2> QED BY <2>1, <2>2, <2>3 DEF Share
<1>2. r.returned \in Nat /\ Amount[f] \in Nat
  BY FinanceAssumption DEF RowSound
<1> QED BY <1>1, <1>2 DEF LeftOver

-----------------------------------------------------------------------------
(* The position.                                                           *)

InPlay == inPlay \subseteq Entries /\ IsFiniteSet(inPlay)

\* The position is a whole sum of whole shares.
LEMMA PositionTyped ==
  InPlay /\ RowsSound =>
    /\ Position = SumFun(Shares, inPlay) /\ Position \in Int
    /\ \A e \in inPlay : Shares[e] \in Int
<1> SUFFICES ASSUME InPlay, RowsSound
             PROVE  /\ Position = SumFun(Shares, inPlay) /\ Position \in Int
                    /\ \A e \in inPlay : Shares[e] \in Int
  OBVIOUS
<1>1. Position = SumFun(Shares, inPlay)
  BY PositionIsSum DEF InPlay, RowsSound
<1>2. \A e \in inPlay : Shares[e] \in Int
  <2> SUFFICES ASSUME NEW e \in inPlay PROVE Shares[e] \in Int
    OBVIOUS
  <2>1. e \in Entries /\ RowSound(entry[e]) /\ reversals[e] \in Nat
    BY DEF InPlay, RowsSound
  <2>2. Share(e, entry[e], reversals[e], delivery[e], CostedOn(e)) \in Int
    BY <2>1, SpentIsNat, ShareParts
  <2> QED BY <2>2 DEF Shares
<1> HIDE DEF Shares
<1>3. SumFun(Shares, inPlay) \in Int
  BY <1>2, SumInt DEF InPlay
<1> QED BY <1>1, <1>2, <1>3

\* The same, a step later.
LEMMA PositionTypedNext ==
  (InPlay /\ RowsSound)' =>
    /\ Position' = SumFun(Shares', inPlay') /\ Position' \in Int
    /\ \A e \in inPlay' : Shares'[e] \in Int
<1>1. (InPlay /\ RowsSound)' =>
        (/\ Position = SumFun(Shares, inPlay) /\ Position \in Int
         /\ \A e \in inPlay : Shares[e] \in Int)'
  BY PositionTyped, PTL
<1>2. SumFun(Shares, inPlay)' = SumFun(Shares', inPlay')
  BY DEF SumFun, MapThenSumSet, MapThenFoldSet
<1> HIDE DEF SumFun, Shares, Position
<1> QED BY <1>1, <1>2

\* What is spent from a float is a sum.
LEMMA SpentIsSum == \A f : CostedOn(f) = SumFun(Amount, Spent(f))
BY SpentIsNat

\* The same, a step later.
LEMMA SpentIsSumNext == \A f : CostedOn(f)' = SumFun(Amount, Spent(f)')
<1>1. (\A f : CostedOn(f) = SumFun(Amount, Spent(f)))'
  BY SpentIsSum, PTL
<1> HIDE DEF CostedOn, Spent, SumFun
<1> QED BY <1>1

\* What is spent from a float stays so as long as nothing charged to it is signed.
LEMMA SpentStays ==
  ASSUME NEW f, \A e \in Entries : OnFloat[e] = f => (Is(e, Costed)' <=> Is(e, Costed))
  PROVE  CostedOn(f)' = CostedOn(f)
<1>1. Spent(f)' = Spent(f)
  <2>1. \A e \in Charged(f) : Is(e, Costed)' <=> Is(e, Costed)
    BY DEF Charged
  <2> QED BY <2>1 DEF Spent, Charged
<1>2. CostedOn(f)' = SumFun(Amount, Spent(f)') /\ CostedOn(f) = SumFun(Amount, Spent(f))
  BY SpentIsSum, SpentIsSumNext
<1> HIDE DEF CostedOn, Spent, SumFun
<1> QED BY <1>1, <1>2

\* As long as the position does not grow and no mark is lost, nobody goes past the budget in
\* silence.
LEMMA PositionFalls ==
  ASSUME InPlay, RowsSound, RowsSound', inPlay' = inPlay, ~Silent,
         SumFun(Shares', inPlay) <= SumFun(Shares, inPlay),
         \A o \in inPlay : entry[o].over => entry'[o].over
  PROVE  ~Silent'
<1>1. InPlay'
  BY DEF InPlay
<1>2. Position = SumFun(Shares, inPlay) /\ Position \in Int
  BY PositionTyped
<1>3. Position' = SumFun(Shares', inPlay) /\ Position' \in Int
  BY <1>1, PositionTypedNext
<1> HIDE DEF Shares, Position, SumFun
<1>4. Budget \in Int
  BY FinanceAssumption
<1>5. Position > Budget \/ ~(Position' > Budget)
  BY <1>2, <1>3, <1>4
<1> QED BY <1>5 DEF Silent

\* The same, when no share grows.
LEMMA SharesFall ==
  ASSUME InPlay, RowsSound, RowsSound', inPlay' = inPlay, ~Silent,
         \A o \in inPlay : Shares'[o] <= Shares[o],
         \A o \in inPlay : entry[o].over => entry'[o].over
  PROVE  ~Silent'
<1>1. InPlay'
  BY DEF InPlay
<1>2. \A o \in inPlay : Shares[o] \in Int
  BY PositionTyped
<1>3. \A o \in inPlay : Shares'[o] \in Int
  BY <1>1, PositionTypedNext
<1>4. SumFun(Shares', inPlay) <= SumFun(Shares, inPlay)
  <2> DEFINE f == Shares
             g == Shares'
  <2>1. \A o \in inPlay : g[o] \in Int /\ f[o] \in Int /\ g[o] <= f[o]
    BY <1>2, <1>3
  <2> HIDE DEF f, g
  <2>2. SumFun(g, inPlay) <= SumFun(f, inPlay)
    BY <2>1, SumMonotonic DEF InPlay
  <2> QED BY <2>2 DEF f, g
<1> HIDE DEF Shares, SumFun
<1> QED BY <1>4, PositionFalls

\* The same, of one entry whose row, reversals or delivery change.
LEMMA OneShareFalls ==
  ASSUME InPlay, RowsSound, RowsSound', inPlay' = inPlay, ~Silent, NEW e \in Entries,
         \A o \in Entries \ {e} :
            entry'[o] = entry[o] /\ reversals'[o] = reversals[o] /\ delivery'[o] = delivery[o],
         OnFloat[e] = NoFloat \/ (Is(e, Costed)' <=> Is(e, Costed)),
         entry[e].over => entry'[e].over,
         Share(e, entry'[e], reversals'[e], delivery'[e], CostedOn(e))
            <= Share(e, entry[e], reversals[e], delivery[e], CostedOn(e))
  PROVE  ~Silent'
<1>1. \A o \in Entries : OnFloat[o] # NoFloat => (Is(o, Costed)' <=> Is(o, Costed))
  BY DEF Is
<1>2. \A o \in Entries : CostedOn(o)' = CostedOn(o)
  BY <1>1, SpentStays, FinanceAssumption
<1>3. \A o \in inPlay : Shares[o] = Share(o, entry[o], reversals[o], delivery[o], CostedOn(o))
  BY DEF Shares
<1>4. \A o \in inPlay : Shares'[o] = Share(o, entry'[o], reversals'[o], delivery'[o], CostedOn(o)')
  BY DEF Shares
<1>5. \A o \in inPlay : Shares[o] \in Int
  BY PositionTyped
<1> HIDE DEF Shares, Share, CostedOn
<1>6. ASSUME NEW o \in inPlay PROVE Shares'[o] <= Shares[o]
  <2>1. o \in Entries
    BY DEF InPlay
  <2>2. CASE o = e
    BY <1>2, <1>3, <1>4, <2>1, <2>2
  <2>3. CASE o # e
    <3>1. Shares'[o] = Shares[o]
      BY <1>2, <1>3, <1>4, <2>1, <2>3
    <3> QED BY <1>5, <3>1
  <2> QED BY <2>2, <2>3
<1>7. \A o \in inPlay : entry[o].over => entry'[o].over
  BY DEF InPlay
<1> QED BY <1>6, <1>7, SharesFall

-----------------------------------------------------------------------------
(* The rows and the copies.                                                *)

\* Row s may follow row r of an entry that is there.
Follows(r, s) ==
    /\ RowSound(s)
    /\ s.status = "NONE" <=> r.status = "NONE"
    /\ s.over <=> r.over
    /\ r.status \in Costed => s.status \in Costed /\ (s.linked => r.linked)
    /\ r.status = "PAID" => s.status = "PAID"

\* What was weighed but for the position.
Judged == RowsSound /\ CopiesSound /\ RecordingsJudged /\ FloatsReady

\* A step in which rows follow rows and no request is begun.
LEMMA RowsFollow ==
  ASSUME RowsTyped, Judged, inPlay' = inPlay,
         \A o \in Entries : Follows(entry[o], entry'[o]),
         reversals' \in [Entries -> Nat], DOMAIN delivery' = Entries,
         \A v \in Workers : work'[v] = work[v] \/ work'[v] = Idle
  PROVE  Judged'
<1>1. RowsSound'
  BY DEF Judged, RowsSound, Follows, Is
<1>2. \A v \in Workers, o \in Entries : Recording(v, o)' => Recording(v, o) /\ work'[v] = work[v]
  BY DEF Recording, Doing
<1>3. RecordingsJudged'
  BY <1>2 DEF Judged, RecordingsJudged
<1>4. CopiesSound'
  <2> SUFFICES ASSUME NEW w \in Workers, work'[w] # Idle, work'[w].op # "record"
               PROVE  CopyOf(work'[w].copy, entry'[work'[w].entry])
    BY DEF CopiesSound
  <2>1. work'[w] = work[w]
    OBVIOUS
  <2> DEFINE c == work[w].copy
             o == work[w].entry
  <2>2. CopyOf(c, entry[o]) /\ o \in Entries
    BY <2>1 DEF Judged, CopiesSound, RowsTyped
  <2> HIDE DEF c, o
  <2>3. Follows(entry[o], entry'[o])
    BY <2>2
  <2>4. CopyOf(c, entry'[o])
    BY <2>2, <2>3 DEF CopyOf, Follows
  <2> QED BY <2>1, <2>4 DEF c, o
<1>5. FloatsReady'
  <2> SUFFICES ASSUME NEW o \in Entries, OnFloat[o] # NoFloat,
                      ~Is(o, {"NONE"})' \/ \E w \in Workers : Recording(w, o)'
               PROVE  OnFloat[o] \in inPlay' /\ Is(OnFloat[o], {"PAID"})'
    BY DEF FloatsReady
  <2>1. ~Is(o, {"NONE"}) \/ \E w \in Workers : Recording(w, o)
    BY <1>2 DEF Is, Follows
  <2>2. OnFloat[o] \in inPlay /\ Is(OnFloat[o], {"PAID"})
    BY <2>1 DEF Judged, FloatsReady
  <2>3. OnFloat[o] \in Entries
    BY FinanceAssumption
  <2> QED BY <2>2, <2>3 DEF Is, Follows
<1> QED BY <1>1, <1>3, <1>4, <1>5 DEF Judged

\* A row follows itself.
LEMMA FollowsItself ==
  ASSUME NEW r, RowSound(r)
  PROVE  Follows(r, r)
BY DEF Follows

\* Every row follows itself when nothing is written.
LEMMA NothingWritten ==
  ASSUME RowsTyped, Judged, ~Silent, UNCHANGED <<inPlay, delivery, reversals>>,
         \A o \in Entries : entry'[o] = entry[o],
         \A v \in Workers : work'[v] = work[v] \/ work'[v] = Idle
  PROVE  Judged' /\ ~Silent'
<1>1. InPlay
  BY FinanceAssumption, FS_Subset DEF RowsTyped, InPlay
<1>2. Judged'
  <2>1. \A o \in Entries : Follows(entry[o], entry'[o])
    BY FollowsItself DEF Judged, RowsSound
  <2> QED BY <2>1, RowsFollow DEF Judged, RowsSound
<1>3. \A o \in inPlay : Shares'[o] = Shares[o] /\ Shares[o] \in Int
  <2>1. \A o \in Entries : CostedOn(o)' = CostedOn(o)
    BY SpentStays DEF Is
  <2>2. \A o \in inPlay : Shares[o] = Share(o, entry[o], reversals[o], delivery[o], CostedOn(o))
    BY DEF Shares
  <2>3. \A o \in inPlay : Shares'[o] = Share(o, entry'[o], reversals'[o], delivery'[o], CostedOn(o)')
    BY DEF Shares
  <2>4. \A o \in inPlay : Shares[o] \in Int
    BY <1>1, PositionTyped DEF Judged
  <2> HIDE DEF Shares, Share, CostedOn
  <2> QED BY <1>1, <2>1, <2>2, <2>3, <2>4 DEF InPlay
<1>4. \A o \in inPlay : Shares'[o] <= Shares[o]
  BY <1>3
<1>5. \A o \in inPlay : entry[o].over => entry'[o].over
  BY <1>1 DEF InPlay
<1> HIDE DEF Shares
<1> QED BY <1>1, <1>2, <1>4, <1>5, SharesFall DEF Judged

\* A request is begun on an entry that is there, with a copy of its row.
LEMMA BegunWeighed ==
  ASSUME RowsTyped, Judged, ~Silent, NEW w \in Workers, NEW e \in Entries, NEW job,
         Start(w, job), job.op # "record", job.entry = e, job.copy = entry[e],
         entry[e].status # "NONE", UNCHANGED <<inPlay, entry, delivery, reversals>>
  PROVE  Judged' /\ ~Silent'
<1>1. /\ DOMAIN work' = Workers /\ work'[w] = job
      /\ \A v \in Workers \ {w} : work'[v] = work[v]
  BY StartsRequest
<1>2. RowsSound'
  BY DEF Judged, RowsSound, Is
<1>3. \A v \in Workers, o \in Entries : Recording(v, o)' => Recording(v, o) /\ work'[v] = work[v]
  BY <1>1 DEF Recording, Doing
<1>4. RecordingsJudged'
  BY <1>3 DEF Judged, RecordingsJudged
<1>5. FloatsReady'
  BY <1>3 DEF Judged, FloatsReady, Is
<1>6. CopiesSound'
  <2>1. CopyOf(entry[e], entry[e])
    BY DEF Judged, RowsSound, CopyOf
  <2> SUFFICES ASSUME NEW v \in Workers, work'[v] # Idle, work'[v].op # "record"
               PROVE  CopyOf(work'[v].copy, entry'[work'[v].entry])
    BY DEF CopiesSound
  <2>2. CASE v = w
    BY <1>1, <2>1, <2>2
  <2>3. CASE v # w
    BY <1>1, <2>3 DEF Judged, CopiesSound
  <2> QED BY <2>2, <2>3
<1>7. ~Silent'
  <2>1. InPlay
    BY FinanceAssumption, FS_Subset DEF RowsTyped, InPlay
  <2>2. RowSound(entry[e]) /\ reversals[e] \in Nat /\ CostedOn(e) \in Nat
    BY SpentIsNat DEF Judged, RowsSound
  <2>3. Share(e, entry[e], reversals[e], delivery[e], CostedOn(e)) \in Int
    BY <2>2, ShareParts
  <2>4. Share(e, entry[e], reversals[e], delivery[e], CostedOn(e))
          <= Share(e, entry[e], reversals[e], delivery[e], CostedOn(e))
    BY <2>3
  <2> HIDE DEF Share, CostedOn
  <2> QED BY <1>2, <2>1, <2>4, OneShareFalls DEF Judged, Is
<1> QED BY <1>2, <1>4, <1>5, <1>6, <1>7 DEF Judged

\* An entry about to be recorded is judged by the position.
LEMMA BeginRecordWeighed ==
  ASSUME RowsTyped, Judged, ~Silent, NEW w \in Workers, NEW e \in Entries, BeginRecord(w, e)
  PROVE  Judged' /\ ~Silent'
<1> DEFINE job == [op |-> "record", entry |-> e, copy |-> entry[e],
                   over |-> WouldExceed(e), position |-> Position]
<1>1. /\ Start(w, job) /\ FloatUsable(e) /\ Is(e, {"NONE"})
      /\ UNCHANGED <<inPlay, entry, delivery, reversals>>
  BY DEF BeginRecord, books
<1>2. /\ DOMAIN work' = Workers /\ work'[w] = job
      /\ \A v \in Workers \ {w} : work'[v] = work[v]
  BY <1>1, StartsRequest
<1>3. /\ job.op = "record" /\ job.entry = e /\ job.position = Position
      /\ job.over = WouldExceed(e)
  OBVIOUS
<1> HIDE DEF job
<1>4. InPlay
  BY FinanceAssumption, FS_Subset DEF RowsTyped, InPlay
<1>5. RowsSound'
  BY <1>1 DEF Judged, RowsSound, Is
<1>6. CopiesSound'
  BY <1>1, <1>2, <1>3 DEF Judged, CopiesSound
<1>7. \A v \in Workers, o \in Entries : Recording(v, o)' =>
          (v = w /\ o = e) \/ (Recording(v, o) /\ work'[v] = work[v])
  BY <1>2, <1>3 DEF Recording, Doing
<1>8. RecordingsJudged'
  <2>1. Position \in Int
    BY <1>4, PositionTyped DEF Judged
  <2>2. work'[w].position \in Int
        /\ (work'[w].over <=> OnFloat[e] = NoFloat /\ work'[w].position + Amount[e] > Budget)
    BY <1>2, <1>3, <2>1 DEF WouldExceed
  <2> QED BY <1>7, <2>2 DEF Judged, RecordingsJudged
<1>9. FloatsReady'
  <2> SUFFICES ASSUME NEW o \in Entries, OnFloat[o] # NoFloat,
                      ~Is(o, {"NONE"})' \/ \E v \in Workers : Recording(v, o)'
               PROVE  OnFloat[o] \in inPlay' /\ Is(OnFloat[o], {"PAID"})'
    BY DEF FloatsReady
  <2>1. CASE o = e
    <3>1. Is(OnFloat[o], {"PAID"}) /\ OnFloat[o] \in Entries
      BY <1>1, <2>1, FinanceAssumption DEF FloatUsable
    <3>2. OnFloat[o] \in inPlay
      BY <3>1 DEF Judged, RowsSound, Is
    <3> QED BY <1>1, <3>1, <3>2 DEF Is
  <2>2. CASE o # e
    BY <1>1, <1>7, <2>2 DEF Judged, FloatsReady, Is
  <2> QED BY <2>1, <2>2
<1>10. ~Silent'
  <2>1. RowSound(entry[e]) /\ reversals[e] \in Nat /\ CostedOn(e) \in Nat
    BY SpentIsNat DEF Judged, RowsSound
  <2>2. Share(e, entry[e], reversals[e], delivery[e], CostedOn(e)) \in Int
    BY <2>1, ShareParts
  <2>3. Share(e, entry'[e], reversals'[e], delivery'[e], CostedOn(e))
          <= Share(e, entry[e], reversals[e], delivery[e], CostedOn(e))
    BY <1>1, <2>2
  <2> HIDE DEF Share, CostedOn
  <2> QED BY <1>1, <1>4, <1>5, <2>3, OneShareFalls DEF Judged, Is
<1> QED BY <1>5, <1>6, <1>8, <1>9, <1>10 DEF Judged

\* A row is written that may follow the one that is there, and its share does not grow.
LEMMA WrittenWeighed ==
  ASSUME RowsTyped, Judged, ~Silent, inPlay' = inPlay, NEW e \in Entries, NEW r,
         entry'[e] = r, \A o \in Entries \ {e} : entry'[o] = entry[o], Follows(entry[e], r),
         reversals' \in [Entries -> Nat], DOMAIN delivery' = Entries,
         \A o \in Entries \ {e} : reversals'[o] = reversals[o] /\ delivery'[o] = delivery[o],
         \A v \in Workers : work'[v] = work[v] \/ work'[v] = Idle,
         OnFloat[e] = NoFloat \/ (r.status \in Costed <=> entry[e].status \in Costed),
         Share(e, r, reversals'[e], delivery'[e], CostedOn(e))
            <= Share(e, entry[e], reversals[e], delivery[e], CostedOn(e))
  PROVE  Judged' /\ ~Silent'
<1>2. entry'[e] = r /\ \A o \in Entries \ {e} : entry'[o] = entry[o]
  OBVIOUS
<1>3. \A o \in Entries : Follows(entry[o], entry'[o])
  BY <1>2, FollowsItself DEF Judged, RowsSound
<1>4. Judged'
  BY <1>3, RowsFollow
<1>5. InPlay
  BY FinanceAssumption, FS_Subset DEF RowsTyped, InPlay
<1>6. entry[e].over => entry'[e].over
  BY <1>2 DEF Follows
<1>7. OnFloat[e] = NoFloat \/ (Is(e, Costed)' <=> Is(e, Costed))
  BY <1>2 DEF Is
<1> HIDE DEF Share, CostedOn
<1> QED BY <1>2, <1>4, <1>5, <1>6, <1>7, OneShareFalls DEF Judged

\* A row written, and no other.
LEMMA RowWritten ==
  ASSUME RowsTyped, NEW e \in Entries, NEW r, entry' = [entry EXCEPT ![e] = r]
  PROVE  entry'[e] = r /\ \A o \in Entries \ {e} : entry'[o] = entry[o]
BY DEF RowsTyped, AreRows

\* The copy of a row, with another status.
LEMMA CopyWithStatus ==
  ASSUME NEW c, RowSound(c), NEW st
  PROVE  LET r == [c EXCEPT !.status = st] IN
         /\ r.status = st /\ r.over = c.over /\ r.linked = c.linked /\ r.closed = c.closed
         /\ r.returned = c.returned /\ RowSound(r)
BY DEF RowSound, Columns

\* What a request that is not a recording may count on.
LEMMA RequestIsSound ==
  ASSUME RowsTyped, Judged, NEW w \in Workers, NEW e \in Entries, NEW op, op # "record",
         Doing(w, op, e), Refused(w)
  PROVE  /\ CopyOf(Copy(w), entry[e]) /\ e \in inPlay
         /\ RowSound(entry[e]) /\ reversals[e] \in Nat /\ CostedOn(e) \in Nat
         /\ \A v \in Workers : work'[v] = work[v] \/ work'[v] = Idle
<1>1. CopyOf(Copy(w), entry[e]) /\ e \in inPlay
  BY DEF Judged, CopiesSound, Doing, Copy, RowsTyped
<1>2. RowSound(entry[e]) /\ reversals[e] \in Nat /\ CostedOn(e) \in Nat
  BY SpentIsNat DEF Judged, RowsSound
<1>3. \A v \in Workers : work'[v] = work[v] \/ work'[v] = Idle
  BY EndsRequest
<1> QED BY <1>1, <1>2, <1>3

\* A refusal, and the first of two signatures.
LEMMA AnswerWeighed ==
  ASSUME RowsTyped, Judged, ~Silent, NEW w \in Workers, NEW e \in Entries,
         Reject(w, e) \/ PassToFinance(w, e)
  PROVE  Judged' /\ ~Silent'
<1> DEFINE c == Copy(w)
<1>1. /\ Doing(w, "decide", e) /\ Refused(w) /\ UNCHANGED <<inPlay, delivery, reversals>>
      /\ entry[e].status = c.status /\ c.status \in Pending
  BY DEF Reject, PassToFinance, May, StillAsLoaded, books
<1>2. PICK st \in {"REJECTED", "PENDING_FINANCE"} : entry' = [entry EXCEPT ![e] = [c EXCEPT !.status = st]]
  BY DEF Reject, PassToFinance
<1> DEFINE r == [c EXCEPT !.status = st]
<1>3. /\ CopyOf(c, entry[e]) /\ RowSound(entry[e]) /\ reversals[e] \in Nat /\ CostedOn(e) \in Nat
      /\ \A v \in Workers : work'[v] = work[v] \/ work'[v] = Idle
  BY <1>1, RequestIsSound
<1>4. r.status = st /\ r.over = c.over /\ RowSound(r)
  BY <1>3, CopyWithStatus DEF CopyOf
<1> HIDE DEF r, c
<1>5. st \notin Costed /\ c.status \notin Costed /\ st # "NONE"
  BY <1>1 DEF Costed, Pending
<1>6. Follows(entry[e], r)
  BY <1>1, <1>3, <1>4, <1>5 DEF Follows, CopyOf, Costed
<1>7. Share(e, r, reversals[e], delivery[e], CostedOn(e))
        <= Share(e, entry[e], reversals[e], delivery[e], CostedOn(e))
  <2>1. /\ Share(e, entry[e], reversals[e], delivery[e], CostedOn(e))
             = Unsigned(e, reversals[e]) + WaitingShare(e, entry[e])
        /\ Share(e, r, reversals[e], delivery[e], CostedOn(e))
             = Unsigned(e, reversals[e]) + WaitingShare(e, r)
        /\ Unsigned(e, reversals[e]) \in Int
    BY <1>1, <1>3, <1>4, <1>5, SignedLater
  <2>2. WaitingShare(e, r) <= WaitingShare(e, entry[e]) /\ WaitingShare(e, r) \in Int
        /\ WaitingShare(e, entry[e]) \in Int
    BY <1>1, FinanceAssumption DEF WaitingShare
  <2> QED BY <2>1, <2>2
<1>8. reversals' \in [Entries -> Nat] /\ DOMAIN delivery' = Entries
  BY <1>1 DEF Judged, RowsSound
<1>9. entry'[e] = r /\ \A o \in Entries \ {e} : entry'[o] = entry[o]
  BY <1>2, RowWritten DEF r
<1> HIDE DEF Share, CostedOn
<1> QED BY <1>1, <1>3, <1>4, <1>5, <1>6, <1>7, <1>8, <1>9, WrittenWeighed

\* A payment.
LEMMA PayWeighed ==
  ASSUME RowsTyped, Judged, ~Silent, NEW w \in Workers, NEW e \in Entries, EndPay(w, e)
  PROVE  Judged' /\ ~Silent'
<1> DEFINE c == Copy(w)
           r == [c EXCEPT !.status = "PAID"]
<1>1. /\ Doing(w, "pay", e) /\ Refused(w) /\ UNCHANGED <<inPlay, delivery, reversals>>
      /\ entry[e].status = c.status /\ c.status = "APPROVED"
      /\ c.linked => entry[e].linked
      /\ entry' = [entry EXCEPT ![e] = r]
  BY DEF EndPay, May, StillAsLoaded, books
<1>2. /\ CopyOf(c, entry[e]) /\ RowSound(entry[e]) /\ reversals[e] \in Nat /\ CostedOn(e) \in Nat
      /\ \A v \in Workers : work'[v] = work[v] \/ work'[v] = Idle
  BY <1>1, RequestIsSound
<1>3. r.status = "PAID" /\ r.over = c.over /\ r.linked = c.linked /\ RowSound(r)
  BY <1>2, CopyWithStatus DEF CopyOf
<1> HIDE DEF r, c
<1>4. Follows(entry[e], r)
  BY <1>1, <1>2, <1>3 DEF Follows, CopyOf, Costed
<1>5. entry[e].linked => r.linked
  BY <1>1, <1>2, <1>3 DEF CopyOf, Costed
<1>6. Share(e, r, reversals[e], delivery[e], CostedOn(e))
        <= Share(e, entry[e], reversals[e], delivery[e], CostedOn(e))
  BY <1>1, <1>2, <1>3, <1>5, PaidShare
<1>7. reversals' \in [Entries -> Nat] /\ DOMAIN delivery' = Entries
  BY <1>1 DEF Judged, RowsSound
<1>8. r.status \in Costed <=> entry[e].status \in Costed
  BY <1>1, <1>3 DEF Costed
<1>9. entry'[e] = r /\ \A o \in Entries \ {e} : entry'[o] = entry[o]
  BY <1>1, RowWritten
<1> HIDE DEF Share, CostedOn
<1> QED BY <1>1, <1>2, <1>4, <1>6, <1>7, <1>8, <1>9, WrittenWeighed

\* A PATCH that puts nothing back, and a request that comes to nothing.
LEMMA EmptyWeighed ==
  ASSUME RowsTyped, Judged, ~Silent, NEW w \in Workers, NEW e \in Entries,
         Refuse(w, e) \/ (EndEdit(w, e) /\ overwritten' = {})
  PROVE  Judged' /\ ~Silent'
<1>1. Refused(w) /\ UNCHANGED <<inPlay, delivery, reversals>>
  BY DEF Refuse, EndEdit, books
<1>2. \A o \in Entries : entry'[o] = entry[o]
  <2>1. CASE Refuse(w, e)
    BY <2>1 DEF Refuse
  <2>2. CASE EndEdit(w, e) /\ overwritten' = {}
    <3>1. entry[e] = Copy(w) /\ entry' = [entry EXCEPT ![e] = Copy(w)]
      BY <2>2 DEF EndEdit
    <3> QED BY <3>1, RowWritten
  <2> QED BY <2>1, <2>2
<1>3. \A v \in Workers : work'[v] = work[v] \/ work'[v] = Idle
  BY <1>1, EndsRequest
<1> QED BY <1>1, <1>2, <1>3, NothingWritten

\* An expense is reversed.
LEMMA ReverseExpenseWeighed ==
  ASSUME RowsTyped, Judged, ~Silent, NEW w \in Workers, NEW e \in Entries,
         EndReverseExpense(w, e)
  PROVE  Judged' /\ ~Silent'
<1>1. /\ Doing(w, "reverse", e) /\ Refused(w) /\ UNCHANGED <<inPlay, entry, delivery>>
      /\ reversals' = [reversals EXCEPT ![e] = @ + 1]
  BY DEF EndReverseExpense
<1>2. /\ RowSound(entry[e]) /\ reversals[e] \in Nat /\ CostedOn(e) \in Nat
      /\ \A v \in Workers : work'[v] = work[v] \/ work'[v] = Idle
  BY <1>1, RequestIsSound
<1>3. /\ reversals' \in [Entries -> Nat] /\ DOMAIN delivery' = Entries
      /\ reversals'[e] = reversals[e] + 1
      /\ \A o \in Entries \ {e} : reversals'[o] = reversals[o]
  BY <1>1, <1>2 DEF Judged, RowsSound
<1>4. Share(e, entry[e], reversals'[e], delivery'[e], CostedOn(e))
        <= Share(e, entry[e], reversals[e], delivery[e], CostedOn(e))
  BY <1>1, <1>2, <1>3, ReversedShare
<1>5. entry'[e] = entry[e] /\ \A o \in Entries \ {e} : entry'[o] = entry[o]
  BY <1>1
<1>6. Follows(entry[e], entry[e])
  BY <1>2, FollowsItself
<1> HIDE DEF Share, CostedOn
<1> QED BY <1>1, <1>2, <1>3, <1>4, <1>5, <1>6, WrittenWeighed

\* A purchase is reversed.
LEMMA ReversePurchaseWeighed ==
  ASSUME RowsTyped, Judged, ~Silent, NEW w \in Workers, NEW e \in Entries,
         EndReversePurchase(w, e)
  PROVE  Judged' /\ ~Silent'
<1>1. PICK op : /\ op # "record" /\ Doing(w, op, e) /\ Refused(w) /\ inPlay' = inPlay
                /\ reversals' = [reversals EXCEPT ![e] = @ + 1]
  BY Zenon DEF EndReversePurchase
<1>9. \/ entry' = [entry EXCEPT ![e] = [entry[e] EXCEPT !.linked = FALSE]]
      \/ entry' = entry
  BY Zenon DEF EndReversePurchase
<1>8. delivery' = Deleted(e) \/ delivery' = delivery
  BY Zenon DEF EndReversePurchase
<1>2. /\ RowSound(entry[e]) /\ reversals[e] \in Nat /\ CostedOn(e) \in Nat
      /\ \A v \in Workers : work'[v] = work[v] \/ work'[v] = Idle
  BY <1>1, RequestIsSound
<1>3. PICK r : /\ entry'[e] = r /\ RowSound(r)
               /\ \A o \in Entries \ {e} : entry'[o] = entry[o]
               /\ r.status = entry[e].status /\ r.over = entry[e].over
               /\ r.returned = entry[e].returned
               /\ r.linked => entry[e].linked
  <2> DEFINE r == [entry[e] EXCEPT !.linked = FALSE]
  <2>1. CASE entry' = [entry EXCEPT ![e] = r]
    <3>2. /\ RowSound(r) /\ r.status = entry[e].status /\ r.over = entry[e].over
          /\ r.returned = entry[e].returned /\ r.linked = FALSE
      BY <1>2 DEF RowSound, Columns
    <3> HIDE DEF r
    <3>3. entry'[e] = r /\ \A o \in Entries \ {e} : entry'[o] = entry[o]
      BY <2>1, RowWritten
    <3> QED BY <3>2, <3>3
  <2>2. CASE entry' = entry
    BY <1>2, <2>2
  <2> QED BY <1>9, <2>1, <2>2
<1>4. /\ reversals' \in [Entries -> Nat] /\ DOMAIN delivery' = Entries
      /\ reversals'[e] = reversals[e] + 1
      /\ \A o \in Entries \ {e} : reversals'[o] = reversals[o] /\ delivery'[o] = delivery[o]
  BY <1>1, <1>2, <1>8 DEF Deleted, Judged, RowsSound
<1>5. Share(e, r, reversals'[e], delivery'[e], CostedOn(e))
        <= Share(e, entry[e], reversals[e], delivery[e], CostedOn(e))
  BY <1>2, <1>3, <1>4, ReversedShare
<1>6. Follows(entry[e], r)
  BY <1>3 DEF Follows
<1>7. r.status \in Costed <=> entry[e].status \in Costed
  BY <1>3
<1> HIDE DEF Share, CostedOn
<1> QED BY <1>1, <1>2, <1>3, <1>4, <1>5, <1>6, <1>7, WrittenWeighed

\* Goods come in.
LEMMA DeliveryWeighed ==
  ASSUME RowsTyped, Judged, ~Silent, NEW e \in Entries, PostDelivery(e)
  PROVE  Judged' /\ ~Silent'
<1>1. /\ delivery[e] = "draft" /\ delivery' = [delivery EXCEPT ![e] = "posted"]
      /\ UNCHANGED <<inPlay, entry, reversals, work>>
  BY DEF PostDelivery
<1>2. RowSound(entry[e]) /\ reversals[e] \in Nat /\ CostedOn(e) \in Nat
  BY SpentIsNat DEF Judged, RowsSound
<1>3. /\ reversals' \in [Entries -> Nat] /\ DOMAIN delivery' = Entries /\ delivery'[e] = "posted"
      /\ \A o \in Entries \ {e} : delivery'[o] = delivery[o]
  BY <1>1 DEF Judged, RowsSound
<1>4. Share(e, entry[e], reversals'[e], delivery'[e], CostedOn(e))
        <= Share(e, entry[e], reversals[e], delivery[e], CostedOn(e))
  BY <1>1, <1>2, <1>3, PostedShare
<1>5. entry'[e] = entry[e] /\ \A o \in Entries \ {e} : entry'[o] = entry[o]
  BY <1>1
<1>6. Follows(entry[e], entry[e])
  BY <1>2, FollowsItself
<1> HIDE DEF Share, CostedOn
<1> QED BY <1>1, <1>3, <1>4, <1>5, <1>6, WrittenWeighed

\* A float is closed.
LEMMA CloseWeighed ==
  ASSUME RowsTyped, Judged, ~Silent, NEW e \in Entries, NEW back \in 0 .. Amount[e],
         CloseFloat(e, back)
  PROVE  Judged' /\ ~Silent'
<1> DEFINE r == [entry[e] EXCEPT !.closed = TRUE, !.returned = back]
<1>1. /\ ~entry[e].closed /\ entry' = [entry EXCEPT ![e] = r]
      /\ UNCHANGED <<inPlay, delivery, reversals, work>>
  BY DEF CloseFloat, books
<1>2. RowSound(entry[e]) /\ reversals[e] \in Nat /\ CostedOn(e) \in Nat
  BY SpentIsNat DEF Judged, RowsSound
<1>3. /\ r.status = entry[e].status /\ r.over = entry[e].over /\ r.linked = entry[e].linked
      /\ r.closed = TRUE /\ r.returned = back
      /\ Columns \subseteq DOMAIN r
  BY <1>2 DEF RowSound, Columns
<1>4. back \in Nat
  BY FinanceAssumption
<1> HIDE DEF r
<1>5. RowSound(r)
  BY <1>3, <1>4 DEF RowSound
<1>6. Follows(entry[e], r)
  BY <1>3, <1>5 DEF Follows
<1>7. Share(e, r, reversals[e], delivery[e], CostedOn(e))
        <= Share(e, entry[e], reversals[e], delivery[e], CostedOn(e))
  <2>1. entry[e].returned = 0
    BY <1>1, <1>2 DEF RowSound
  <2> QED BY <1>2, <1>3, <1>5, <2>1, ClosedShare
<1>8. reversals' \in [Entries -> Nat] /\ DOMAIN delivery' = Entries
  BY <1>1 DEF Judged, RowsSound
<1>9. entry'[e] = r /\ \A o \in Entries \ {e} : entry'[o] = entry[o]
  BY <1>1, RowWritten
<1> HIDE DEF Share, CostedOn
<1> QED BY <1>1, <1>3, <1>6, <1>7, <1>8, <1>9, WrittenWeighed

-----------------------------------------------------------------------------
(* The last signature.                                                     *)

\* What a signature does to the books.
LEMMA ApproveWrites ==
  ASSUME RowsTyped, Judged, NEW w \in Workers, NEW e \in Entries, Approve(w, e)
  PROVE  \E r :
         /\ entry'[e] = r /\ \A o \in Entries \ {e} : entry'[o] = entry[o]
         /\ RowSound(r) /\ r.status = "APPROVED" /\ Follows(entry[e], r)
         /\ RowSound(entry[e]) /\ entry[e].status \in Pending /\ e \in inPlay
         /\ UNCHANGED <<inPlay, reversals>> /\ reversals \in [Entries -> Nat]
         /\ DOMAIN delivery' = Entries
         /\ \A o \in Entries \ {e} : delivery'[o] = delivery[o]
         /\ \A v \in Workers : work'[v] = work[v] \/ work'[v] = Idle
         /\ CostedOn(e) \in Nat
<1> DEFINE c == Copy(w)
           r == [c EXCEPT !.status = "APPROVED", !.linked = e \in IntoYard]
<1>1. /\ Doing(w, "decide", e) /\ Refused(w) /\ UNCHANGED <<inPlay, reversals>>
      /\ entry[e].status = c.status /\ c.status \in Pending
      /\ delivery' = [delivery EXCEPT ![e] = IF e \in IntoYard THEN "draft" ELSE @]
  BY DEF Approve, May, StillAsLoaded, books
<1>2. entry' = [entry EXCEPT ![e] = r]
  BY DEF Approve
<1>3. /\ CopyOf(c, entry[e]) /\ e \in inPlay /\ RowSound(entry[e])
      /\ \A v \in Workers : work'[v] = work[v] \/ work'[v] = Idle
      /\ CostedOn(e) \in Nat
  BY <1>1, RequestIsSound
<1>4. r.status = "APPROVED" /\ r.over = c.over /\ RowSound(r)
  <2> DEFINE l == e \in IntoYard
  <2>1. RowSound(c)
    BY <1>3 DEF CopyOf
  <2> HIDE DEF l, c
  <2>2. LET s == [c EXCEPT !.status = "APPROVED", !.linked = l] IN
        s.status = "APPROVED" /\ s.over = c.over /\ RowSound(s)
    BY <2>1 DEF RowSound, Columns
  <2> QED BY <2>2 DEF l, c
<1>5. entry'[e] = r /\ \A o \in Entries \ {e} : entry'[o] = entry[o]
  BY <1>2, RowWritten
<1> HIDE DEF r, c
<1>6. Follows(entry[e], r)
  BY <1>1, <1>3, <1>4 DEF Follows, CopyOf, Pending, Costed
<1>7. /\ DOMAIN delivery' = Entries
      /\ \A o \in Entries \ {e} : delivery'[o] = delivery[o]
      /\ reversals \in [Entries -> Nat]
  BY <1>1 DEF Judged, RowsSound
<1>8. entry[e].status \in Pending
  BY <1>1
<1> HIDE DEF CostedOn
<1>9. WITNESS r
<1> QED BY <1>1, <1>3, <1>4, <1>5, <1>6, <1>7, <1>8

\* What is signed and charged to no float was waiting, and counted already.
LEMMA ApproveFreeWeighed ==
  ASSUME RowsTyped, Judged, ~Silent, NEW w \in Workers, NEW e \in Entries, Approve(w, e),
         OnFloat[e] = NoFloat
  PROVE  Judged' /\ ~Silent'
<1>1. PICK r :
         /\ entry'[e] = r /\ \A o \in Entries \ {e} : entry'[o] = entry[o]
         /\ RowSound(r) /\ r.status = "APPROVED" /\ Follows(entry[e], r)
         /\ RowSound(entry[e]) /\ entry[e].status \in Pending /\ e \in inPlay
         /\ UNCHANGED <<inPlay, reversals>> /\ reversals \in [Entries -> Nat]
         /\ DOMAIN delivery' = Entries
         /\ \A o \in Entries \ {e} : delivery'[o] = delivery[o]
         /\ \A v \in Workers : work'[v] = work[v] \/ work'[v] = Idle
         /\ CostedOn(e) \in Nat
  BY ApproveWrites
<1>2. /\ Share(e, entry[e], reversals[e], delivery[e], CostedOn(e))
           = Unsigned(e, reversals[e]) + WaitingShare(e, entry[e])
      /\ Share(e, r, reversals[e], delivery'[e], CostedOn(e))
           <= Unsigned(e, reversals[e]) + Amount[e]
  BY <1>1, SignedLater DEF Pending, Costed
<1>3. WaitingShare(e, entry[e]) = Amount[e]
  BY <1>1 DEF WaitingShare
<1> HIDE DEF Share, CostedOn
<1>4. Share(e, r, reversals'[e], delivery'[e], CostedOn(e))
        <= Share(e, entry[e], reversals[e], delivery[e], CostedOn(e))
  BY <1>1, <1>2, <1>3
<1> QED BY <1>1, <1>4, WrittenWeighed

\* What is signed within its float is taken off what the float holds.
LEMMA ApproveFloatWeighed ==
  ASSUME RowsTyped, Judged, ~Silent, NEW w \in Workers, NEW e \in Entries, Approve(w, e),
         OnFloat[e] # NoFloat, ~BeyondFloat(e)
  PROVE  Judged' /\ ~Silent'
<1> DEFINE f == OnFloat[e]
<1>1. PICK r :
         /\ entry'[e] = r /\ \A o \in Entries \ {e} : entry'[o] = entry[o]
         /\ RowSound(r) /\ r.status = "APPROVED" /\ Follows(entry[e], r)
         /\ RowSound(entry[e]) /\ entry[e].status \in Pending /\ e \in inPlay
         /\ UNCHANGED <<inPlay, reversals>> /\ reversals \in [Entries -> Nat]
         /\ DOMAIN delivery' = Entries
         /\ \A o \in Entries \ {e} : delivery'[o] = delivery[o]
         /\ \A v \in Workers : work'[v] = work[v] \/ work'[v] = Idle
         /\ CostedOn(e) \in Nat
  BY ApproveWrites
<1>2. InPlay
  BY FinanceAssumption, FS_Subset DEF RowsTyped, InPlay
<1>3. f \in Entries /\ Kind[f] = "FLOAT" /\ Kind[e] = "EXPENSE" /\ f # e
  BY FinanceAssumption
<1>4. f \in inPlay /\ entry[f].status = "PAID" /\ RowSound(entry[f])
  BY <1>1, <1>3 DEF Judged, FloatsReady, RowsSound, Is, Pending
<1>5. Judged'
  <2>1. \A o \in Entries : Follows(entry[o], entry'[o])
    BY <1>1, FollowsItself DEF Judged, RowsSound
  <2> QED BY <1>1, <2>1, RowsFollow
<1>6. /\ CostedOn(f)' = CostedOn(f) + Amount[e]
      /\ \A g \in Entries \ {f} : CostedOn(g)' = CostedOn(g)
      /\ CostedOn(f) \in Nat /\ Amount[e] \in Nat
  <2>1. Spent(f)' = Spent(f) \cup {e} /\ e \notin Spent(f)
    <3>1. Is(e, Costed)' /\ ~Is(e, Costed) /\ \A o \in Entries \ {e} : Is(o, Costed)' <=> Is(o, Costed)
      BY <1>1 DEF Is, Costed, Pending
    <3> QED BY <3>1 DEF Spent, Charged
  <2>2. CostedOn(f) = SumFun(Amount, Spent(f)) /\ IsFiniteSet(Spent(f)) /\ CostedOn(f) \in Nat
    BY SpentIsNat
  <2>3. CostedOn(f)' = SumFun(Amount, Spent(f)')
    BY SpentIsSumNext
  <2>4. \A o \in Spent(f) \cup {e} : Amount[o] \in Int
    BY FinanceAssumption DEF Spent, Charged
  <2>5. Amount[e] \in Nat
    BY FinanceAssumption
  <2>6. \A g \in Entries \ {f} : CostedOn(g)' = CostedOn(g)
    BY <1>1, SpentStays DEF Is
  <2> HIDE DEF CostedOn, Spent, f
  <2>7. SumFun(Amount, Spent(f) \cup {e}) = SumFun(Amount, Spent(f)) + Amount[e]
    BY <2>1, <2>2, <2>4, SumAdd
  <2> HIDE DEF SumFun
  <2> QED BY <2>1, <2>2, <2>3, <2>5, <2>6, <2>7
<1>7. CostedOn(f) + Amount[e] + entry[f].returned <= Amount[f]
  <2>1. ~(CostedOn(f) + Amount[e] + entry[f].returned > Amount[f])
    BY DEF BeyondFloat
  <2>2. entry[f].returned \in Nat /\ Amount[f] \in Nat
    BY <1>3, <1>4, FinanceAssumption DEF RowSound
  <2> HIDE DEF CostedOn, f
  <2> QED BY <1>6, <2>1, <2>2
<1>8. \A o \in inPlay : Shares[o] = Share(o, entry[o], reversals[o], delivery[o], CostedOn(o))
  BY DEF Shares
<1>9. \A o \in inPlay : Shares'[o] = Share(o, entry'[o], reversals'[o], delivery'[o], CostedOn(o)')
  BY <1>1 DEF Shares
<1>10. Shares'[f] = Shares[f] - Amount[e]
  <2>1. reversals[f] \in Nat
    BY <1>1, <1>3
  <2>2. Share(f, entry[f], reversals[f], delivery[f], CostedOn(f) + Amount[e])
          = Share(f, entry[f], reversals[f], delivery[f], CostedOn(f)) - Amount[e]
    BY <1>3, <1>4, <1>6, <1>7, <2>1, SpendingShare
  <2>3. entry'[f] = entry[f] /\ reversals'[f] = reversals[f] /\ delivery'[f] = delivery[f]
    BY <1>1, <1>3
  <2> HIDE DEF Shares, Share, CostedOn, f
  <2> QED BY <1>4, <1>6, <1>8, <1>9, <2>2, <2>3
<1>11. \A o \in inPlay : Shares'[o] \in Int /\ Shares[o] \in Int
  <2>1. \A o \in inPlay : Shares[o] \in Int
    BY <1>2, PositionTyped DEF Judged
  <2>2. \A o \in inPlay : Shares'[o] \in Int
    BY <1>1, <1>2, <1>5, PositionTypedNext DEF InPlay, Judged
  <2> QED BY <2>1, <2>2
<1>12. Shares'[e] <= Shares[e] + Amount[e]
  <2>1. /\ Share(e, entry[e], reversals[e], delivery[e], CostedOn(e))
             = Unsigned(e, reversals[e]) + WaitingShare(e, entry[e])
        /\ Share(e, r, reversals[e], delivery'[e], CostedOn(e))
             <= Unsigned(e, reversals[e]) + Amount[e]
        /\ Unsigned(e, reversals[e]) \in Int
    BY <1>1, SignedLater DEF Pending, Costed
  <2>2. WaitingShare(e, entry[e]) = 0
    BY DEF WaitingShare
  <2> HIDE DEF Shares, Share, CostedOn, f
  <2> QED BY <1>1, <1>3, <1>6, <1>8, <1>9, <2>1, <2>2
<1>13. \A o \in inPlay \ {e, f} : Shares'[o] = Shares[o]
  <2> HIDE DEF Shares, Share, CostedOn, f
  <2> QED BY <1>1, <1>2, <1>6, <1>8, <1>9 DEF InPlay
<1>14. SumFun(Shares', inPlay) <= SumFun(Shares, inPlay)
  <2> DEFINE g == Shares
             h == Shares'
  <2>1. /\ \A o \in inPlay : g[o] \in Int /\ h[o] \in Int
        /\ \A o \in inPlay \ {e, f} : h[o] = g[o]
        /\ h[f] = g[f] - Amount[e] /\ h[e] <= g[e] + Amount[e]
    BY <1>10, <1>11, <1>12, <1>13
  <2> HIDE DEF g, h, f
  <2>2. SumFun(h, inPlay) = SumFun(g, inPlay) + h[e] - g[e] + h[f] - g[f]
    BY <1>1, <1>2, <1>3, <1>4, <2>1, SumTwoChange DEF InPlay
  <2>3. SumFun(g, inPlay) \in Int
    BY <1>2, <2>1, SumInt DEF InPlay
  <2> HIDE DEF SumFun
  <2>4. SumFun(h, inPlay) <= SumFun(g, inPlay)
    BY <1>1, <1>4, <1>6, <2>1, <2>2, <2>3
  <2> QED BY <2>4 DEF g, h
<1>15. \A o \in inPlay : entry[o].over => entry'[o].over
  BY <1>1, <1>2 DEF InPlay, Follows
<1> HIDE DEF Shares, SumFun, f
<1> QED BY <1>1, <1>2, <1>5, <1>14, <1>15, PositionFalls DEF Judged

-----------------------------------------------------------------------------
(* An entry is recorded.                                                   *)

\* What a recording does to the books.
LEMMA RecordWrites ==
  ASSUME RowsTyped, Judged, NEW w \in Workers, NEW e \in Entries, EndRecord(w, e),
         Is(e, {"NONE"})
  PROVE  \E r :
         /\ entry'[e] = r /\ \A o \in Entries \ {e} : entry'[o] = entry[o]
         /\ RowSound(r) /\ r.status \in Pending /\ (r.over <=> work[w].over)
         /\ RowSound(entry[e]) /\ entry[e].status = "NONE" /\ ~entry[e].over /\ e \in inPlay
         /\ Recording(w, e) /\ Refused(w)
         /\ UNCHANGED <<inPlay, delivery, reversals>> /\ reversals[e] \in Nat
         /\ CostedOn(e) \in Nat
<1> DEFINE r == [entry[e] EXCEPT !.status = FirstStatus(e), !.over = work[w].over]
<1>1. /\ Recording(w, e) /\ Refused(w) /\ UNCHANGED <<inPlay, delivery, reversals>>
      /\ e \in inPlay
  BY DEF EndRecord, Recording, Doing, RowsTyped, books
<1>2. entry' = [entry EXCEPT ![e] = r]
  BY DEF EndRecord
<1>3. entry'[e] = r /\ \A o \in Entries \ {e} : entry'[o] = entry[o]
  BY <1>2, RowWritten
<1>4. /\ RowSound(entry[e]) /\ entry[e].status = "NONE" /\ ~entry[e].over
      /\ reversals[e] \in Nat
  BY DEF Judged, RowsSound, Is
<1>5. r.status \in Pending /\ (r.over <=> work[w].over) /\ RowSound(r)
  <2>1. FirstStatus(e) \in Pending
    BY FirstStatusPends
  <2>2. r.status = FirstStatus(e) /\ r.over = work[w].over /\ RowSound(r)
    BY <1>4 DEF RowSound, Columns
  <2> HIDE DEF r
  <2> QED BY <2>1, <2>2
<1>6. CostedOn(e) \in Nat
  BY SpentIsNat
<1> HIDE DEF r, CostedOn
<1>7. WITNESS r
<1> QED BY <1>1, <1>3, <1>4, <1>5, <1>6

\* What is judged goes on being judged.
LEMMA RecordJudged ==
  ASSUME RowsTyped, Judged, NEW w \in Workers, NEW e \in Entries, EndRecord(w, e),
         Is(e, {"NONE"})
  PROVE  Judged'
<1>1. PICK r :
         /\ entry'[e] = r /\ \A o \in Entries \ {e} : entry'[o] = entry[o]
         /\ RowSound(r) /\ r.status \in Pending /\ (r.over <=> work[w].over)
         /\ RowSound(entry[e]) /\ entry[e].status = "NONE" /\ ~entry[e].over /\ e \in inPlay
         /\ Recording(w, e) /\ Refused(w)
         /\ UNCHANGED <<inPlay, delivery, reversals>> /\ reversals[e] \in Nat
         /\ CostedOn(e) \in Nat
  BY RecordWrites
<1>2. work'[w] = Idle /\ \A v \in Workers \ {w} : work'[v] = work[v]
  BY <1>1, EndsRequest
<1>3. RowsSound'
  <2>1. e \in Entries /\ entry'[e].status # "NONE"
    BY <1>1 DEF Pending
  <2> QED BY <1>1, <2>1 DEF Judged, RowsSound, Is
<1>4. CopiesSound'
  <2> SUFFICES ASSUME NEW v \in Workers, work'[v] # Idle, work'[v].op # "record"
               PROVE  CopyOf(work'[v].copy, entry'[work'[v].entry])
    BY DEF CopiesSound
  <2>1. work'[v] = work[v]
    BY <1>2
  <2>2. CopyOf(work[v].copy, entry[work[v].entry]) /\ work[v].entry \in Entries
    BY <2>1 DEF Judged, CopiesSound, RowsTyped
  <2>3. work[v].entry # e
    BY <1>1, <2>2 DEF CopyOf
  <2> QED BY <1>1, <2>1, <2>2, <2>3
<1>5. \A v \in Workers, o \in Entries : Recording(v, o)' => Recording(v, o) /\ work'[v] = work[v]
  BY <1>2 DEF Recording, Doing
<1>6. RecordingsJudged'
  BY <1>5 DEF Judged, RecordingsJudged
<1>7. FloatsReady'
  <2> SUFFICES ASSUME NEW o \in Entries, OnFloat[o] # NoFloat,
                      ~Is(o, {"NONE"})' \/ \E v \in Workers : Recording(v, o)'
               PROVE  OnFloat[o] \in inPlay' /\ Is(OnFloat[o], {"PAID"})'
    BY DEF FloatsReady
  <2>1. ~Is(o, {"NONE"}) \/ \E v \in Workers : Recording(v, o)
    BY <1>1, <1>5 DEF Is
  <2>2. OnFloat[o] \in inPlay /\ entry[OnFloat[o]].status = "PAID" /\ OnFloat[o] \in Entries
    BY <2>1, FinanceAssumption DEF Judged, FloatsReady, Is
  <2>3. OnFloat[o] # e
    BY <1>1, <2>2
  <2> QED BY <1>1, <2>2, <2>3 DEF Is
<1> QED BY <1>3, <1>4, <1>6, <1>7 DEF Judged

\* Judged by the position that still is, what is recorded is marked if it goes past the budget.
LEMMA RecordWeighed ==
  ASSUME RowsTyped, Judged, ~Silent, NEW w \in Workers, NEW e \in Entries, EndRecord(w, e),
         Is(e, {"NONE"}), work[w].position = Position
  PROVE  Judged' /\ ~Silent'
<1>1. PICK r :
         /\ entry'[e] = r /\ \A o \in Entries \ {e} : entry'[o] = entry[o]
         /\ RowSound(r) /\ r.status \in Pending /\ (r.over <=> work[w].over)
         /\ RowSound(entry[e]) /\ entry[e].status = "NONE" /\ ~entry[e].over /\ e \in inPlay
         /\ Recording(w, e) /\ Refused(w)
         /\ UNCHANGED <<inPlay, delivery, reversals>> /\ reversals[e] \in Nat
         /\ CostedOn(e) \in Nat
  BY RecordWrites
<1>2. Judged'
  BY RecordJudged
<1>3. InPlay
  BY FinanceAssumption, FS_Subset DEF RowsTyped, InPlay
<1>4. /\ Share(e, entry[e], reversals[e], delivery[e], CostedOn(e))
           = Unsigned(e, reversals[e]) + WaitingShare(e, entry[e])
      /\ Share(e, r, reversals[e], delivery[e], CostedOn(e))
           = Unsigned(e, reversals[e]) + WaitingShare(e, r)
      /\ Unsigned(e, reversals[e]) \in Int
  BY <1>1, SignedLater DEF Pending, Costed
<1>5. /\ WaitingShare(e, entry[e]) = 0
      /\ WaitingShare(e, r) = IF OnFloat[e] = NoFloat THEN Amount[e] ELSE 0
      /\ Amount[e] \in Nat
  BY <1>1, FinanceAssumption DEF WaitingShare, Pending
<1>6. CASE OnFloat[e] # NoFloat
  <2> HIDE DEF Share, CostedOn
  <2>1. Share(e, r, reversals[e], delivery[e], CostedOn(e))
          <= Share(e, entry[e], reversals[e], delivery[e], CostedOn(e))
    BY <1>4, <1>5, <1>6
  <2>2. ~Is(e, Costed)' /\ ~Is(e, Costed)
    BY <1>1 DEF Is, Pending, Costed
  <2> QED BY <1>1, <1>2, <1>3, <2>1, <2>2, OneShareFalls DEF Judged
<1>7. CASE OnFloat[e] = NoFloat
  <2>1. work[w].over <=> Position + Amount[e] > Budget
    BY <1>1, <1>7 DEF Judged, RecordingsJudged
  <2>2. CASE Position + Amount[e] > Budget
    BY <1>1, <1>2, <2>1, <2>2 DEF Silent
  <2>3. CASE ~(Position + Amount[e] > Budget)
    <3>1. \A o \in Entries : CostedOn(o)' = CostedOn(o)
      <4>1. \A o \in Entries : Is(o, Costed)' <=> Is(o, Costed)
        BY <1>1 DEF Is, Pending, Costed
      <4> QED BY <4>1, SpentStays
    <3>2. /\ Position = SumFun(Shares, inPlay) /\ Position \in Int
          /\ \A o \in inPlay : Shares[o] \in Int
      BY <1>3, PositionTyped DEF Judged
    <3>3. /\ Position' = SumFun(Shares', inPlay)
          /\ \A o \in inPlay : Shares'[o] \in Int
      BY <1>1, <1>2, <1>3, PositionTypedNext DEF InPlay, Judged
    <3>4. \A o \in inPlay : Shares[o] = Share(o, entry[o], reversals[o], delivery[o], CostedOn(o))
      BY DEF Shares
    <3>5. \A o \in inPlay : Shares'[o] = Share(o, entry'[o], reversals'[o], delivery'[o], CostedOn(o)')
      BY <1>1 DEF Shares
    <3> HIDE DEF Position, Shares, Share, CostedOn, SumFun
    <3>6. \A o \in inPlay \ {e} : Shares'[o] = Shares[o]
      BY <1>1, <1>3, <3>1, <3>4, <3>5 DEF InPlay
    <3>7. Shares'[e] = Shares[e] + Amount[e]
      BY <1>1, <1>4, <1>5, <1>7, <3>1, <3>4, <3>5
    <3>8. SumFun(Shares', inPlay) = SumFun(Shares, inPlay) + Amount[e]
      <4> DEFINE g == Shares
                 h == Shares'
      <4>1. /\ \A o \in inPlay : g[o] \in Int /\ h[o] \in Int
            /\ \A o \in inPlay \ {e} : h[o] = g[o]
            /\ h[e] = g[e] + Amount[e]
        BY <3>2, <3>3, <3>6, <3>7
      <4> HIDE DEF g, h
      <4>2. SumFun(h, inPlay) = SumFun(g, inPlay) + h[e] - g[e]
        BY <1>1, <1>3, <4>1, SumChange DEF InPlay
      <4>3. SumFun(g, inPlay) \in Int
        BY <3>2 DEF g
      <4>4. SumFun(h, inPlay) = SumFun(g, inPlay) + Amount[e]
        BY <1>1, <1>5, <4>1, <4>2, <4>3
      <4> QED BY <4>4 DEF g, h
    <3>9. ~(Position' > Budget)
      BY <2>3, <3>2, <3>3, <3>8
    <3> QED BY <1>2, <3>9 DEF Silent
  <2> QED BY <2>2, <2>3
<1> QED BY <1>6, <1>7

-----------------------------------------------------------------------------
(* Every step.                                                             *)

\* A request begun on an entry that is there.
LEMMA LoadWeighed ==
  ASSUME RowsTyped, Judged, ~Silent, NEW w \in Workers, NEW e \in Entries,
         \/ BeginDecide(w, e) \/ BeginEdit(w, e) \/ BeginResubmit(w, e)
         \/ BeginPay(w, e) \/ BeginReverse(w, e)
  PROVE  Judged' /\ ~Silent'
<1>1. PICK op : op # "record" /\ Load(w, op, e)
  BY DEF BeginDecide, BeginEdit, BeginResubmit, BeginPay, BeginReverse
<1>2. entry[e].status # "NONE"
  BY DEF BeginDecide, BeginEdit, BeginResubmit, BeginPay, BeginReverse, Is, Pending, Costed
<1> DEFINE job == [op |-> op, entry |-> e, copy |-> entry[e]]
<1>3. Start(w, job) /\ UNCHANGED <<inPlay, entry, delivery, reversals>>
  BY <1>1 DEF Load, books
<1>4. job.op # "record" /\ job.entry = e /\ job.copy = entry[e]
  BY <1>1
<1> HIDE DEF job
<1> QED BY <1>2, <1>3, <1>4, BegunWeighed

\* A purchase's row is locked, and read again.
LEMMA LockWeighed ==
  ASSUME RowsTyped, Judged, ~Silent, NEW w \in Workers, NEW e \in Entries, LockPurchase(w, e)
  PROVE  Judged' /\ ~Silent'
<1>1. PICK op : op # "record" /\
         Start(w, [op |-> op, entry |-> e, copy |-> entry[e], found |-> delivery[e]])
  BY Zenon DEF LockPurchase
<1> DEFINE job == [op |-> op, entry |-> e, copy |-> entry[e], found |-> delivery[e]]
<1>2. Start(w, job) /\ job.op # "record" /\ job.entry = e /\ job.copy = entry[e]
  BY <1>1
<1>3. Doing(w, "reverse", e) /\ UNCHANGED <<inPlay, entry, delivery, reversals>>
  BY Zenon DEF LockPurchase, books
<1>4. entry[e].status # "NONE"
  BY <1>3 DEF Judged, CopiesSound, CopyOf, Doing
<1> HIDE DEF job
<1> QED BY <1>2, <1>3, <1>4, BegunWeighed

\* What came in by a side door is not forgotten.
LEMMA HistoryGrows ==
  [Next]_vars => unweighed \subseteq unweighed' /\ overwritten \subseteq overwritten'
<1> SUFFICES ASSUME [Next]_vars
             PROVE  unweighed \subseteq unweighed' /\ overwritten \subseteq overwritten'
  OBVIOUS
<1>1. CASE UNCHANGED vars
  BY <1>1 DEF vars
<1>2. ASSUME NEW w \in Workers, NEW e \in Entries,
             \/ BeginDecide(w, e) \/ BeginEdit(w, e) \/ BeginResubmit(w, e)
             \/ BeginPay(w, e) \/ BeginReverse(w, e)
      PROVE  unweighed \subseteq unweighed' /\ overwritten \subseteq overwritten'
  BY <1>2 DEF BeginDecide, BeginEdit, BeginResubmit, BeginPay, BeginReverse, Load, history
<1>3. ASSUME NEW w \in Workers, NEW e \in Entries,
             \/ BeginRecord(w, e) \/ EndRecord(w, e)
             \/ Reject(w, e) \/ PassToFinance(w, e) \/ Approve(w, e)
             \/ EndEdit(w, e) \/ EndResubmit(w, e) \/ EndPay(w, e)
             \/ EndReverseExpense(w, e) \/ Refuse(w, e)
      PROVE  unweighed \subseteq unweighed' /\ overwritten \subseteq overwritten'
  <2>1. unweighed' \in {unweighed, unweighed \cup {e}} /\ overwritten' \in {overwritten, overwritten \cup {e}}
    BY <1>3 DEF BeginRecord, EndRecord, Reject, PassToFinance, Approve, EndEdit, EndResubmit, EndPay,
                EndReverseExpense, Refuse, history
  <2> QED BY <2>1
<1>4. ASSUME NEW w \in Workers, NEW e \in Entries, LockPurchase(w, e) \/ EndReversePurchase(w, e)
      PROVE  unweighed \subseteq unweighed' /\ overwritten \subseteq overwritten'
  <2>1. UNCHANGED history
    BY Zenon, <1>4 DEF LockPurchase, EndReversePurchase
  <2> QED BY <2>1 DEF history
<1>5. ASSUME NEW e \in Entries,
             \/ PostDelivery(e) \/ VoidDelivery(e)
             \/ \E back \in 0 .. Amount[e] : CloseFloat(e, back)
      PROVE  unweighed \subseteq unweighed' /\ overwritten \subseteq overwritten'
  BY <1>5 DEF PostDelivery, VoidDelivery, CloseFloat, history
<1> QED BY Zenon, <1>1, <1>2, <1>3, <1>4, <1>5 DEF Next

\* Nothing has been recorded.
LEMMA BudgetInit == Init => BudgetInv
<1> SUFFICES ASSUME Init PROVE BudgetInv
  OBVIOUS
<1>1. RowsSound
  BY FinanceAssumption DEF Init, RowsSound, RowSound, Columns, Is
<1>2. CopiesSound /\ RecordingsJudged
  BY DEF Init, CopiesSound, RecordingsJudged, Recording, Doing
<1>3. FloatsReady
  BY DEF Init, FloatsReady, Recording, Doing, Is
<1>4. InPlay
  BY FinanceAssumption, FS_Subset DEF Init, InPlay
<1>5. \A o \in inPlay : Shares[o] = 0
  <2> SUFFICES ASSUME NEW o \in inPlay PROVE Shares[o] = 0
    OBVIOUS
  <2>1. /\ o \in Entries /\ entry[o].status = "NONE" /\ RowSound(entry[o])
        /\ reversals[o] = 0
    BY <1>1, <1>4 DEF Init, InPlay, RowsSound
  <2>2. CostedOn(o) \in Nat
    BY SpentIsNat
  <2>3. Share(o, entry[o], 0, delivery[o], CostedOn(o)) = Unsigned(o, 0) + WaitingShare(o, entry[o])
    BY <2>1, <2>2, SignedLater DEF Costed
  <2>4. Unsigned(o, 0) = 0 /\ WaitingShare(o, entry[o]) = 0
    BY <2>1, FinanceAssumption DEF Unsigned, WaitingShare, Pending
  <2>5. Shares[o] = Share(o, entry[o], reversals[o], delivery[o], CostedOn(o))
    BY DEF Shares
  <2> HIDE DEF Shares, Share, CostedOn
  <2> QED BY <2>1, <2>3, <2>4, <2>5
<1>6. Position = SumFun(Shares, inPlay)
  BY <1>1, <1>4, PositionTyped
<1> HIDE DEF Shares, Position
<1>7. Position = 0
  BY <1>4, <1>5, <1>6, SumZero DEF InPlay
<1>8. ~Silent
  BY <1>7, FinanceAssumption DEF Silent
<1> QED BY <1>1, <1>2, <1>3, <1>8 DEF BudgetInv, Weighed

\* Every step keeps it.
LEMMA BudgetNext == IInv /\ AnswersInv /\ BudgetInv /\ [Next]_vars => BudgetInv'
<1> SUFFICES ASSUME RowsTyped, AnswersInv, BudgetInv, [Next]_vars PROVE BudgetInv'
  BY DEF IInv
<1>1. CASE unweighed \cup overwritten # {}
  BY <1>1, HistoryGrows DEF BudgetInv
<1>2. CASE (unweighed \cup overwritten)' # {}
  BY <1>2 DEF BudgetInv
<1>3. CASE /\ unweighed = {} /\ overwritten = {} /\ unweighed' = {} /\ overwritten' = {}
  <2>1. Judged /\ ~Silent
    BY <1>3 DEF BudgetInv, Weighed, Judged
  <2>2. ASSUME UNCHANGED vars PROVE Judged' /\ ~Silent'
    BY <2>1, <2>2, NothingWritten DEF vars
  <2>3. ASSUME NEW w \in Workers, NEW e \in Entries,
               \/ BeginDecide(w, e) \/ BeginEdit(w, e) \/ BeginResubmit(w, e)
               \/ BeginPay(w, e) \/ BeginReverse(w, e)
        PROVE  Judged' /\ ~Silent'
    BY <2>1, <2>3, LoadWeighed
  <2>4. ASSUME NEW w \in Workers, NEW e \in Entries,
               \/ BeginRecord(w, e) \/ Reject(w, e) \/ PassToFinance(w, e)
               \/ EndEdit(w, e) \/ EndPay(w, e)
               \/ EndReverseExpense(w, e) \/ LockPurchase(w, e) \/ EndReversePurchase(w, e)
               \/ Refuse(w, e)
        PROVE  Judged' /\ ~Silent'
    BY Zenon, <1>3, <2>1, <2>4, BeginRecordWeighed, AnswerWeighed, EmptyWeighed, PayWeighed,
       ReverseExpenseWeighed, LockWeighed, ReversePurchaseWeighed
  <2>5. ASSUME NEW w \in Workers, NEW e \in Entries, Approve(w, e)
        PROVE  Judged' /\ ~Silent'
    <3>1. OnFloat[e] = NoFloat \/ ~BeyondFloat(e)
      BY <1>3, <2>5 DEF Approve
    <3> QED BY <2>1, <2>5, <3>1, ApproveFreeWeighed, ApproveFloatWeighed
  <2>6. ASSUME NEW w \in Workers, NEW e \in Entries, EndRecord(w, e)
        PROVE  Judged' /\ ~Silent'
    <3>1. work[w].position = Position
      BY <1>3, <2>6 DEF EndRecord
    <3>2. Is(e, {"NONE"})
      <4>1. Recording(w, e) /\ e \in inPlay
        BY <2>6 DEF EndRecord, Recording, Doing, RowsTyped
      <4> QED BY <1>3, <4>1 DEF AnswersInv, Told, RecordedOnce
    <3> QED BY <2>1, <2>6, <3>1, <3>2, RecordWeighed
  <2>7. ASSUME NEW w \in Workers, NEW e \in Entries, EndResubmit(w, e)
        PROVE  FALSE
    BY <1>3, <2>7 DEF EndResubmit
  <2>8. ASSUME NEW e \in Entries, VoidDelivery(e)
        PROVE  FALSE
    BY <1>3, <2>8 DEF VoidDelivery
  <2>9. ASSUME NEW e \in Entries, PostDelivery(e) \/ \E back \in 0 .. Amount[e] : CloseFloat(e, back)
        PROVE  Judged' /\ ~Silent'
    BY <2>1, <2>9, DeliveryWeighed, CloseWeighed
  <2>10. ASSUME NEW w \in Workers, NEW e \in Entries,
                \/ BeginRecord(w, e) \/ EndRecord(w, e)
                \/ BeginDecide(w, e) \/ Reject(w, e) \/ PassToFinance(w, e) \/ Approve(w, e)
                \/ BeginEdit(w, e) \/ EndEdit(w, e)
                \/ BeginResubmit(w, e) \/ EndResubmit(w, e)
                \/ BeginPay(w, e) \/ EndPay(w, e)
                \/ BeginReverse(w, e) \/ EndReverseExpense(w, e)
                \/ LockPurchase(w, e) \/ EndReversePurchase(w, e)
                \/ Refuse(w, e)
         PROVE  Judged' /\ ~Silent'
    BY Zenon, <2>3, <2>4, <2>5, <2>6, <2>7, <2>10
  <2>11. ASSUME NEW e \in Entries,
                \/ PostDelivery(e) \/ VoidDelivery(e)
                \/ \E back \in 0 .. Amount[e] : CloseFloat(e, back)
         PROVE  Judged' /\ ~Silent'
    BY Zenon, <2>8, <2>9, <2>11
  <2>12. Judged' /\ ~Silent'
    BY <2>2, <2>10, <2>11 DEF Next
  <2> QED BY <2>12 DEF BudgetInv, Weighed, Judged
<1> QED BY <1>1, <1>2, <1>3

\* For any entries, amounts, floats, budget and workers a project is past its budget with
\* nothing marked only by one of the side doors (over_budget_check and budget_position in
\* commercials/finance.py).
THEOREM NeverOverInSilence == Spec => []SilentlyOverOnlyBySideDoors
<1>1. BudgetInv => SilentlyOverOnlyBySideDoors
  BY DEF BudgetInv, Weighed, SilentlyOverOnlyBySideDoors
<1> QED BY IInvInit, IInvNext, AnswersInit, AnswersInvNext, BudgetInit, BudgetNext, <1>1, PTL DEF Spec
=============================================================================
