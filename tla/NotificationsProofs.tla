------------------------ MODULE NotificationsProofs ------------------------
(***************************************************************************)
(* A message is taken at most once more often than something went wrong,   *)
(* and paid for exactly when it is recorded as sent, for any events,       *)
(* messages, workers, credits and bounds.                                  *)
(*                                                                         *)
(* The first is counted: a worker that has read a message and may still    *)
(* have the provider take it, or has had it refused, holds a token for it. *)
(* Sending turns the token into an acceptance; reading a message somebody  *)
(* else has in hand, losing an answer and dying before the commit each     *)
(* add to the doubt.  The second rests on the lock of the settings row:    *)
(* charges that are not committed yet are all of one worker.  So does the  *)
(* third, that the balance is the sum of the ledger but for what saves of  *)
(* the settings have put back: only who holds the row has written a        *)
(* balance, with the entries that explain it, and what an editor puts back *)
(* was once the balance, so no lower than overdrafts have taken it.        *)
(***************************************************************************)
EXTENDS Notifications, SumTheorems, SequenceTheorems

Statuses == {"NONE", "PENDING", "SENT", "SKIPPED", "FAILED", "ABANDONED"}
Row == [status : Statuses, attempts : Nat]
Ops == {"BUSINESS", "NEXT", "DISPATCH", "RETRY", "LINK"}
Fields == {"op", "queue", "todo", "rows", "made", "wrote", "taken"}

IsTxn(t) ==
    /\ DOMAIN t = Fields
    /\ t.op \in Ops
    /\ t.queue \in Seq(Events)
    /\ t.todo \in Seq([m : Messages, copy : Row])
    /\ DOMAIN t.rows \subseteq Messages /\ \A m \in DOMAIN t.rows : t.rows[m] \in Row
    /\ t.made \in [Accounts -> Int]
    /\ t.taken \in [Messages -> Nat]

Typed ==
    /\ event \in [Events -> {"NONE", "EMITTED", "DISPATCHED"}]
    /\ row \in [Messages -> Row]
    /\ entries \in [Accounts -> Int]
    /\ accepted \in [Accounts -> Nat]
    /\ doubt \in [Messages -> Nat]
    /\ DOMAIN txn = Workers
    /\ \A w \in Workers : txn[w] # Idle => IsTxn(txn[w])
    /\ left \in [events : SUBSET Events, topups : Nat, links : Nat, edits : Nat, deaths : Nat]

-----------------------------------------------------------------------------

\* w is yet to send m; w has a result of m that is not committed.
Holds(w, m) == txn[w] # Idle /\ \E k \in DOMAIN txn[w].todo : txn[w].todo[k].m = m
Wrote(w, m) == txn[w] # Idle /\ m \in DOMAIN txn[w].rows

\* A transaction has each message once, records what it has sent, and only that was taken.
OnceEach ==
    \A w \in Workers : txn[w] # Idle =>
       /\ \A j, k \in DOMAIN txn[w].todo : txn[w].todo[j].m = txn[w].todo[k].m => j = k
       /\ \A m \in Messages :
             /\ Holds(w, m) => ~Wrote(w, m)
             /\ IF Wrote(w, m) THEN txn[w].rows[m] # NoRow ELSE txn[w].taken[m] = 0

\* Whose messages a transaction has.
WhoseMessages ==
    \A w \in Workers : txn[w] # Idle =>
       \A m \in Messages : Holds(w, m) \/ Wrote(w, m) =>
          \/ txn[w].op = "RETRY" /\ row[m] # NoRow
          \/ txn[w].op = "DISPATCH" /\ Of[m] = Head(txn[w].queue) /\ row[m] = NoRow

\* An event is in the hands of one worker, once, and committed before it is dispatched.
Queued(w, e) == txn[w] # Idle /\ \E k \in DOMAIN txn[w].queue : txn[w].queue[k] = e

Queues ==
    /\ \A v, w \in Workers, e \in Events : Queued(v, e) /\ Queued(w, e) => v = w
    /\ \A w \in Workers : txn[w] # Idle =>
          /\ IsInjective(txn[w].queue)
          /\ txn[w].op \notin {"RETRY", "LINK"} => txn[w].queue # << >>
          /\ \A e \in Events : Queued(w, e) =>
                \/ txn[w].op = "BUSINESS" /\ event[e] = "NONE"
                \/ txn[w].op \in {"NEXT", "DISPATCH"} /\ event[e] # "NONE"

\* Nothing has been done for an event that is still to be dispatched.
Awaited(e) ==
    \/ event[e] = "NONE"
    \/ \E w \in Workers : /\ Queued(w, e)
                          /\ ~(txn[w].op = "DISPATCH" /\ e = Head(txn[w].queue))

Untouched ==
    \A m \in Messages : Awaited(Of[m]) =>
       /\ row[m] = NoRow /\ accepted[m] = 0
       /\ \A w \in Workers : ~Holds(w, m) /\ ~Wrote(w, m)

\* Who may still have m taken once more without a doubt about it.
Token(w, m) ==
    \/ Holds(w, m)
    \/ Wrote(w, m) /\ (txn[w].taken[m] = 0 \/ txn[w].rows[m].status = "PENDING")
Tokens(m) == {w \in Workers : Token(w, m)}

TokensCount == \A m \in Messages : accepted[m] + Cardinality(Tokens(m)) <= 1 + doubt[m]

\* What may be tried again, and is in nobody's hands, is in doubt if ever taken.
PendingIsDoubtful ==
    \A m \in Messages :
       row[m].status = "PENDING" /\ (\A w \in Workers : ~Holds(w, m) /\ ~Wrote(w, m))
       => accepted[m] <= doubt[m]

CountInv ==
    /\ Typed /\ OnceEach /\ WhoseMessages /\ Queues /\ Untouched
    /\ TokensCount /\ PendingIsDoubtful

-----------------------------------------------------------------------------

\* Charges not yet committed are of results not yet committed, under the lock.
ChargesUnderLock ==
    \A w \in Workers : txn[w] # Idle =>
       \A m \in Messages :
          /\ txn[w].made[m] <= 0
          /\ txn[w].made[m] # 0 => lock = w /\ Wrote(w, m)
          /\ (Wrote(w, m) /\ txn[w].rows[m].status = "SENT" /\ ChannelOf[m] = "sms")
                => txn[w].made[m] < 0
          /\ -entries[m] - txn[w].made[m] <= accepted[m]

PaidInv ==
    /\ ChargesUnderLock /\ PaidForWhatWasTaken
    /\ \A m \in Messages : entries[m] <= 0

IInv == CountInv /\ PaidInv

-----------------------------------------------------------------------------
(* Counting workers, and the sequences a transaction works through.        *)

\* Any set of workers can be counted; a part counts no more than the whole.
LEMMA WorkersCount ==
  ASSUME NEW T, T \subseteq Workers
  PROVE  /\ IsFiniteSet(T) /\ Cardinality(T) \in Nat
         /\ \A S \in SUBSET T : Cardinality(S) <= Cardinality(T)
<1>1. IsFiniteSet(T)
  BY NotificationAssumption, FS_Subset
<1> QED BY <1>1, FS_Subset, FS_CardinalityType

\* One worker more counts at most one more.
LEMMA OneMore ==
  ASSUME NEW T, T \subseteq Workers, NEW w \in Workers, NEW S, S \subseteq T \cup {w}
  PROVE  Cardinality(S) <= Cardinality(T) + 1
<1>1. Cardinality(S) <= Cardinality(T \cup {w})
  BY WorkersCount
<1>2. Cardinality(S) \in Nat /\ Cardinality(T) \in Nat /\ Cardinality(T \cup {w}) \in Nat
  BY WorkersCount
<1>3. IsFiniteSet(T)
  BY WorkersCount
<1>4. Cardinality(T \cup {w}) <= Cardinality(T) + 1
  <2>1. Cardinality(T \cup {w}) = IF w \in T THEN Cardinality(T) ELSE Cardinality(T) + 1
    BY <1>3, FS_AddElement
  <2> QED BY <1>2, <2>1
<1> QED BY <1>1, <1>2, <1>4

\* One worker less counts one less.
LEMMA OneLess ==
  ASSUME NEW T, T \subseteq Workers, NEW w \in T, NEW S, S \subseteq T \ {w}
  PROVE  Cardinality(S) + 1 <= Cardinality(T)
<1>1. Cardinality(S) <= Cardinality(T \ {w})
  BY WorkersCount
<1>2. Cardinality(S) \in Nat /\ Cardinality(T) \in Nat /\ Cardinality(T \ {w}) \in Nat
  BY WorkersCount
<1>3. IsFiniteSet(T)
  BY WorkersCount
<1>4. Cardinality(T \ {w}) = Cardinality(T) - 1
  BY <1>3, FS_RemoveElement
<1> QED BY <1>1, <1>2, <1>4

\* SetToSeq lists a finite set, each element once.
LEMMA ListsASet ==
  ASSUME NEW T, NEW S \in SUBSET T, IsFiniteSet(S)
  PROVE  /\ SetToSeq(S) \in Seq(T)
         /\ IsInjective(SetToSeq(S))
         /\ DOMAIN SetToSeq(S) = 1 .. Cardinality(S)
         /\ \A k \in DOMAIN SetToSeq(S) : SetToSeq(S)[k] \in S
         /\ S # {} => SetToSeq(S) # << >>
<1>1. Cardinality(S) \in Nat /\ ExistsBijection(1 .. Cardinality(S), S)
  BY FS_CardinalityType
<1>2. \E f \in [1 .. Cardinality(S) -> S] : IsInjective(f)
  BY <1>1 DEF ExistsBijection, Bijection, Injection, IsInjective
<1>3. SetToSeq(S) \in [1 .. Cardinality(S) -> S] /\ IsInjective(SetToSeq(S))
  BY <1>2 DEF SetToSeq
<1> DEFINE n == Cardinality(S)
           f == SetToSeq(S)
<1>4. f \in Seq(T)
  <2> HIDE DEF f, n
  <2>1. n \in Nat /\ f \in [1 .. n -> T]
    BY <1>1, <1>3 DEF f, n
  <2> QED BY <2>1, SeqDef
<1>5. S # {} => f # << >>
  <2> HIDE DEF f, n
  <2>1. S # {} => n # 0
    BY FS_EmptySet DEF n
  <2>2. n \in Nat /\ DOMAIN f = 1 .. n
    BY <1>1, <1>3 DEF f, n
  <2>3. S # {} => 1 \in DOMAIN f
    BY <2>1, <2>2
  <2> QED BY <2>3
<1> QED BY <1>3, <1>4, <1>5

\* A transaction begins as one, with nothing written, charged or taken.
Opened(t, op, queue, todo) ==
    /\ IsTxn(t) /\ t # Idle
    /\ t.op = op /\ t.queue = queue /\ t.todo = todo
    /\ DOMAIN t.rows = {} /\ t.made = Nothing
    /\ \A m \in Messages : t.taken[m] = 0

\* Open makes such a transaction.
LEMMA OpenTyped ==
  ASSUME NEW op \in Ops, NEW queue \in Seq(Events), NEW todo \in Seq([m : Messages, copy : Row])
  PROVE  Opened(Open(op, queue, todo), op, queue, todo)
<1> DEFINE t == Open(op, queue, todo)
<1>1. /\ DOMAIN t = Fields /\ t.op = op /\ t.queue = queue /\ t.todo = todo
      /\ t.rows = << >> /\ t.made = Nothing /\ t.taken = [m \in Messages |-> 0]
  BY DEF Open, Fields
<1>2. t # Idle
  <2>1. "op" \in DOMAIN t
    BY <1>1 DEF Fields
  <2>2. "op" \notin DOMAIN Idle
    BY DEF Idle
  <2> QED BY <2>1, <2>2
<1> HIDE DEF t
<1>3. DOMAIN t.rows = {}
  BY <1>1
<1>4. t.made \in [Accounts -> Int] /\ t.taken \in [Messages -> Nat]
  BY <1>1 DEF Nothing
<1>5. IsTxn(t)
  BY <1>1, <1>3, <1>4 DEF IsTxn
<1> QED BY <1>1, <1>2, <1>3, <1>5 DEF t, Opened

\* Contains looks through the queue.
LEMMA QueuedIsContains ==
  ASSUME Typed, NEW w \in Workers, txn[w] # Idle, NEW e
  PROVE  Contains(txn[w].queue, e) <=> Queued(w, e)
<1>1. DOMAIN txn[w].queue = 1 .. Len(txn[w].queue)
  BY LenProperties DEF Typed, IsTxn
<1> QED BY <1>1 DEF Contains, Queued

\* The constants, one fact at a time.
LEMMA OfTyped == \A m \in Messages : Of[m] \in Events
BY NotificationAssumption

\* The credits that are not of a message have accounts of their own.
LEMMA NamesApart ==
  /\ Messages \subseteq Accounts
  /\ "bought" \in Accounts \ Messages
  /\ "link" \in Accounts \ Messages
  /\ "overdraft" \in Accounts \ Messages
<1>1. "bought" \notin Messages /\ "link" \notin Messages /\ "overdraft" \notin Messages
  BY NotificationAssumption
<1> QED BY <1>1 DEF Accounts

\* A worker is never taken for the settings row being free.
LEMMA NobodyIsIdle == Idle \notin Workers
BY NotificationAssumption

\* All is well before anything has happened.
LEMMA IInvInit == Init => IInv
<1> SUFFICES ASSUME Init PROVE IInv
  OBVIOUS
<1>1. \A w \in Workers : txn[w] = Idle
  BY DEF Init
<1>2. Typed
  <2>1. entries \in [Accounts -> Int] /\ accepted \in [Accounts -> Nat]
    <3>1. Credit \in Nat
      BY NotificationAssumption
    <3>2. entries = [Nothing EXCEPT !["bought"] = Credit] /\ accepted = Nothing
      BY DEF Init
    <3>3. Nothing \in [Accounts -> Int] /\ Nothing \in [Accounts -> Nat] /\ Credit \in Int
      BY <3>1 DEF Nothing
    <3> QED BY <3>2, <3>3
  <2>2. NoRow \in Row
    BY DEF NoRow, Row, Statuses
  <2>3. left \in [events : SUBSET Events, topups : Nat, links : Nat, edits : Nat, deaths : Nat]
    BY NotificationAssumption DEF Init
  <2> QED BY <1>1, <2>1, <2>2, <2>3 DEF Init, Typed, Nothing
<1>3. \A w \in Workers, m \in Messages : ~Holds(w, m) /\ ~Wrote(w, m) /\ ~Token(w, m)
  BY <1>1 DEF Holds, Wrote, Token
<1>4. \A w \in Workers, e \in Events : ~Queued(w, e)
  BY <1>1 DEF Queued
<1>5. \A m \in Messages : row[m] = NoRow /\ accepted[m] = 0 /\ entries[m] = 0 /\ doubt[m] = 0
  BY NamesApart DEF Init, Nothing
<1>6. OnceEach /\ WhoseMessages
  BY <1>1 DEF OnceEach, WhoseMessages
<1>7. Queues /\ Untouched
  BY <1>1, <1>3, <1>4, <1>5 DEF Queues, Untouched
<1>8. TokensCount
  <2>1. \A m \in Messages : Tokens(m) = {}
    BY <1>3 DEF Tokens
  <2> QED BY <1>5, <2>1, FS_EmptySet DEF TokensCount
<1>9. PendingIsDoubtful
  BY <1>5 DEF PendingIsDoubtful
<1>10. PaidInv
  BY <1>1, <1>5 DEF PaidInv, ChargesUnderLock, PaidForWhatWasTaken, NoRow
<1> QED BY <1>2, <1>6, <1>7, <1>8, <1>9, <1>10 DEF IInv, CountInv

-----------------------------------------------------------------------------
(* What a step does to the messages in hand.                               *)

\* A worker that does nothing keeps what it has.
LEMMA OthersKeep ==
  ASSUME NEW v \in Workers, txn'[v] = txn[v]
  PROVE  /\ \A m \in Messages : /\ Holds(v, m)' <=> Holds(v, m)
                                /\ Wrote(v, m)' <=> Wrote(v, m)
                                /\ Token(v, m)' <=> Token(v, m)
         /\ \A e \in Events : Queued(v, e)' <=> Queued(v, e)
BY DEF Token, Holds, Wrote, Queued

\* Who is neither dispatching nor trying again has no messages.
LEMMA EmptyHanded ==
  ASSUME CountInv, NEW w \in Workers, txn[w] = Idle \/ txn[w].op \notin {"DISPATCH", "RETRY"}
  PROVE  \A m \in Messages : ~Holds(w, m) /\ ~Wrote(w, m)
BY DEF CountInv, WhoseMessages, Holds, Wrote

\* A transaction just opened with nothing to send has no messages, and its queue.
LEMMA OpensEmpty ==
  ASSUME NEW w \in Workers, NEW op \in Ops, NEW queue \in Seq(Events),
         txn'[w] = Open(op, queue, << >>)
  PROVE  /\ IsTxn(txn[w])' /\ txn'[w] # Idle /\ txn'[w].op = op
         /\ txn'[w].queue = queue /\ txn'[w].made = Nothing
         /\ DOMAIN txn'[w].todo = {}
         /\ \A m \in Messages : /\ ~Holds(w, m)' /\ ~Wrote(w, m)' /\ txn'[w].taken[m] = 0
         /\ \A e \in Events : Queued(w, e)' <=> \E k \in DOMAIN queue : queue[k] = e
<1> DEFINE none == << >>
<1>1. none \in Seq([m : Messages, copy : Row]) /\ DOMAIN none = {}
  OBVIOUS
<1>2. txn'[w] = Open(op, queue, none)
  OBVIOUS
<1> HIDE DEF none
<1>3. Opened(txn'[w], op, queue, none)
  BY <1>1, <1>2, OpenTyped
<1>4. IsTxn(txn[w])'
  BY <1>3 DEF Opened
<1>5. /\ txn'[w] # Idle /\ txn'[w].op = op /\ \A m \in Messages : txn'[w].taken[m] = 0
      /\ txn'[w].made = Nothing
  BY <1>3 DEF Opened
<1>6. DOMAIN txn'[w].todo = {} /\ DOMAIN txn'[w].rows = {} /\ txn'[w].queue = queue
  BY <1>1, <1>3 DEF Opened
<1> QED BY <1>4, <1>5, <1>6 DEF Holds, Wrote, Queued

\* A worker lets go of its messages, and none is committed: what it had had taken is in
\* doubt now.
LEMMA LettingGo ==
  ASSUME CountInv, Typed', NEW w \in Workers,
         \A v \in Workers \ {w} : txn'[v] = txn[v],
         \A m \in Messages : ~Holds(w, m)' /\ ~Wrote(w, m)',
         txn'[w] # Idle => DOMAIN txn'[w].todo = {} /\ \A m \in Messages : txn'[w].taken[m] = 0,
         row' = row, \A m \in Messages : accepted'[m] = accepted[m],
         \A m \in Messages : doubt'[m] >= doubt[m] + (IF txn[w] = Idle THEN 0 ELSE txn[w].taken[m])
  PROVE  OnceEach' /\ WhoseMessages' /\ TokensCount' /\ PendingIsDoubtful'
<1>1. OnceEach'
  <2> SUFFICES ASSUME NEW v \in Workers, txn'[v] # Idle
               PROVE /\ \A j, k \in DOMAIN txn'[v].todo : txn'[v].todo[j].m = txn'[v].todo[k].m => j = k
                     /\ \A m \in Messages :
                          /\ Holds(v, m)' => ~Wrote(v, m)'
                          /\ IF Wrote(v, m)' THEN txn'[v].rows[m] # NoRow ELSE txn'[v].taken[m] = 0
    BY DEF OnceEach
  <2>1. CASE v = w
    BY <2>1
  <2>2. CASE v # w
    BY <2>2, OthersKeep DEF CountInv, OnceEach
  <2> QED BY <2>1, <2>2
<1>2. WhoseMessages'
  BY OthersKeep DEF CountInv, WhoseMessages
<1>3. \A m \in Messages : doubt'[m] \in Nat /\ doubt[m] \in Nat /\ accepted[m] \in Nat
  BY NamesApart DEF CountInv, Typed
<1>4. \A m \in Messages : txn[w] # Idle => txn[w].taken[m] \in Nat
  BY DEF CountInv, Typed, IsTxn
<1>5. \A m \in Messages : doubt'[m] >= doubt[m]
  BY <1>3, <1>4
<1>6. TokensCount'
  <2> SUFFICES ASSUME NEW m \in Messages
               PROVE accepted'[m] + Cardinality(Tokens(m)') <= 1 + doubt'[m]
    BY DEF TokensCount
  <2>1. Tokens(m)' \subseteq Tokens(m) /\ Tokens(m) \subseteq Workers
    BY OthersKeep DEF Tokens, Token
  <2>2. Cardinality(Tokens(m)') <= Cardinality(Tokens(m))
    BY <2>1, WorkersCount
  <2>3. Cardinality(Tokens(m)') \in Nat /\ Cardinality(Tokens(m)) \in Nat
    BY <2>1, WorkersCount
  <2>4. accepted[m] + Cardinality(Tokens(m)) <= 1 + doubt[m]
    BY DEF CountInv, TokensCount
  <2> QED BY <1>3, <1>5, <2>2, <2>3, <2>4
<1>7. PendingIsDoubtful'
  <2> SUFFICES ASSUME NEW m \in Messages, row'[m].status = "PENDING",
                      \A v \in Workers : ~Holds(v, m)' /\ ~Wrote(v, m)'
               PROVE accepted'[m] <= doubt'[m]
    BY DEF PendingIsDoubtful
  <2>1. \A v \in Workers \ {w} : ~Holds(v, m) /\ ~Wrote(v, m)
    BY OthersKeep
  <2>2. CASE ~Holds(w, m) /\ ~Wrote(w, m)
    <3>1. accepted[m] <= doubt[m]
      BY <2>1, <2>2 DEF CountInv, PendingIsDoubtful
    <3> QED BY <1>3, <1>5, <3>1
  <2>3. accepted[m] + Cardinality(Tokens(m)) <= 1 + doubt[m]
    BY DEF CountInv, TokensCount
  <2>4. Cardinality(Tokens(m)) \in Nat
    BY WorkersCount DEF Tokens
  <2>5. CASE Token(w, m)
    <3>1. w \in Tokens(m) /\ Tokens(m) \subseteq Workers
      BY <2>5 DEF Tokens
    <3>2. Cardinality({}) + 1 <= Cardinality(Tokens(m))
      BY <3>1, OneLess
    <3>3. accepted[m] <= doubt[m]
      BY <1>3, <2>3, <2>4, <3>2, FS_EmptySet
    <3> QED BY <1>3, <1>5, <3>3
  <2>6. CASE Wrote(w, m) /\ ~Token(w, m)
    <3>1. txn[w] # Idle /\ txn[w].taken[m] # 0
      BY <2>6 DEF Token, Wrote
    <3>2. doubt'[m] >= doubt[m] + 1
      BY <1>3, <1>4, <3>1
    <3> QED BY <1>3, <2>3, <2>4, <3>2
  <2> QED BY <2>2, <2>5, <2>6 DEF Token
<1> QED BY <1>1, <1>2, <1>6, <1>7

\* The queues after a step of w whose queue is then empty, or not to be dispatched by it.
LEMMA DropsQueue ==
  ASSUME CountInv, NEW w \in Workers,
         \A v \in Workers \ {w} : txn'[v] = txn[v],
         \A e \in Events : ~Queued(w, e)',
         txn'[w] # Idle => IsInjective(txn'[w].queue) /\ txn'[w].op \in {"RETRY", "LINK"},
         \A m \in Messages : Holds(w, m)' \/ Wrote(w, m)' => row[m] # NoRow,
         event' = event, row' = row, \A m \in Messages : accepted'[m] = accepted[m]
  PROVE  Queues' /\ Untouched'
<1>1. Queues'
  <2>1. \A v, u \in Workers, e \in Events : Queued(v, e)' /\ Queued(u, e)' => v = u
    BY OthersKeep DEF CountInv, Queues
  <2>2. ASSUME NEW v \in Workers, txn'[v] # Idle
        PROVE /\ IsInjective(txn'[v].queue)
              /\ txn'[v].op \notin {"RETRY", "LINK"} => txn'[v].queue # << >>
              /\ \A e \in Events : Queued(v, e)' =>
                    \/ txn'[v].op = "BUSINESS" /\ event'[e] = "NONE"
                    \/ txn'[v].op \in {"NEXT", "DISPATCH"} /\ event'[e] # "NONE"
    <3>1. CASE v = w
      BY <2>2, <3>1
    <3>2. CASE v # w
      BY <2>2, <3>2, OthersKeep DEF CountInv, Queues
    <3> QED BY <3>1, <3>2
  <2> QED BY <2>1, <2>2 DEF Queues
<1>2. \A e \in Events : Awaited(e)' => Awaited(e)
  BY OthersKeep DEF Awaited
<1>3. Untouched'
  BY <1>2, OthersKeep, OfTyped DEF CountInv, Untouched
<1> QED BY <1>1, <1>3

-----------------------------------------------------------------------------
(* Events and transactions without messages.                               *)

\* A business transaction takes only events nobody has taken.
LEMMA EmitKeeps ==
  ASSUME CountInv, NEW w \in Workers, Emit(w)
  PROVE  CountInv'
<1> DEFINE Free == {e \in left.events : event[e] = "NONE"
               /\ \A v \in Workers : txn[v] # Idle => ~Contains(txn[v].queue, e)}
<1>1. PICK some \in SUBSET Free :
         some # {} /\ txn' = [txn EXCEPT ![w] = Open("BUSINESS", SetToSeq(some), << >>)]
  BY DEF Emit
<1>2. txn[w] = Idle /\ UNCHANGED <<event, row, entries, accepted, doubt, left>>
  BY DEF Emit, records
<1>3. some \subseteq Events
  BY DEF CountInv, Typed
<1>4. \A e \in some : event[e] = "NONE" /\ \A v \in Workers : ~Queued(v, e)
  BY QueuedIsContains DEF CountInv, Queued
<1> HIDE DEF Free
<1> DEFINE queue == SetToSeq(some)
<1>5. /\ queue \in Seq(Events) /\ IsInjective(queue)
      /\ \A k \in DOMAIN queue : queue[k] \in some
      /\ queue # << >>
  <2>1. IsFiniteSet(some)
    BY <1>3, NotificationAssumption, FS_Subset
  <2> QED BY <1>1, <1>3, <2>1, ListsASet
<1>6. /\ DOMAIN txn' = Workers /\ \A v \in Workers \ {w} : txn'[v] = txn[v]
      /\ txn'[w] = Open("BUSINESS", queue, << >>)
  BY <1>1 DEF CountInv, Typed
<1> HIDE DEF queue
<1>7. /\ IsTxn(txn[w])' /\ txn'[w] # Idle /\ txn'[w].op = "BUSINESS" /\ txn'[w].queue = queue
      /\ DOMAIN txn'[w].todo = {}
      /\ \A m \in Messages : ~Holds(w, m)' /\ ~Wrote(w, m)' /\ txn'[w].taken[m] = 0
      /\ \A e \in Events : Queued(w, e)' => e \in some
  BY <1>5, <1>6, OpensEmpty DEF Ops
<1>8. Typed'
  BY <1>2, <1>6, <1>7 DEF CountInv, Typed
<1>9. OnceEach' /\ WhoseMessages' /\ TokensCount' /\ PendingIsDoubtful'
  <2>1. \A m \in Messages :
           doubt'[m] >= doubt[m] + (IF txn[w] = Idle THEN 0 ELSE txn[w].taken[m])
    BY <1>2 DEF CountInv, Typed
  <2>2. row' = row /\ \A m \in Messages : accepted'[m] = accepted[m]
    BY <1>2
  <2> QED BY <1>6, <1>7, <1>8, <2>1, <2>2, LettingGo
<1>10. Queues'
  <2>1. \A v, u \in Workers, e \in Events : Queued(v, e)' /\ Queued(u, e)' => v = u
    BY <1>4, <1>6, <1>7, OthersKeep DEF CountInv, Queues
  <2>2. ASSUME NEW v \in Workers, txn'[v] # Idle
        PROVE /\ IsInjective(txn'[v].queue)
              /\ txn'[v].op \notin {"RETRY", "LINK"} => txn'[v].queue # << >>
              /\ \A e \in Events : Queued(v, e)' =>
                    \/ txn'[v].op = "BUSINESS" /\ event'[e] = "NONE"
                    \/ txn'[v].op \in {"NEXT", "DISPATCH"} /\ event'[e] # "NONE"
    <3>1. CASE v = w
      BY <1>2, <1>4, <1>5, <1>7, <3>1
    <3>2. CASE v # w
      BY <1>2, <1>6, <2>2, <3>2, OthersKeep DEF CountInv, Queues
    <3> QED BY <3>1, <3>2
  <2> QED BY <2>1, <2>2 DEF Queues
<1>11. Untouched'
  <2>1. \A e \in Events : Awaited(e)' => Awaited(e)
    BY <1>2, <1>4, <1>6, <1>7, OthersKeep DEF Awaited
  <2>2. \A m \in Messages : accepted'[m] = accepted[m] /\ row'[m] = row[m]
    BY <1>2
  <2>3. \A v \in Workers, m \in Messages :
           (Holds(v, m)' => Holds(v, m)) /\ (Wrote(v, m)' => Wrote(v, m))
    BY <1>6, <1>7, OthersKeep
  <2> QED BY <2>1, <2>2, <2>3, OfTyped DEF CountInv, Untouched
<1> QED BY <1>8, <1>9, <1>10, <1>11 DEF CountInv

\* What Commit does, with the transaction that follows.
LEMMA CommitDoes ==
  ASSUME CountInv, NEW w \in Workers, txn[w] # Idle, NEW then, Commit(w, then)
  PROVE  /\ DOMAIN txn' = Workers /\ txn'[w] = then
         /\ \A v \in Workers \ {w} : txn'[v] = txn[v]
         /\ row' \in [Messages -> Row] /\ entries' \in [Accounts -> Int]
         /\ \A m \in Messages : row'[m] = IF Wrote(w, m) THEN txn[w].rows[m] ELSE row[m]
         /\ \A a \in Accounts : entries'[a] = entries[a] + txn[w].made[a]
         /\ accepted' = accepted /\ left' = left /\ lock' = Freed(w)
<1>1. /\ txn' = [txn EXCEPT ![w] = then] /\ accepted' = accepted /\ left' = left /\ lock' = Freed(w)
      /\ row' = [m \in Messages |-> IF m \in DOMAIN txn[w].rows THEN txn[w].rows[m] ELSE row[m]]
      /\ entries' = [a \in Accounts |-> entries[a] + txn[w].made[a]]
  BY DEF Commit
<1>2. IsTxn(txn[w]) /\ row \in [Messages -> Row] /\ entries \in [Accounts -> Int] /\ DOMAIN txn = Workers
  BY DEF CountInv, Typed
<1>3. txn[w].made \in [Accounts -> Int]
  BY <1>2 DEF IsTxn
<1>4. \A m \in DOMAIN txn[w].rows : txn[w].rows[m] \in Row
  BY <1>2 DEF IsTxn
<1>5. row' \in [Messages -> Row]
  BY <1>1, <1>2, <1>4
<1>6. entries' \in [Accounts -> Int]
  BY <1>1, <1>2, <1>3
<1> QED BY <1>1, <1>2, <1>5, <1>6 DEF Wrote

\* The events of a business transaction are there once it has committed.
LEMMA CommitBusinessKeeps ==
  ASSUME CountInv, NEW w \in Workers, CommitBusiness(w)
  PROVE  CountInv'
<1> DEFINE queue == txn[w].queue
           next == Open("NEXT", queue, << >>)
<1>1. txn[w] # Idle /\ txn[w].op = "BUSINESS" /\ Commit(w, next) /\ doubt' = doubt
      /\ event' = [e \in Events |-> IF Contains(txn[w].queue, e) THEN "EMITTED" ELSE event[e]]
  BY DEF CommitBusiness, Doing
<1>2. queue \in Seq(Events)
  BY <1>1 DEF CountInv, Typed, IsTxn
<1>3. \A m \in Messages : ~Holds(w, m) /\ ~Wrote(w, m)
  BY <1>1, EmptyHanded
<1> HIDE DEF next
<1>4. /\ DOMAIN txn' = Workers /\ txn'[w] = next /\ \A v \in Workers \ {w} : txn'[v] = txn[v]
      /\ row' \in [Messages -> Row] /\ entries' \in [Accounts -> Int]
      /\ accepted' = accepted /\ left' = left
      /\ \A m \in Messages : row'[m] = IF Wrote(w, m) THEN txn[w].rows[m] ELSE row[m]
  BY <1>1, CommitDoes
<1>5. row' = row
  BY <1>3, <1>4 DEF CountInv, Typed
<1> HIDE DEF queue
<1>6. txn'[w] = Open("NEXT", queue, << >>)
  BY <1>4 DEF next
<1>7. /\ IsTxn(txn[w])' /\ txn'[w] # Idle /\ txn'[w].op = "NEXT" /\ txn'[w].queue = queue
      /\ DOMAIN txn'[w].todo = {}
      /\ \A m \in Messages : ~Holds(w, m)' /\ ~Wrote(w, m)' /\ txn'[w].taken[m] = 0
      /\ \A e \in Events : Queued(w, e)' <=> \E k \in DOMAIN queue : queue[k] = e
  BY <1>2, <1>6, OpensEmpty DEF Ops
<1>8. \A e \in Events : Queued(w, e)' <=> Queued(w, e)
  BY <1>1, <1>7 DEF Queued, queue
<1>9. \A e \in Events : event'[e] = IF Queued(w, e) THEN "EMITTED" ELSE event[e]
  BY <1>1, QueuedIsContains DEF CountInv
<1>10. Typed'
  BY <1>1, <1>4, <1>7 DEF CountInv, Typed
<1>11. OnceEach' /\ WhoseMessages' /\ TokensCount' /\ PendingIsDoubtful'
  <2>1. \A m \in Messages : txn[w].taken[m] = 0 /\ doubt[m] \in Nat
    BY <1>1, <1>3 DEF CountInv, OnceEach, Typed
  <2>2. \A m \in Messages :
           doubt'[m] >= doubt[m] + (IF txn[w] = Idle THEN 0 ELSE txn[w].taken[m])
    BY <1>1, <2>1
  <2> QED BY <1>4, <1>5, <1>7, <1>10, <2>2, LettingGo
<1>12. Queues'
  <2>1. \A v \in Workers, e \in Events : Queued(v, e)' <=> Queued(v, e)
    BY <1>4, <1>8, OthersKeep
  <2>2. ASSUME NEW v \in Workers, txn'[v] # Idle
        PROVE /\ IsInjective(txn'[v].queue)
              /\ txn'[v].op \notin {"RETRY", "LINK"} => txn'[v].queue # << >>
              /\ \A e \in Events : Queued(v, e)' =>
                    \/ txn'[v].op = "BUSINESS" /\ event'[e] = "NONE"
                    \/ txn'[v].op \in {"NEXT", "DISPATCH"} /\ event'[e] # "NONE"
    <3>1. CASE v = w
      BY <1>1, <1>7, <1>9, <2>1, <3>1 DEF CountInv, Queues, queue
    <3>2. CASE v # w
      <4>1. txn'[v] = txn[v] /\ txn[v] # Idle
        BY <1>4, <2>2, <3>2
      <4>2. \A e \in Events : Queued(v, e)' => Queued(v, e) /\ event'[e] = event[e]
        BY <1>9, <2>1, <3>2 DEF CountInv, Queues
      <4> QED BY <4>1, <4>2 DEF CountInv, Queues
    <3> QED BY <3>1, <3>2
  <2> QED BY <2>1, <2>2 DEF CountInv, Queues
<1>13. Untouched'
  <2>1. \A e \in Events : Awaited(e)' => Awaited(e)
    BY <1>1, <1>4, <1>8, <1>9, OthersKeep DEF Awaited
  <2>2. \A m \in Messages : accepted'[m] = accepted[m] /\ row'[m] = row[m]
    BY <1>4, <1>5
  <2>3. \A v \in Workers, m \in Messages :
           (Holds(v, m)' => Holds(v, m)) /\ (Wrote(v, m)' => Wrote(v, m))
    BY <1>4, <1>7, OthersKeep
  <2> QED BY <2>1, <2>2, <2>3, OfTyped DEF CountInv, Untouched
<1> QED BY <1>10, <1>11, <1>12, <1>13 DEF CountInv

\* A step after which w has neither messages nor events, and nothing is committed of its own.
LEMMA StoppingKeeps ==
  ASSUME CountInv, Typed', NEW w \in Workers,
         \A v \in Workers \ {w} : txn'[v] = txn[v],
         \A m \in Messages : ~Holds(w, m)' /\ ~Wrote(w, m)',
         \A e \in Events : ~Queued(w, e)',
         txn'[w] # Idle => /\ DOMAIN txn'[w].todo = {} /\ \A m \in Messages : txn'[w].taken[m] = 0
                           /\ IsInjective(txn'[w].queue) /\ txn'[w].op = "LINK",
         event' = event, row' = row, \A m \in Messages : accepted'[m] = accepted[m],
         \A m \in Messages : doubt'[m] >= doubt[m] + (IF txn[w] = Idle THEN 0 ELSE txn[w].taken[m])
  PROVE  CountInv'
<1>1. OnceEach' /\ WhoseMessages' /\ TokensCount' /\ PendingIsDoubtful'
  BY LettingGo
<1>2. Queues' /\ Untouched'
  BY DropsQueue
<1> QED BY <1>1, <1>2 DEF CountInv

\* An idle worker has nothing.
LEMMA IdleHasNothing ==
  ASSUME NEW w \in Workers, txn'[w] = Idle
  PROVE  /\ \A m \in Messages : ~Holds(w, m)' /\ ~Wrote(w, m)'
         /\ \A e \in Events : ~Queued(w, e)'
BY DEF Holds, Wrote, Queued

\* A bound that has been spent is a bound.
LEMMA SpendTyped ==
  ASSUME Typed, NEW what \in {"topups", "links", "edits", "deaths"}, Spend(what)
  PROVE  left' \in [events : SUBSET Events, topups : Nat, links : Nat, edits : Nat, deaths : Nat]
<1>1. left \in [events : SUBSET Events, topups : Nat, links : Nat, edits : Nat, deaths : Nat]
  BY DEF Typed
<1>2. left[what] > 0 /\ left[what] \in Nat /\ left' = [left EXCEPT ![what] = left[what] - 1]
  BY <1>1 DEF Spend
<1>3. left[what] - 1 \in Nat
  BY <1>2
<1> QED BY <1>1, <1>2, <1>3

\* A business transaction is undone; a worker dies.
LEMMA StopKeeps ==
  ASSUME CountInv, NEW w \in Workers, RollbackBusiness(w) \/ Dies(w)
  PROVE  CountInv'
<1>1. /\ txn[w] # Idle /\ txn' = [txn EXCEPT ![w] = Idle]
      /\ UNCHANGED <<event, row, entries, accepted>>
  BY DEF RollbackBusiness, Dies, records, Doing
<1>2. DOMAIN txn' = Workers /\ txn'[w] = Idle /\ \A v \in Workers \ {w} : txn'[v] = txn[v]
  BY <1>1 DEF CountInv, Typed
<1>3. \A m \in Messages : doubt[m] \in Nat /\ txn[w].taken[m] \in Nat
  BY <1>1 DEF CountInv, Typed, IsTxn
<1>4. CASE RollbackBusiness(w)
  <2>1. left' = left /\ doubt' = doubt /\ txn[w].op = "BUSINESS"
    BY <1>4 DEF RollbackBusiness, Doing
  <2>2. \A m \in Messages : txn[w].taken[m] = 0
    BY <1>1, <2>1, EmptyHanded DEF CountInv, OnceEach
  <2>3. Typed'
    BY <1>1, <1>2, <2>1 DEF CountInv, Typed
  <2>4. \A m \in Messages :
           doubt'[m] >= doubt[m] + (IF txn[w] = Idle THEN 0 ELSE txn[w].taken[m])
    BY <1>3, <2>1, <2>2
  <2>5. row' = row /\ event' = event /\ \A m \in Messages : accepted'[m] = accepted[m]
    BY <1>1
  <2> QED BY <1>2, <2>3, <2>4, <2>5, IdleHasNothing, StoppingKeeps
<1>5. CASE Dies(w)
  <2>1. Spend("deaths") /\ doubt' = [m \in Messages |-> doubt[m] + txn[w].taken[m]]
    BY <1>5 DEF Dies
  <2>2. Typed'
    <3>1. doubt' \in [Messages -> Nat]
      BY <1>3, <2>1
    <3> QED BY <1>1, <1>2, <2>1, <3>1, SpendTyped DEF CountInv, Typed
  <2>3. \A m \in Messages :
           doubt'[m] >= doubt[m] + (IF txn[w] = Idle THEN 0 ELSE txn[w].taken[m])
    BY <1>1, <1>3, <2>1
  <2>4. row' = row /\ event' = event /\ \A m \in Messages : accepted'[m] = accepted[m]
    BY <1>1
  <2> QED BY <1>2, <2>2, <2>3, <2>4, IdleHasNothing, StoppingKeeps
<1> QED BY <1>4, <1>5

\* The transaction of a sign-in link.
LinkTxn(account, b) == [Open("LINK", << >>, << >>) EXCEPT !.made[account] = -1, !.wrote = <<b>>]

IsLinkTxn(t) ==
    /\ IsTxn(t) /\ t # Idle /\ t.op = "LINK" /\ DOMAIN t.queue = {} /\ DOMAIN t.todo = {}
    /\ DOMAIN t.rows = {} /\ \A m \in Messages : t.taken[m] = 0 /\ t.made[m] = 0

\* It has no events and no messages, and charges none.
LEMMA LinkTyped ==
  ASSUME NEW account \in {"link", "overdraft"}, NEW b
  PROVE  IsLinkTxn(LinkTxn(account, b))
<1> DEFINE none == << >>
           o == Open("LINK", none, none)
           t == LinkTxn(account, b)
<1>1. none \in Seq(Events)
  OBVIOUS
<1>2. none \in Seq([m : Messages, copy : Row])
  OBVIOUS
<1>3. DOMAIN none = {}
  OBVIOUS
<1>4. t = [o EXCEPT !.made = [o.made EXCEPT ![account] = -1], !.wrote = <<b>>]
  BY DEF LinkTxn
<1> HIDE DEF none
<1>5. Opened(o, "LINK", none, none)
  BY <1>1, <1>2, OpenTyped DEF Ops
<1> HIDE DEF o, t
<1>6. IsTxn(o) /\ o.op = "LINK" /\ o.queue = none /\ o.todo = none /\ DOMAIN o.rows = {}
      /\ o.made = Nothing /\ \A m \in Messages : o.taken[m] = 0
  BY <1>5 DEF Opened
<1>7. DOMAIN o = Fields
  BY <1>6 DEF IsTxn
<1>8. /\ DOMAIN t = Fields /\ t.op = "LINK" /\ t.queue = none /\ t.todo = none
      /\ t.rows = o.rows /\ t.taken = o.taken /\ t.made = [Nothing EXCEPT ![account] = -1]
  BY <1>4, <1>6, <1>7 DEF Fields
<1>9. t.made \in [Accounts -> Int] /\ \A m \in Messages : t.made[m] = 0
  <2>1. account \in Accounts /\ account \notin Messages /\ Messages \subseteq Accounts
    BY NamesApart
  <2>2. DOMAIN Nothing = Accounts /\ \A a \in Accounts : Nothing[a] = 0
    BY DEF Nothing
  <2>3. DOMAIN t.made = Accounts /\ \A a \in Accounts : t.made[a] = IF a = account THEN -1 ELSE 0
    BY <1>8, <2>1, <2>2
  <2>4. t.made \in [Accounts -> Int]
    <3>1. t.made = [a \in Accounts |-> t.made[a]]
      BY <1>8, <2>2
    <3> QED BY <2>3, <3>1
  <2> QED BY <2>1, <2>3, <2>4
<1>10. IsTxn(t)
  BY <1>6, <1>8, <1>9 DEF IsTxn
<1>11. t # Idle
  <2>1. "op" \in DOMAIN t
    BY <1>8 DEF Fields
  <2>2. "op" \notin DOMAIN Idle
    BY DEF Idle
  <2> QED BY <2>1, <2>2
<1> QED BY <1>3, <1>6, <1>8, <1>9, <1>10, <1>11 DEF t, IsLinkTxn

\* A sign-in link has no messages.
LEMMA LinkKeeps ==
  ASSUME CountInv, NEW w \in Workers, SignInLink(w) \/ EndLink(w)
  PROVE  CountInv'
<1>1. \A m \in Messages : doubt[m] \in Nat
  BY DEF CountInv, Typed
<1>2. CASE SignInLink(w)
  <2>1. PICK account \in {"link", "overdraft"}, took \in {0, 1} :
           /\ Spend("links") /\ accepted' = [accepted EXCEPT ![account] = @ + took]
           /\ txn' = [txn EXCEPT ![w] = [Open("LINK", << >>, << >>) EXCEPT
                          !.made[account] = -1, !.wrote = <<balance - 1>>]]
    BY <1>2 DEF SignInLink
  <2>2. txn[w] = Idle /\ UNCHANGED <<event, row, entries, doubt>>
    BY <1>2 DEF SignInLink, records
  <2>3. /\ DOMAIN txn' = Workers /\ \A v \in Workers \ {w} : txn'[v] = txn[v]
        /\ txn'[w] = LinkTxn(account, balance - 1)
    BY <2>1 DEF CountInv, Typed, LinkTxn
  <2>4. /\ IsTxn(txn'[w]) /\ txn'[w] # Idle /\ txn'[w].op = "LINK" /\ DOMAIN txn'[w].queue = {}
        /\ DOMAIN txn'[w].todo = {} /\ DOMAIN txn'[w].rows = {}
        /\ \A m \in Messages : txn'[w].taken[m] = 0
    <3>1. IsLinkTxn(txn'[w])
      BY <2>3, LinkTyped
    <3> QED BY <3>1 DEF IsLinkTxn
  <2>5. accepted' \in [Accounts -> Nat] /\ \A m \in Messages : accepted'[m] = accepted[m]
    <3>1. account \in Accounts /\ account \notin Messages /\ Messages \subseteq Accounts
      BY NamesApart
    <3>2. accepted \in [Accounts -> Nat] /\ accepted[account] + took \in Nat
      BY <3>1 DEF CountInv, Typed
    <3> QED BY <2>1, <3>1, <3>2
  <2>6. Typed'
    BY <2>1, <2>2, <2>3, <2>4, <2>5, SpendTyped DEF CountInv, Typed
  <2>7. \A m \in Messages : ~Holds(w, m)' /\ ~Wrote(w, m)'
    BY <2>4 DEF Holds, Wrote
  <2>8. (\A e \in Events : ~Queued(w, e)') /\ IsInjective(txn'[w].queue)
    BY <2>4 DEF Queued, IsInjective
  <2>9. \A m \in Messages :
           doubt'[m] >= doubt[m] + (IF txn[w] = Idle THEN 0 ELSE txn[w].taken[m])
    BY <2>2 DEF CountInv, Typed
  <2> QED BY <2>2, <2>3, <2>4, <2>5, <2>6, <2>7, <2>8, <2>9, StoppingKeeps
<1>3. CASE EndLink(w)
  <2>1. txn[w] # Idle /\ txn[w].op = "LINK" /\ Commit(w, Idle) /\ UNCHANGED <<event, doubt>>
    BY <1>3 DEF EndLink, Doing
  <2>2. \A m \in Messages : ~Holds(w, m) /\ ~Wrote(w, m) /\ txn[w].taken[m] = 0
    BY <2>1, EmptyHanded DEF CountInv, OnceEach
  <2>3. /\ DOMAIN txn' = Workers /\ txn'[w] = Idle /\ \A v \in Workers \ {w} : txn'[v] = txn[v]
        /\ row' \in [Messages -> Row] /\ entries' \in [Accounts -> Int]
        /\ accepted' = accepted /\ left' = left
        /\ \A m \in Messages : row'[m] = IF Wrote(w, m) THEN txn[w].rows[m] ELSE row[m]
    BY <2>1, CommitDoes
  <2>4. row' = row
    BY <2>2, <2>3 DEF CountInv, Typed
  <2>5. Typed'
    BY <2>1, <2>3 DEF CountInv, Typed
  <2>6. \A m \in Messages :
           doubt'[m] >= doubt[m] + (IF txn[w] = Idle THEN 0 ELSE txn[w].taken[m])
    BY <1>1, <2>1, <2>2
  <2> QED BY <2>1, <2>3, <2>4, <2>5, <2>6, IdleHasNothing, StoppingKeeps
<1> QED BY <1>2, <1>3

-----------------------------------------------------------------------------
(* Sending.                                                                *)

\* What Done writes.
Writes(w, m, r, charge, took) ==
    /\ DOMAIN txn' = Workers /\ \A v \in Workers \ {w} : txn'[v] = txn[v]
    /\ txn'[w] # Idle /\ IsTxn(txn'[w])
    /\ txn'[w].op = txn[w].op /\ txn'[w].queue = txn[w].queue
    /\ txn'[w].todo = Tail(txn[w].todo)
    /\ DOMAIN txn'[w].rows = DOMAIN txn[w].rows \cup {m}
    /\ txn'[w].rows[m] = r
    /\ \A n \in DOMAIN txn[w].rows \ {m} : txn'[w].rows[n] = txn[w].rows[n]
    /\ txn'[w].made = [txn[w].made EXCEPT ![m] = txn[w].made[m] + charge]
    /\ txn'[w].taken = [txn[w].taken EXCEPT ![m] = txn[w].taken[m] + took]
    /\ txn'[w].wrote = IF charge = 0 THEN txn[w].wrote ELSE <<Seen(w) + charge>>
    /\ accepted' = [accepted EXCEPT ![m] = accepted[m] + took]
    /\ accepted' \in [Accounts -> Nat]

\* Done writes that.
LEMMA DoneWrites ==
  ASSUME CountInv, NEW w \in Workers, NEW m \in Messages, Sends(w, m),
         NEW r \in Row, NEW charge \in {-1, 0}, NEW took \in {0, 1}, Done(w, r, charge, took)
  PROVE  Writes(w, m, r, charge, took)
<1> DEFINE t == txn[w]
           u == txn'[w]
<1>1. m = Head(t.todo).m /\ t.todo # << >> /\ t # Idle
  BY DEF Sends
<1>2. IsTxn(t) /\ DOMAIN txn = Workers
  BY <1>1 DEF CountInv, Typed
<1>3. DOMAIN t = Fields
  BY <1>2 DEF IsTxn
<1>4. /\ DOMAIN txn' = Workers /\ \A v \in Workers \ {w} : txn'[v] = txn[v]
      /\ DOMAIN u = Fields /\ u.op = t.op /\ u.queue = t.queue
      /\ u.todo = Tail(t.todo) /\ u.rows = Recorded(w, m, r)
      /\ u.made = [t.made EXCEPT ![m] = t.made[m] + charge]
      /\ u.taken = [t.taken EXCEPT ![m] = t.taken[m] + took]
      /\ accepted' = [accepted EXCEPT ![m] = accepted[m] + took]
  BY <1>1, <1>2, <1>3 DEF Done, Fields
<1>4a. u.wrote = IF charge = 0 THEN t.wrote ELSE <<Seen(w) + charge>>
  BY <1>1, <1>2, <1>3 DEF Done, Fields
<1> HIDE DEF u
<1>5. t.todo \in Seq([m : Messages, copy : Row]) /\ t.todo # << >>
  BY <1>1, <1>2 DEF IsTxn
<1>6. Tail(t.todo) \in Seq([m : Messages, copy : Row])
  BY <1>5, HeadTailProperties
<1>7. /\ DOMAIN u.rows = DOMAIN t.rows \cup {m} /\ u.rows[m] = r
      /\ \A n \in DOMAIN t.rows \ {m} : u.rows[n] = t.rows[n]
  BY <1>4 DEF Recorded
<1>8. DOMAIN u.rows \subseteq Messages /\ \A n \in DOMAIN u.rows : u.rows[n] \in Row
  BY <1>2, <1>7 DEF IsTxn
<1>9. m \in Accounts /\ t.made \in [Accounts -> Int] /\ t.taken \in [Messages -> Nat]
      /\ accepted \in [Accounts -> Nat]
  BY <1>2, NamesApart DEF IsTxn, CountInv, Typed
<1>10. /\ u.made \in [Accounts -> Int] /\ u.taken \in [Messages -> Nat]
       /\ accepted' \in [Accounts -> Nat]
  BY <1>4, <1>9
<1>11. IsTxn(u)
  BY <1>2, <1>4, <1>6, <1>8, <1>10 DEF IsTxn
<1>12. u # Idle
  <2>1. "op" \in DOMAIN u
    BY <1>4 DEF Fields
  <2>2. "op" \notin DOMAIN Idle
    BY DEF Idle
  <2> QED BY <2>1, <2>2
<1> QED BY <1>4, <1>4a, <1>7, <1>10, <1>11, <1>12 DEF u, Writes

\* The first of the messages to send is done, the others stay.
LEMMA NextToSend ==
  ASSUME CountInv, NEW w \in Workers, NEW m \in Messages, Sends(w, m),
         txn'[w] # Idle, txn'[w].todo = Tail(txn[w].todo)
  PROVE  /\ Holds(w, m) /\ ~Holds(w, m)'
         /\ \A n \in Messages \ {m} : Holds(w, n)' <=> Holds(w, n)
         /\ \A j, k \in DOMAIN txn'[w].todo : txn'[w].todo[j].m = txn'[w].todo[k].m => j = k
<1> DEFINE todo == txn[w].todo
           rest == txn'[w].todo
<1>1. txn[w] # Idle /\ todo # << >> /\ m = Head(todo).m
  BY DEF Sends
<1>2. todo \in Seq([m : Messages, copy : Row])
  BY <1>1 DEF CountInv, Typed, IsTxn
<1>3. \A j, k \in DOMAIN todo : todo[j].m = todo[k].m => j = k
  BY <1>1 DEF CountInv, OnceEach
<1>4. rest = Tail(todo)
  OBVIOUS
<1> HIDE DEF todo, rest
<1>5. /\ DOMAIN todo = 1 .. Len(todo) /\ Len(todo) \in Nat /\ Len(todo) # 0
      /\ rest \in Seq([m : Messages, copy : Row])
      /\ Len(rest) = Len(todo) - 1 /\ \A i \in 1 .. Len(rest) : rest[i] = todo[i + 1]
  BY <1>1, <1>2, <1>4, HeadTailProperties, LenProperties, EmptySeq
<1>6. DOMAIN rest = 1 .. Len(rest) /\ Head(todo) = todo[1]
  BY <1>2, <1>5, LenProperties
<1>7. \A k \in DOMAIN rest : k \in 1 .. Len(rest) /\ k + 1 \in DOMAIN todo /\ k + 1 # 1 /\ rest[k] = todo[k + 1]
  BY <1>5, <1>6
<1>8. \A k \in DOMAIN todo : k = 1 \/ (k - 1 \in DOMAIN rest /\ todo[k] = rest[k - 1])
  BY <1>5, <1>6
<1>9. 1 \in DOMAIN todo
  BY <1>5
<1>10. Holds(w, m)
  BY <1>1, <1>6, <1>9 DEF Holds, todo
<1>11. ~Holds(w, m)'
  BY <1>1, <1>3, <1>6, <1>7, <1>9 DEF Holds, rest
<1>12. \A n \in Messages \ {m} : Holds(w, n)' <=> Holds(w, n)
  <2>1. \A n \in Messages \ {m} :
           (\E k \in DOMAIN rest : rest[k].m = n) <=> (\E k \in DOMAIN todo : todo[k].m = n)
    BY <1>1, <1>6, <1>7, <1>8
  <2> QED BY <1>1, <2>1 DEF Holds, rest, todo
<1>13. \A j, k \in DOMAIN rest : rest[j].m = rest[k].m => j = k
  BY <1>3, <1>5, <1>6, <1>7
<1> QED BY <1>10, <1>11, <1>12, <1>13 DEF rest

\* Sending a message turns a token into an acceptance, or leaves it, or adds to the doubt.
LEMMA DoneKeeps ==
  ASSUME CountInv, NEW w \in Workers, NEW m \in Messages, Sends(w, m),
         NEW r \in Row, r # NoRow, NEW charge \in {-1, 0}, NEW took \in {0, 1},
         Done(w, r, charge, took), UNCHANGED <<event, row, entries, left>>,
         doubt' \in [Messages -> Nat],
         \A n \in Messages : doubt'[n] >= doubt[n],
         took = 1 /\ r.status = "PENDING" => doubt'[m] >= doubt[m] + 1
  PROVE  CountInv'
<1>1. /\ DOMAIN txn' = Workers /\ \A v \in Workers \ {w} : txn'[v] = txn[v]
      /\ txn'[w] # Idle /\ IsTxn(txn'[w])
      /\ txn'[w].op = txn[w].op /\ txn'[w].queue = txn[w].queue
      /\ txn'[w].todo = Tail(txn[w].todo)
      /\ DOMAIN txn'[w].rows = DOMAIN txn[w].rows \cup {m}
      /\ txn'[w].rows[m] = r
      /\ \A n \in DOMAIN txn[w].rows \ {m} : txn'[w].rows[n] = txn[w].rows[n]
      /\ txn'[w].taken = [txn[w].taken EXCEPT ![m] = txn[w].taken[m] + took]
      /\ accepted' = [accepted EXCEPT ![m] = accepted[m] + took]
      /\ accepted' \in [Accounts -> Nat]
  <2>1. Writes(w, m, r, charge, took)
    BY DoneWrites
  <2> QED BY <2>1 DEF Writes
<1>2. txn[w] # Idle /\ IsTxn(txn[w])
  BY DEF Sends, CountInv, Typed
<1>3. /\ Holds(w, m) /\ ~Holds(w, m)'
      /\ \A n \in Messages \ {m} : Holds(w, n)' <=> Holds(w, n)
      /\ \A j, k \in DOMAIN txn'[w].todo : txn'[w].todo[j].m = txn'[w].todo[k].m => j = k
  BY <1>1, NextToSend
<1>4. /\ Wrote(w, m)' /\ ~Wrote(w, m)
      /\ \A n \in Messages \ {m} : Wrote(w, n)' <=> Wrote(w, n)
  <2>1. ~Wrote(w, m)
    BY <1>2, <1>3 DEF CountInv, OnceEach
  <2> QED BY <1>1, <1>2, <2>1 DEF Wrote
<1>5. /\ \A n \in Messages \ {m} : txn'[w].taken[n] = txn[w].taken[n]
      /\ txn[w].taken[m] = 0 /\ txn'[w].taken[m] = took
  BY <1>1, <1>2, <1>4 DEF CountInv, OnceEach, IsTxn
<1>6. /\ accepted'[m] = accepted[m] + took
      /\ \A n \in Messages \ {m} : accepted'[n] = accepted[n]
  BY <1>1, NamesApart DEF CountInv, Typed
<1>7. \A v \in Workers, e \in Events : Queued(v, e)' <=> Queued(v, e)
  BY <1>1, <1>2, OthersKeep DEF Queued
<1>8. Typed'
  BY <1>1 DEF CountInv, Typed
<1>9. OnceEach'
  <2> SUFFICES ASSUME NEW v \in Workers, txn'[v] # Idle
               PROVE /\ \A j, k \in DOMAIN txn'[v].todo : txn'[v].todo[j].m = txn'[v].todo[k].m => j = k
                     /\ \A n \in Messages :
                          /\ Holds(v, n)' => ~Wrote(v, n)'
                          /\ IF Wrote(v, n)' THEN txn'[v].rows[n] # NoRow ELSE txn'[v].taken[n] = 0
    BY DEF OnceEach
  <2>1. CASE v = w
    <3>1. ASSUME NEW n \in Messages \ {m}
          PROVE  /\ Holds(w, n)' => ~Wrote(w, n)'
                 /\ IF Wrote(w, n)' THEN txn'[w].rows[n] # NoRow ELSE txn'[w].taken[n] = 0
      BY <1>1, <1>2, <1>3, <1>4, <1>5 DEF CountInv, OnceEach, Wrote
    <3> QED BY <1>1, <1>3, <1>4, <2>1, <3>1
  <2>2. CASE v # w
    BY <1>1, <2>2, OthersKeep DEF CountInv, OnceEach
  <2> QED BY <2>1, <2>2
<1>10. WhoseMessages'
  <2>1. ASSUME NEW v \in Workers, txn'[v] # Idle, NEW n \in Messages, Holds(v, n)' \/ Wrote(v, n)'
        PROVE  /\ txn[v] # Idle /\ (Holds(v, n) \/ Wrote(v, n))
               /\ txn'[v].op = txn[v].op /\ txn'[v].queue = txn[v].queue
    BY <1>1, <1>2, <1>3, <1>4, <2>1, OthersKeep
  <2> QED BY <2>1 DEF CountInv, WhoseMessages
<1>11. Queues'
  <2>1. ASSUME NEW v \in Workers, txn'[v] # Idle
        PROVE  txn[v] # Idle /\ txn'[v].op = txn[v].op /\ txn'[v].queue = txn[v].queue
    BY <1>1, <1>2, <2>1
  <2> QED BY <1>7, <2>1 DEF CountInv, Queues
<1>12. Untouched'
  <2>1. \A e \in Events : Awaited(e)' => Awaited(e)
    BY <1>1, <1>7 DEF Awaited
  <2> SUFFICES ASSUME NEW n \in Messages, Awaited(Of[n])
               PROVE  /\ row'[n] = NoRow /\ accepted'[n] = 0
                      /\ \A v \in Workers : ~Holds(v, n)' /\ ~Wrote(v, n)'
    BY <2>1, OfTyped DEF Untouched
  <2>2. /\ row[n] = NoRow /\ accepted[n] = 0
        /\ \A v \in Workers : ~Holds(v, n) /\ ~Wrote(v, n)
    BY DEF CountInv, Untouched
  <2>3. n # m
    BY <1>3, <2>2
  <2> QED BY <1>1, <1>3, <1>4, <1>6, <2>2, <2>3, OthersKeep
<1>13. TokensCount'
  <2> SUFFICES ASSUME NEW n \in Messages
               PROVE accepted'[n] + Cardinality(Tokens(n)') <= 1 + doubt'[n]
    BY DEF TokensCount
  <2>1. accepted[n] + Cardinality(Tokens(n)) <= 1 + doubt[n]
    BY DEF CountInv, TokensCount
  <2>2. accepted[n] \in Nat /\ doubt[n] \in Nat /\ doubt'[n] \in Nat
    BY NamesApart DEF CountInv, Typed
  <2>3. Tokens(n) \subseteq Workers /\ Tokens(n)' \subseteq Workers
    BY DEF Tokens
  <2>4. Cardinality(Tokens(n)) \in Nat /\ Cardinality(Tokens(n)') \in Nat
    BY <2>3, WorkersCount
  <2>5. Tokens(n)' \subseteq Tokens(n)
    <3>1. \A v \in Workers \ {w} : Token(v, n)' <=> Token(v, n)
      BY <1>1, OthersKeep
    <3>2. n # m => (Token(w, n)' => Token(w, n))
      BY <1>1, <1>3, <1>4, <1>5 DEF Token, Wrote
    <3>3. Token(w, m)
      BY <1>3 DEF Token
    <3> QED BY <3>1, <3>2, <3>3 DEF Tokens
  <2>6. Cardinality(Tokens(n)') <= Cardinality(Tokens(n))
    BY <2>3, <2>5, WorkersCount
  <2>7. CASE n # m
    BY <1>6, <2>1, <2>2, <2>4, <2>6, <2>7
  <2>8. CASE n = m /\ (took = 0 \/ r.status = "PENDING")
    BY <1>6, <2>1, <2>2, <2>4, <2>6, <2>8
  <2>9. CASE n = m /\ took = 1 /\ r.status # "PENDING"
    <3>1. ~Token(w, n)'
      BY <1>1, <1>3, <1>5, <2>9 DEF Token
    <3>2. w \in Tokens(n) /\ Tokens(n)' \subseteq Tokens(n) \ {w}
      BY <1>3, <2>5, <2>9, <3>1 DEF Tokens, Token
    <3>3. Cardinality(Tokens(n)') + 1 <= Cardinality(Tokens(n))
      BY <2>3, <3>2, OneLess
    <3> QED BY <1>6, <2>1, <2>2, <2>4, <2>9, <3>3
  <2> QED BY <2>7, <2>8, <2>9
<1>14. PendingIsDoubtful'
  <2> SUFFICES ASSUME NEW n \in Messages, row[n].status = "PENDING",
                      \A v \in Workers : ~Holds(v, n)' /\ ~Wrote(v, n)'
               PROVE accepted'[n] <= doubt'[n]
    BY DEF PendingIsDoubtful
  <2>1. n # m
    BY <1>4
  <2>2. \A v \in Workers : ~Holds(v, n) /\ ~Wrote(v, n)
    BY <1>1, <1>3, <1>4, <2>1, OthersKeep
  <2>3. accepted[n] <= doubt[n]
    BY <2>2 DEF CountInv, PendingIsDoubtful
  <2>4. accepted[n] \in Nat /\ doubt[n] \in Nat /\ doubt'[n] \in Nat
    BY NamesApart DEF CountInv, Typed
  <2> QED BY <1>6, <2>1, <2>3, <2>4
<1> QED BY <1>8, <1>9, <1>10, <1>11, <1>12, <1>13, <1>14 DEF CountInv

\* What is recorded of a message is a row that is there.
LEMMA ResultsTyped ==
  ASSUME NEW copy \in Row, NEW m
  PROVE  /\ \A status \in Statuses \ {"NONE"} :
               Settle(copy, status) \in Row /\ Settle(copy, status) # NoRow
         /\ [copy EXCEPT !.status = "SKIPPED"] \in Row
         /\ [copy EXCEPT !.status = "SKIPPED"] # NoRow
         /\ \A a \in Answers(m) : /\ After(copy, a) \in Row /\ After(copy, a) # NoRow
                                  /\ After(copy, a).status = "SENT" <=> a.ok
                                  /\ After(copy, a).status = "PENDING" => a.retry
<1>1. copy.attempts \in Nat /\ copy.attempts + 1 \in Nat
  BY DEF Row
<1>2. ASSUME NEW status \in Statuses \ {"NONE"}
      PROVE  Settle(copy, status) \in Row /\ Settle(copy, status) # NoRow
  BY <1>1 DEF Settle, Row, NoRow
<1>3. [copy EXCEPT !.status = "SKIPPED"] \in Row /\ [copy EXCEPT !.status = "SKIPPED"] # NoRow
  BY DEF Row, NoRow, Statuses
<1>4. ASSUME NEW a \in Answers(m)
      PROVE  /\ After(copy, a) \in Row /\ After(copy, a) # NoRow
             /\ After(copy, a).status = "SENT" <=> a.ok
             /\ After(copy, a).status = "PENDING" => a.retry
  <2>1. After(copy, a).attempts = copy.attempts + 1 /\ After(copy, a).attempts # 0
    BY <1>1 DEF After
  <2>2. /\ After(copy, a).status \in Statuses
        /\ After(copy, a).status = "SENT" <=> a.ok
        /\ After(copy, a).status = "PENDING" => a.retry
    BY DEF After, Statuses
  <2>3. After(copy, a) \in Row
    BY <1>1, <2>1, <2>2 DEF After, Row
  <2>4. After(copy, a) # NoRow
    BY <2>1 DEF NoRow
  <2> QED BY <2>2, <2>3, <2>4
<1> QED BY <1>2, <1>3, <1>4

\* The answers of a provider, taken apart.
LEMMA AnswersApart ==
  ASSUME NEW m, NEW a \in Answers(m)
  PROVE  a.took \in BOOLEAN /\ a.ok \in BOOLEAN /\ a.retry \in BOOLEAN /\ (a.ok => a.took)
BY DEF Answers

\* What a worker has in hand is a copy of a row.
LEMMA CopyTyped ==
  ASSUME CountInv, NEW w \in Workers, NEW m \in Messages, Sends(w, m)
  PROVE  Copy(w) \in Row
<1>1. txn[w].todo \in Seq([m : Messages, copy : Row]) /\ txn[w].todo # << >>
  BY DEF Sends, CountInv, Typed, IsTxn
<1>2. Head(txn[w].todo) \in [m : Messages, copy : Row]
  BY <1>1, HeadTailProperties
<1> QED BY <1>2 DEF Copy

\* A send is a Done, with a charge for an SMS that was taken, and a doubt for an answer lost.
LEMMA SendIsDone ==
  ASSUME CountInv, NEW w \in Workers, NEW m \in Messages,
         SendNowhere(w, m) \/ SendUnpaid(w, m) \/ SendOut(w, m)
  PROVE  /\ Sends(w, m) /\ UNCHANGED <<event, row, entries, left>>
         /\ doubt' \in [Messages -> Nat] /\ \A n \in Messages : doubt'[n] >= doubt[n]
         /\ UNCHANGED <<balance, page, putBack>>
         /\ \E r \in Row, charge \in {-1, 0}, took \in {0, 1} :
               /\ r # NoRow /\ Done(w, r, charge, took)
               /\ charge = -1 => Seen(w) >= 1
               /\ took = 1 /\ r.status = "PENDING" => doubt'[m] >= doubt[m] + 1
               /\ charge = -1 => took = 1 /\ LockFree(w) /\ lock' = w
               /\ ChannelOf[m] = "sms" /\ r.status = "SENT" => charge = -1
               /\ lock' = lock \/ (lock' = w /\ LockFree(w))
<1>1. Sends(w, m) /\ UNCHANGED <<event, row, entries, left, balance, page, putBack>>
  BY DEF SendNowhere, SendUnpaid, SendOut, records
<1>2. Copy(w) \in Row
  BY <1>1, CopyTyped
<1>3. doubt \in [Messages -> Nat]
  BY DEF CountInv, Typed
<1>4. CASE SendNowhere(w, m) \/ SendUnpaid(w, m)
  <2>1. doubt' = doubt /\ lock' = lock
    BY <1>4 DEF SendNowhere, SendUnpaid
  <2>2. PICK r \in Row : /\ r # NoRow /\ Done(w, r, 0, 0)
                         /\ ~(ChannelOf[m] = "sms" /\ r.status = "SENT")
    <3>1. CASE Done(w, [Copy(w) EXCEPT !.status = "SKIPPED"], 0, 0)
      <4>1. [Copy(w) EXCEPT !.status = "SKIPPED"].status # "SENT"
        BY <1>2 DEF Row
      <4> QED BY <1>2, <3>1, <4>1, ResultsTyped
    <3>2. CASE \/ ChannelOf[m] = "in_app" /\ Done(w, Settle(Copy(w), "SENT"), 0, 0)
               \/ Done(w, Settle(Copy(w), "SKIPPED"), 0, 0)
               \/ Done(w, Settle(Copy(w), "FAILED"), 0, 0)
      <4>1. Settle(Copy(w), "SKIPPED").status # "SENT" /\ Settle(Copy(w), "FAILED").status # "SENT"
        BY DEF Settle
      <4>2. {"SENT", "SKIPPED", "FAILED"} \subseteq Statuses \ {"NONE"}
        BY DEF Statuses
      <4> QED BY <1>2, <3>2, <4>1, <4>2, ResultsTyped
    <3> QED BY <1>4, <3>1, <3>2 DEF SendNowhere, SendUnpaid
  <2> QED BY <1>1, <1>3, <2>1, <2>2
<1>5. CASE SendOut(w, m)
  <2>1. PICK a \in Answers(m) :
           /\ Done(w, After(Copy(w), a), Charge(m, a), IF a.took THEN 1 ELSE 0)
           /\ doubt' = [doubt EXCEPT ![m] = @ + IF a.took /\ a.retry THEN 1 ELSE 0]
    BY <1>5 DEF SendOut
  <2>2. /\ lock' = (IF ChannelOf[m] = "sms" THEN w ELSE lock)
        /\ ChannelOf[m] = "sms" => LockFree(w) /\ Seen(w) >= 1
    BY <1>5 DEF SendOut
  <2>3. /\ After(Copy(w), a) \in Row /\ After(Copy(w), a) # NoRow
        /\ After(Copy(w), a).status = "SENT" <=> a.ok
        /\ After(Copy(w), a).status = "PENDING" => a.retry
    BY <1>2, ResultsTyped
  <2>4. a.took \in BOOLEAN /\ a.ok \in BOOLEAN /\ a.retry \in BOOLEAN /\ (a.ok => a.took)
    BY AnswersApart
  <2>5. /\ doubt' \in [Messages -> Nat] /\ \A n \in Messages : doubt'[n] >= doubt[n]
        /\ a.took /\ a.retry => doubt'[m] >= doubt[m] + 1
    <3> DEFINE lost == IF a.took /\ a.retry THEN 1 ELSE 0
    <3>1. doubt' = [doubt EXCEPT ![m] = doubt[m] + lost]
      BY <2>1
    <3>2. lost \in {0, 1} /\ (a.took /\ a.retry => lost = 1)
      BY <2>4
    <3> HIDE DEF lost
    <3> QED BY <1>3, <3>1, <3>2
  <2>6. /\ Charge(m, a) \in {-1, 0} /\ (Charge(m, a) = -1 <=> ChannelOf[m] = "sms" /\ a.ok)
    BY DEF Charge
  <2> DEFINE took == IF a.took THEN 1 ELSE 0
  <2>7. took \in {0, 1} /\ (took = 1 <=> a.took)
    BY <2>4
  <2>8. took = 1 /\ After(Copy(w), a).status = "PENDING" => doubt'[m] >= doubt[m] + 1
    BY <1>3, <2>3, <2>5, <2>7
  <2>9. Done(w, After(Copy(w), a), Charge(m, a), took)
    BY <2>1
  <2> HIDE DEF took
  <2>10. Charge(m, a) = -1 => took = 1 /\ LockFree(w) /\ lock' = w /\ Seen(w) >= 1
    BY <2>2, <2>4, <2>6, <2>7
  <2>11. lock' = lock \/ (lock' = w /\ LockFree(w))
    BY <2>2
  <2> QED BY <1>1, <2>3, <2>5, <2>6, <2>7, <2>8, <2>9, <2>10, <2>11
<1> QED BY <1>4, <1>5

\* So every send keeps the count.
LEMMA SendKeeps ==
  ASSUME CountInv, NEW w \in Workers, Send(w)
  PROVE  CountInv'
<1>1. PICK m \in Messages : SendNowhere(w, m) \/ SendUnpaid(w, m) \/ SendOut(w, m)
  BY DEF Send
<1>2. /\ Sends(w, m) /\ UNCHANGED <<event, row, entries, left>>
      /\ doubt' \in [Messages -> Nat] /\ \A n \in Messages : doubt'[n] >= doubt[n]
  BY <1>1, SendIsDone
<1>3. PICK r \in Row, charge \in {-1, 0}, took \in {0, 1} :
         /\ r # NoRow /\ Done(w, r, charge, took)
         /\ took = 1 /\ r.status = "PENDING" => doubt'[m] >= doubt[m] + 1
  BY <1>1, SendIsDone
<1> QED BY <1>2, <1>3, DoneKeeps

-----------------------------------------------------------------------------
(* Taking messages up, and committing them.                                *)

\* w takes up the messages of S: each is in doubt from now on, or in nobody else's hands
\* and as often taken as it is in doubt at most.
LEMMA TakingUp ==
  ASSUME CountInv, Typed', NEW w \in Workers, NEW S \in SUBSET Messages,
         \A v \in Workers \ {w} : txn'[v] = txn[v], txn'[w] # Idle,
         \A m \in Messages : ~Holds(w, m) /\ ~Wrote(w, m),
         \A m \in Messages : (Holds(w, m)' => m \in S) /\ ~Wrote(w, m)' /\ txn'[w].taken[m] = 0,
         \A j, k \in DOMAIN txn'[w].todo : txn'[w].todo[j].m = txn'[w].todo[k].m => j = k,
         \A m \in S : \/ txn'[w].op = "RETRY" /\ row[m] # NoRow
                      \/ txn'[w].op = "DISPATCH" /\ Of[m] = Head(txn'[w].queue) /\ row[m] = NoRow,
         row' = row, accepted' = accepted, \A m \in Messages : doubt'[m] >= doubt[m],
         \A m \in S : \/ doubt'[m] >= doubt[m] + 1
                      \/ accepted[m] <= doubt[m] /\ \A v \in Workers : ~Holds(v, m) /\ ~Wrote(v, m)
  PROVE  OnceEach' /\ WhoseMessages' /\ TokensCount' /\ PendingIsDoubtful'
<1>1. OnceEach'
  <2> SUFFICES ASSUME NEW v \in Workers, txn'[v] # Idle
               PROVE /\ \A j, k \in DOMAIN txn'[v].todo : txn'[v].todo[j].m = txn'[v].todo[k].m => j = k
                     /\ \A m \in Messages :
                          /\ Holds(v, m)' => ~Wrote(v, m)'
                          /\ IF Wrote(v, m)' THEN txn'[v].rows[m] # NoRow ELSE txn'[v].taken[m] = 0
    BY DEF OnceEach
  <2>1. CASE v = w
    BY <2>1
  <2>2. CASE v # w
    BY <2>2, OthersKeep DEF CountInv, OnceEach
  <2> QED BY <2>1, <2>2
<1>2. WhoseMessages'
  BY OthersKeep DEF CountInv, WhoseMessages
<1>3. TokensCount'
  <2> SUFFICES ASSUME NEW m \in Messages
               PROVE accepted'[m] + Cardinality(Tokens(m)') <= 1 + doubt'[m]
    BY DEF TokensCount
  <2>1. accepted[m] \in Nat /\ doubt[m] \in Nat /\ doubt'[m] \in Nat /\ doubt'[m] >= doubt[m]
    BY NamesApart DEF CountInv, Typed
  <2>2. Tokens(m) \subseteq Workers /\ Tokens(m)' \subseteq Workers
    BY DEF Tokens
  <2>3. Cardinality(Tokens(m)) \in Nat /\ Cardinality(Tokens(m)') \in Nat
    BY <2>2, WorkersCount
  <2>4. accepted[m] + Cardinality(Tokens(m)) <= 1 + doubt[m]
    BY DEF CountInv, TokensCount
  <2>5. Tokens(m)' \subseteq Tokens(m) \cup {w}
    BY OthersKeep DEF Tokens
  <2>6. CASE m \notin S
    <3>1. Tokens(m)' \subseteq Tokens(m)
      BY <2>5, <2>6 DEF Tokens, Token
    <3>2. Cardinality(Tokens(m)') <= Cardinality(Tokens(m))
      BY <2>2, <3>1, WorkersCount
    <3> QED BY <2>1, <2>3, <2>4, <3>2
  <2>7. CASE doubt'[m] >= doubt[m] + 1
    <3>1. Cardinality(Tokens(m)') <= Cardinality(Tokens(m)) + 1
      BY <2>2, <2>5, OneMore
    <3> QED BY <2>1, <2>3, <2>4, <2>7, <3>1
  <2>8. CASE accepted[m] <= doubt[m] /\ \A v \in Workers : ~Holds(v, m) /\ ~Wrote(v, m)
    <3>1. Tokens(m) = {}
      BY <2>8 DEF Tokens, Token
    <3>2. Cardinality(Tokens(m)') <= Cardinality(Tokens(m)) + 1 /\ Cardinality(Tokens(m)) = 0
      BY <2>2, <2>5, <3>1, OneMore, FS_EmptySet
    <3> QED BY <2>1, <2>3, <2>8, <3>2
  <2> QED BY <2>6, <2>7, <2>8
<1>4. PendingIsDoubtful'
  <2> SUFFICES ASSUME NEW m \in Messages, row[m].status = "PENDING",
                      \A v \in Workers : ~Holds(v, m)' /\ ~Wrote(v, m)'
               PROVE accepted[m] <= doubt'[m]
    BY DEF PendingIsDoubtful
  <2>1. \A v \in Workers : ~Holds(v, m) /\ ~Wrote(v, m)
    BY OthersKeep
  <2>2. accepted[m] <= doubt[m]
    BY <2>1 DEF CountInv, PendingIsDoubtful
  <2>3. accepted[m] \in Nat /\ doubt[m] \in Nat /\ doubt'[m] \in Nat
    BY NamesApart DEF CountInv, Typed
  <2> QED BY <2>2, <2>3
<1> QED BY <1>1, <1>2, <1>3, <1>4

\* Who dispatches has the event in its queue.
LEMMA HeadIsQueued ==
  ASSUME CountInv, NEW w \in Workers, txn[w] # Idle, txn[w].op \in {"NEXT", "DISPATCH"}
  PROVE  /\ Head(txn[w].queue) \in Events /\ Queued(w, Head(txn[w].queue))
         /\ event[Head(txn[w].queue)] # "NONE"
<1>1. txn[w].queue \in Seq(Events) /\ txn[w].queue # << >>
  BY DEF CountInv, Queues, Typed, IsTxn
<1>2. Head(txn[w].queue) \in Events
  BY <1>1, HeadTailProperties
<1>3. 1 \in DOMAIN txn[w].queue /\ Head(txn[w].queue) = txn[w].queue[1]
  BY <1>1, LenProperties, EmptySeq
<1>4. Queued(w, Head(txn[w].queue))
  BY <1>3 DEF Queued
<1> QED BY <1>2, <1>4 DEF CountInv, Queues

\* What was sent is recorded: whoever has not given up its token has recorded a failure.
LEMMA Committing ==
  ASSUME CountInv, Typed', NEW w \in Workers,
         txn[w] # Idle, txn[w].op \in {"DISPATCH", "RETRY"}, txn[w].todo = << >>,
         \A v \in Workers \ {w} : txn'[v] = txn[v],
         \A m \in Messages : ~Holds(w, m)' /\ ~Wrote(w, m)',
         txn'[w] # Idle => DOMAIN txn'[w].todo = {} /\ \A m \in Messages : txn'[w].taken[m] = 0,
         \A m \in Messages : row'[m] = IF Wrote(w, m) THEN txn[w].rows[m] ELSE row[m],
         accepted' = accepted, doubt' = doubt
  PROVE  OnceEach' /\ WhoseMessages' /\ TokensCount' /\ PendingIsDoubtful'
<1>1. \A m \in Messages : ~Holds(w, m)
  BY DEF Holds
<1>2. OnceEach'
  <2> SUFFICES ASSUME NEW v \in Workers, txn'[v] # Idle
               PROVE /\ \A j, k \in DOMAIN txn'[v].todo : txn'[v].todo[j].m = txn'[v].todo[k].m => j = k
                     /\ \A m \in Messages :
                          /\ Holds(v, m)' => ~Wrote(v, m)'
                          /\ IF Wrote(v, m)' THEN txn'[v].rows[m] # NoRow ELSE txn'[v].taken[m] = 0
    BY DEF OnceEach
  <2>1. CASE v = w
    BY <2>1
  <2>2. CASE v # w
    BY <2>2, OthersKeep DEF CountInv, OnceEach
  <2> QED BY <2>1, <2>2
<1>3. WhoseMessages'
  <2> SUFFICES ASSUME NEW v \in Workers, txn'[v] # Idle, NEW m \in Messages,
                      Holds(v, m)' \/ Wrote(v, m)'
               PROVE \/ txn'[v].op = "RETRY" /\ row'[m] # NoRow
                     \/ txn'[v].op = "DISPATCH" /\ Of[m] = Head(txn'[v].queue) /\ row'[m] = NoRow
    BY DEF WhoseMessages
  <2>1. v # w /\ txn'[v] = txn[v] /\ (Holds(v, m) \/ Wrote(v, m))
    BY OthersKeep
  <2>2. CASE txn[v].op = "RETRY" /\ row[m] # NoRow
    BY <2>1, <2>2 DEF CountInv, OnceEach
  <2>3. CASE txn[v].op = "DISPATCH" /\ Of[m] = Head(txn[v].queue) /\ row[m] = NoRow
    <3>1. ~Wrote(w, m)
      <4> SUFFICES ASSUME Wrote(w, m) PROVE FALSE
        OBVIOUS
      <4>1. txn[w].op = "DISPATCH" /\ Of[m] = Head(txn[w].queue)
        BY <2>3 DEF CountInv, WhoseMessages
      <4>2. Queued(w, Of[m]) /\ Queued(v, Of[m]) /\ Of[m] \in Events
        BY <2>1, <2>3, <4>1, HeadIsQueued
      <4> QED BY <2>1, <4>2 DEF CountInv, Queues
    <3> QED BY <2>1, <2>3, <3>1
  <2> QED BY <2>1, <2>2, <2>3 DEF CountInv, WhoseMessages
<1>4. TokensCount'
  <2> SUFFICES ASSUME NEW m \in Messages
               PROVE accepted[m] + Cardinality(Tokens(m)') <= 1 + doubt[m]
    BY DEF TokensCount
  <2>1. accepted[m] \in Nat /\ doubt[m] \in Nat
    BY NamesApart DEF CountInv, Typed
  <2>2. Tokens(m)' \subseteq Tokens(m) /\ Tokens(m) \subseteq Workers
    BY OthersKeep DEF Tokens, Token
  <2>3. Cardinality(Tokens(m)') <= Cardinality(Tokens(m))
    BY <2>2, WorkersCount
  <2>4. Cardinality(Tokens(m)') \in Nat /\ Cardinality(Tokens(m)) \in Nat
    BY <2>2, WorkersCount
  <2>5. accepted[m] + Cardinality(Tokens(m)) <= 1 + doubt[m]
    BY DEF CountInv, TokensCount
  <2> QED BY <2>1, <2>3, <2>4, <2>5
<1>5. PendingIsDoubtful'
  <2> SUFFICES ASSUME NEW m \in Messages, row'[m].status = "PENDING",
                      \A v \in Workers : ~Holds(v, m)' /\ ~Wrote(v, m)'
               PROVE accepted[m] <= doubt[m]
    BY DEF PendingIsDoubtful
  <2>1. CASE Wrote(w, m)
    <3>1. w \in Tokens(m) /\ Tokens(m) \subseteq Workers
      BY <2>1 DEF Tokens, Token
    <3>2. Cardinality({}) + 1 <= Cardinality(Tokens(m))
      BY <3>1, OneLess
    <3>3. accepted[m] \in Nat /\ doubt[m] \in Nat /\ Cardinality(Tokens(m)) \in Nat
      BY <3>1, WorkersCount, NamesApart DEF CountInv, Typed
    <3>4. accepted[m] + Cardinality(Tokens(m)) <= 1 + doubt[m]
      BY DEF CountInv, TokensCount
    <3> QED BY <3>2, <3>3, <3>4, FS_EmptySet
  <2>2. CASE ~Wrote(w, m)
    <3>1. \A v \in Workers : ~Holds(v, m) /\ ~Wrote(v, m)
      BY <1>1, <2>2, OthersKeep
    <3> QED BY <2>2, <3>1 DEF CountInv, PendingIsDoubtful
  <2> QED BY <2>1, <2>2
<1> QED BY <1>2, <1>3, <1>4, <1>5

\* A transaction just opened with messages of S to send.
ToSend(w, op, queue, S) ==
    /\ IsTxn(txn'[w]) /\ txn'[w] # Idle /\ txn'[w].op = op /\ txn'[w].queue = queue
    /\ txn'[w].made = Nothing
    /\ \A m \in Messages : (Holds(w, m)' => m \in S) /\ ~Wrote(w, m)' /\ txn'[w].taken[m] = 0
    /\ \A j, k \in DOMAIN txn'[w].todo : txn'[w].todo[j].m = txn'[w].todo[k].m => j = k

\* Open makes it of the listed copies of S.
LEMMA OpensToSend ==
  ASSUME NEW w \in Workers, NEW op \in Ops, NEW queue \in Seq(Events), NEW S \in SUBSET Messages,
         NEW todo, DOMAIN todo = DOMAIN SetToSeq(S),
         todo = [k \in DOMAIN todo |-> todo[k]],
         \A k \in DOMAIN todo : todo[k] \in [m : Messages, copy : Row] /\ todo[k].m = SetToSeq(S)[k],
         txn'[w] = Open(op, queue, todo)
  PROVE  ToSend(w, op, queue, S)
<1> DEFINE list == SetToSeq(S)
           n == Cardinality(S)
<1>1. IsFiniteSet(S)
  BY NotificationAssumption, FS_Subset
<1>2. /\ IsInjective(list) /\ DOMAIN list = 1 .. n /\ \A k \in DOMAIN list : list[k] \in S
  BY <1>1, ListsASet
<1>3. n \in Nat
  BY <1>1, FS_CardinalityType
<1> HIDE DEF list, n
<1>4. DOMAIN todo = 1 .. n /\ \A k \in DOMAIN todo : todo[k].m = list[k]
  BY <1>2 DEF list
<1>5. todo \in Seq([m : Messages, copy : Row])
  <2> DEFINE R == [m : Messages, copy : Row]
  <2>1. todo \in [1 .. n -> R]
    BY <1>4
  <2> HIDE DEF R
  <2>2. todo \in Seq(R)
    BY <1>3, <2>1, SeqDef
  <2> QED BY <2>2 DEF R
<1>6. Opened(txn'[w], op, queue, todo)
  BY <1>5, OpenTyped
<1>7. /\ IsTxn(txn'[w]) /\ txn'[w] # Idle /\ txn'[w].op = op /\ txn'[w].queue = queue
      /\ txn'[w].made = Nothing /\ txn'[w].todo = todo /\ DOMAIN txn'[w].rows = {}
      /\ \A m \in Messages : txn'[w].taken[m] = 0
  BY <1>6 DEF Opened
<1>8. \A m \in Messages : (Holds(w, m)' => m \in S) /\ ~Wrote(w, m)'
  BY <1>2, <1>4, <1>7 DEF Holds, Wrote
<1>9. \A j, k \in DOMAIN todo : todo[j].m = todo[k].m => j = k
  BY <1>2, <1>4 DEF IsInjective
<1> QED BY <1>7, <1>8, <1>9 DEF ToSend

\* Dispatching an event takes up messages nobody has ever had.
LEMMA BeginDispatchKeeps ==
  ASSUME CountInv, NEW w \in Workers, BeginDispatch(w)
  PROVE  CountInv'
<1> DEFINE e == Head(txn[w].queue)
           S == {m \in Messages : Of[m] = e /\ row[m] = NoRow}
           new == SetToSeq(S)
           todo == [k \in DOMAIN new |-> [m |-> new[k], copy |-> Fresh]]
<1>1. /\ txn[w] # Idle /\ txn[w].op = "NEXT"
      /\ txn' = [txn EXCEPT ![w] = Open("DISPATCH", txn[w].queue, todo)]
      /\ UNCHANGED <<event, row, entries, accepted, doubt, left>>
  BY DEF BeginDispatch, Doing, records
<1>2. IsTxn(txn[w]) /\ txn[w].queue \in Seq(Events)
  BY <1>1 DEF CountInv, Typed, IsTxn
<1>3. \A k \in DOMAIN todo : todo[k] \in [m : Messages, copy : Row] /\ todo[k].m = new[k]
  <2>1. IsFiniteSet(S) /\ S \in SUBSET Messages
    BY NotificationAssumption, FS_Subset
  <2>2. \A k \in DOMAIN new : new[k] \in Messages
    BY <2>1, ListsASet
  <2>3. Fresh \in Row
    BY DEF Fresh, Row, Statuses
  <2> QED BY <2>2, <2>3
<1>4. DOMAIN todo = DOMAIN new /\ todo = [k \in DOMAIN todo |-> todo[k]]
  OBVIOUS
<1>5. /\ DOMAIN txn' = Workers /\ \A v \in Workers \ {w} : txn'[v] = txn[v]
      /\ txn'[w] = Open("DISPATCH", txn[w].queue, todo)
  BY <1>1 DEF CountInv, Typed
<1>6. S \in SUBSET Messages /\ \A m \in S : Of[m] = e /\ row[m] = NoRow
  OBVIOUS
<1> HIDE DEF todo, S, e
<1>7. /\ IsTxn(txn'[w]) /\ txn'[w] # Idle /\ txn'[w].op = "DISPATCH" /\ txn'[w].queue = txn[w].queue
      /\ \A m \in Messages : (Holds(w, m)' => m \in S) /\ ~Wrote(w, m)' /\ txn'[w].taken[m] = 0
      /\ \A j, k \in DOMAIN txn'[w].todo : txn'[w].todo[j].m = txn'[w].todo[k].m => j = k
  <2>1. ToSend(w, "DISPATCH", txn[w].queue, S)
    BY <1>2, <1>3, <1>4, <1>5, <1>6, OpensToSend DEF Ops
  <2> QED BY <2>1 DEF ToSend
<1>8. Typed'
  BY <1>1, <1>5, <1>7 DEF CountInv, Typed
<1>9. e \in Events /\ Queued(w, e) /\ event[e] # "NONE"
  BY <1>1, HeadIsQueued DEF e
<1>10. \A m \in S : accepted[m] = 0 /\ \A v \in Workers : ~Holds(v, m) /\ ~Wrote(v, m)
  <2>1. Awaited(e)
    BY <1>1, <1>9 DEF Awaited
  <2> QED BY <1>6, <2>1 DEF CountInv, Untouched
<1>11. OnceEach' /\ WhoseMessages' /\ TokensCount' /\ PendingIsDoubtful'
  <2>1. \A m \in Messages : ~Holds(w, m) /\ ~Wrote(w, m)
    BY <1>1, EmptyHanded
  <2>2. \A m \in Messages : doubt[m] \in Nat /\ doubt'[m] = doubt[m]
    BY <1>1 DEF CountInv, Typed
  <2>3. \A m \in S : Of[m] = Head(txn'[w].queue) /\ row[m] = NoRow
    BY <1>6, <1>7 DEF e
  <2>4. (\A m \in Messages : doubt'[m] >= doubt[m]) /\ (\A m \in S : accepted[m] <= doubt[m])
    BY <1>6, <1>10, <2>2
  <2>5. row' = row /\ accepted' = accepted
    BY <1>1
  <2> QED BY <1>5, <1>6, <1>7, <1>8, <1>10, <2>1, <2>3, <2>4, <2>5, TakingUp
<1>12. \A v \in Workers, x \in Events : Queued(v, x)' <=> Queued(v, x)
  BY <1>1, <1>5, <1>7, OthersKeep DEF Queued
<1>13. Queues'
  <2>1. ASSUME NEW v \in Workers, txn'[v] # Idle
        PROVE  /\ txn[v] # Idle /\ txn'[v].queue = txn[v].queue
               /\ txn'[v].op = txn[v].op \/ (txn[v].op = "NEXT" /\ txn'[v].op = "DISPATCH")
    BY <1>1, <1>5, <1>7, <2>1
  <2>2. event' = event
    BY <1>1
  <2> QED BY <1>12, <2>1, <2>2 DEF CountInv, Queues
<1>14. Untouched'
  <2>1. \A x \in Events : Awaited(x)' => Awaited(x) /\ x # e
    <3> SUFFICES ASSUME NEW x \in Events, Awaited(x)' PROVE Awaited(x) /\ x # e
      OBVIOUS
    <3>1. CASE event[x] = "NONE"
      BY <1>9, <3>1 DEF Awaited
    <3>2. CASE event[x] # "NONE"
      <4>1. PICK v \in Workers : Queued(v, x)' /\ ~(txn'[v].op = "DISPATCH" /\ x = Head(txn'[v].queue))
        BY <1>1, <3>2 DEF Awaited
      <4>2. x # e
        BY <1>7, <1>9, <1>12, <4>1 DEF CountInv, Queues, e
      <4>3. Queued(v, x) /\ ~(txn[v].op = "DISPATCH" /\ x = Head(txn[v].queue))
        BY <1>1, <1>5, <1>12, <4>1
      <4> QED BY <4>2, <4>3 DEF Awaited
    <3> QED BY <3>1, <3>2
  <2>2. \A m \in Messages : accepted'[m] = accepted[m] /\ row'[m] = row[m]
    BY <1>1
  <2>3. \A v \in Workers, m \in Messages : Of[m] # e =>
           (Holds(v, m)' => Holds(v, m)) /\ (Wrote(v, m)' => Wrote(v, m))
    BY <1>5, <1>6, <1>7, OthersKeep
  <2> QED BY <2>1, <2>2, <2>3, OfTyped DEF CountInv, Untouched
<1> QED BY <1>8, <1>11, <1>13, <1>14 DEF CountInv

\* Trying again takes up what is pending: in doubt if somebody has it in hand.
LEMMA BeginRetryKeeps ==
  ASSUME CountInv, NEW w \in Workers, BeginRetry(w)
  PROVE  CountInv'
<1> DEFINE S == ToRetry
           old == SetToSeq(S)
           todo == [k \in DOMAIN old |-> [m |-> old[k], copy |-> row[old[k]]]]
<1>1. /\ txn[w] = Idle
      /\ txn' = [txn EXCEPT ![w] = Open("RETRY", << >>, todo)]
      /\ doubt' = [m \in Messages |-> doubt[m] + IF m \in ToRetry /\ InHand(m) THEN 1 ELSE 0]
      /\ UNCHANGED <<event, row, entries, accepted, left>>
  BY DEF BeginRetry, records
<1>2. S \in SUBSET Messages /\ \A m \in S : row[m].status = "PENDING"
  BY DEF ToRetry
<1>3. \A k \in DOMAIN todo : todo[k] \in [m : Messages, copy : Row] /\ todo[k].m = old[k]
  <2>1. IsFiniteSet(S)
    BY <1>2, NotificationAssumption, FS_Subset
  <2>2. \A k \in DOMAIN old : old[k] \in Messages
    BY <1>2, <2>1, ListsASet
  <2>3. \A m \in Messages : row[m] \in Row
    BY DEF CountInv, Typed
  <2> QED BY <2>2, <2>3
<1>4. DOMAIN todo = DOMAIN old /\ todo = [k \in DOMAIN todo |-> todo[k]]
  OBVIOUS
<1> DEFINE none == << >>
<1>5. none \in Seq(Events) /\ DOMAIN none = {}
  OBVIOUS
<1>6. /\ DOMAIN txn' = Workers /\ \A v \in Workers \ {w} : txn'[v] = txn[v]
      /\ txn'[w] = Open("RETRY", none, todo)
  BY <1>1 DEF CountInv, Typed
<1> HIDE DEF todo, S, none
<1>7. /\ IsTxn(txn'[w]) /\ txn'[w] # Idle /\ txn'[w].op = "RETRY" /\ txn'[w].queue = none
      /\ \A m \in Messages : (Holds(w, m)' => m \in S) /\ ~Wrote(w, m)' /\ txn'[w].taken[m] = 0
      /\ \A j, k \in DOMAIN txn'[w].todo : txn'[w].todo[j].m = txn'[w].todo[k].m => j = k
  <2>1. ToSend(w, "RETRY", none, S)
    BY <1>2, <1>3, <1>4, <1>5, <1>6, OpensToSend DEF Ops
  <2> QED BY <2>1 DEF ToSend
<1>8. /\ doubt' \in [Messages -> Nat] /\ \A m \in Messages : doubt'[m] >= doubt[m]
      /\ \A m \in S : InHand(m) => doubt'[m] >= doubt[m] + 1
  <2> DEFINE more(m) == IF m \in ToRetry /\ InHand(m) THEN 1 ELSE 0
  <2>1. doubt \in [Messages -> Nat]
    BY DEF CountInv, Typed
  <2>2. doubt' = [m \in Messages |-> doubt[m] + more(m)]
    BY <1>1
  <2>3. \A m \in Messages : more(m) \in {0, 1} /\ (m \in S /\ InHand(m) => more(m) = 1)
    BY DEF S
  <2> HIDE DEF more
  <2> QED BY <1>2, <2>1, <2>2, <2>3
<1>9. Typed'
  BY <1>1, <1>6, <1>7, <1>8 DEF CountInv, Typed
<1>10. \A m \in S : row[m] # NoRow
  BY <1>2 DEF NoRow
<1>11. ASSUME NEW m \in S, ~InHand(m)
       PROVE  accepted[m] <= doubt[m] /\ \A v \in Workers : ~Holds(v, m) /\ ~Wrote(v, m)
  <2>1. \A v \in Workers : ~Holds(v, m) /\ ~Wrote(v, m)
    <3> SUFFICES ASSUME NEW v \in Workers, Holds(v, m) \/ Wrote(v, m) PROVE FALSE
      OBVIOUS
    <3>1. txn[v] # Idle /\ txn[v].op = "RETRY"
      BY <1>2, <1>10 DEF CountInv, WhoseMessages, Holds, Wrote
    <3> QED BY <1>11, <3>1 DEF InHand, Doing, Holds, Wrote
  <2> QED BY <1>2, <2>1 DEF CountInv, PendingIsDoubtful
<1>12. OnceEach' /\ WhoseMessages' /\ TokensCount' /\ PendingIsDoubtful'
  <2>1. \A m \in Messages : ~Holds(w, m) /\ ~Wrote(w, m)
    BY <1>1, EmptyHanded
  <2>2. row' = row /\ accepted' = accepted
    BY <1>1
  <2> QED BY <1>2, <1>6, <1>7, <1>8, <1>9, <1>10, <1>11, <2>1, <2>2, TakingUp
<1>13. Queues' /\ Untouched'
  <2>1. \A x \in Events : ~Queued(w, x)'
    BY <1>5, <1>7 DEF Queued
  <2>2. IsInjective(txn'[w].queue)
    BY <1>5, <1>7 DEF IsInjective
  <2>3. \A m \in Messages : Holds(w, m)' \/ Wrote(w, m)' => row[m] # NoRow
    BY <1>7, <1>10
  <2>4. event' = event /\ row' = row /\ \A m \in Messages : accepted'[m] = accepted[m]
    BY <1>1
  <2> QED BY <1>6, <1>7, <2>1, <2>2, <2>3, <2>4, DropsQueue
<1> QED BY <1>9, <1>12, <1>13 DEF CountInv

\* What was sent on trying again is recorded.
LEMMA EndRetryKeeps ==
  ASSUME CountInv, NEW w \in Workers, EndRetry(w)
  PROVE  CountInv'
<1>1. /\ txn[w] # Idle /\ txn[w].op = "RETRY" /\ txn[w].todo = << >>
      /\ Commit(w, Idle) /\ UNCHANGED <<event, doubt>>
  BY DEF EndRetry, Doing
<1>2. /\ DOMAIN txn' = Workers /\ txn'[w] = Idle /\ \A v \in Workers \ {w} : txn'[v] = txn[v]
      /\ row' \in [Messages -> Row] /\ entries' \in [Accounts -> Int]
      /\ accepted' = accepted /\ left' = left
      /\ \A m \in Messages : row'[m] = IF Wrote(w, m) THEN txn[w].rows[m] ELSE row[m]
  BY <1>1, CommitDoes
<1>3. Typed'
  BY <1>1, <1>2 DEF CountInv, Typed
<1>4. OnceEach' /\ WhoseMessages' /\ TokensCount' /\ PendingIsDoubtful'
  BY <1>1, <1>2, <1>3, IdleHasNothing, Committing
<1>5. \A v \in Workers, e \in Events : Queued(v, e)' <=> Queued(v, e)
  <2>1. \A e \in Events : ~Queued(w, e) /\ ~Queued(w, e)'
    BY <1>1, <1>2, IdleHasNothing DEF CountInv, Queues
  <2> QED BY <1>2, <2>1, OthersKeep
<1>6. Queues'
  BY <1>1, <1>2, <1>5 DEF CountInv, Queues
<1>7. Untouched'
  <2>1. \A e \in Events : Awaited(e)' => Awaited(e)
    BY <1>1, <1>2, <1>5, IdleHasNothing DEF Awaited
  <2>2. \A v \in Workers, m \in Messages :
           (Holds(v, m)' => Holds(v, m)) /\ (Wrote(v, m)' => Wrote(v, m))
    BY <1>2, OthersKeep, IdleHasNothing
  <2> QED BY <1>2, <2>1, <2>2, OfTyped DEF CountInv, Untouched
<1> QED BY <1>3, <1>4, <1>6, <1>7 DEF CountInv

\* The rest of a queue has what the queue had, but for its head.
LEMMA RestOfQueue ==
  ASSUME NEW queue \in Seq(Events), queue # << >>, IsInjective(queue), Len(queue) # 1
  PROVE  /\ Tail(queue) \in Seq(Events) /\ Tail(queue) # << >> /\ IsInjective(Tail(queue))
         /\ \A e \in Events : (\E k \in DOMAIN Tail(queue) : Tail(queue)[k] = e)
               => e # Head(queue) /\ \E k \in DOMAIN queue : queue[k] = e
<1> DEFINE rest == Tail(queue)
<1>1. /\ DOMAIN queue = 1 .. Len(queue) /\ Len(queue) \in Nat /\ Len(queue) # 0
      /\ rest \in Seq(Events)
      /\ Len(rest) = Len(queue) - 1 /\ \A i \in 1 .. Len(rest) : rest[i] = queue[i + 1]
  BY HeadTailProperties, LenProperties, EmptySeq
<1> HIDE DEF rest
<1>2. DOMAIN rest = 1 .. Len(rest) /\ Len(rest) # 0 /\ Head(queue) = queue[1]
  BY <1>1, LenProperties
<1>3. rest # << >>
  BY <1>1, <1>2, EmptySeq
<1>4. \A k \in DOMAIN rest : k \in 1 .. Len(rest) /\ k + 1 \in DOMAIN queue /\ k + 1 # 1 /\ rest[k] = queue[k + 1]
  BY <1>1, <1>2
<1>5. 1 \in DOMAIN queue
  BY <1>1
<1>6. IsInjective(rest)
  BY <1>1, <1>2, <1>4 DEF IsInjective
<1>7. \A k \in DOMAIN rest : rest[k] # Head(queue)
  BY <1>2, <1>4, <1>5 DEF IsInjective
<1> QED BY <1>1, <1>3, <1>4, <1>6, <1>7 DEF rest

\* An event is dispatched, and the worker goes on with the next of its queue.
LEMMA EndDispatchKeeps ==
  ASSUME CountInv, NEW w \in Workers, EndDispatch(w)
  PROVE  CountInv'
<1> DEFINE queue == txn[w].queue
           e == Head(queue)
           then == IF Len(queue) = 1 THEN Idle ELSE Open("NEXT", Tail(queue), << >>)
<1>1. /\ txn[w] # Idle /\ txn[w].op = "DISPATCH" /\ txn[w].todo = << >>
      /\ event' = [event EXCEPT ![e] = "DISPATCHED"]
      /\ Commit(w, then) /\ doubt' = doubt
  BY DEF EndDispatch, Doing
<1>2. queue \in Seq(Events) /\ queue # << >> /\ IsInjective(queue)
  BY <1>1 DEF CountInv, Typed, IsTxn, Queues
<1>3. e \in Events /\ Queued(w, e) /\ event[e] # "NONE"
  BY <1>1, HeadIsQueued
<1> HIDE DEF then
<1>4. /\ DOMAIN txn' = Workers /\ txn'[w] = then /\ \A v \in Workers \ {w} : txn'[v] = txn[v]
      /\ row' \in [Messages -> Row] /\ entries' \in [Accounts -> Int]
      /\ accepted' = accepted /\ left' = left
      /\ \A m \in Messages : row'[m] = IF Wrote(w, m) THEN txn[w].rows[m] ELSE row[m]
  BY <1>1, CommitDoes
<1> DEFINE Goes == /\ IsTxn(txn'[w]) /\ txn'[w].op = "NEXT"
                   /\ IsInjective(txn'[w].queue) /\ txn'[w].queue # << >>
                   /\ DOMAIN txn'[w].todo = {} /\ \A m \in Messages : txn'[w].taken[m] = 0
<1>5. /\ txn'[w] # Idle => Goes
      /\ \A m \in Messages : ~Holds(w, m)' /\ ~Wrote(w, m)'
      /\ \A x \in Events : Queued(w, x)' => Queued(w, x) /\ x # e
  <2>1. CASE Len(queue) = 1
    BY <1>4, <2>1, IdleHasNothing DEF then
  <2>2. CASE Len(queue) # 1
    <3> DEFINE rest == Tail(queue)
    <3>1. /\ rest \in Seq(Events) /\ rest # << >> /\ IsInjective(rest)
          /\ \A x \in Events : (\E k \in DOMAIN rest : rest[k] = x)
                => x # e /\ \E k \in DOMAIN queue : queue[k] = x
      BY <1>2, <2>2, RestOfQueue
    <3>2. txn'[w] = Open("NEXT", rest, << >>)
      BY <1>4, <2>2 DEF then
    <3> HIDE DEF rest
    <3>3. /\ IsTxn(txn[w])' /\ txn'[w] # Idle /\ txn'[w].op = "NEXT" /\ txn'[w].queue = rest
          /\ DOMAIN txn'[w].todo = {}
          /\ \A m \in Messages : ~Holds(w, m)' /\ ~Wrote(w, m)' /\ txn'[w].taken[m] = 0
          /\ \A x \in Events : Queued(w, x)' <=> \E k \in DOMAIN rest : rest[k] = x
      BY <3>1, <3>2, OpensEmpty DEF Ops
    <3>4. \A x \in Events : Queued(w, x)' => Queued(w, x) /\ x # e
      BY <1>1, <3>1, <3>3 DEF Queued
    <3> QED BY <3>1, <3>3, <3>4
  <2> QED BY <2>1, <2>2
<1>6. event' \in [Events -> {"NONE", "EMITTED", "DISPATCHED"}]
      /\ event'[e] = "DISPATCHED" /\ \A x \in Events \ {e} : event'[x] = event[x]
  BY <1>1, <1>3 DEF CountInv, Typed
<1> HIDE DEF e, queue
<1>7. Typed'
  BY <1>1, <1>4, <1>5, <1>6 DEF CountInv, Typed
<1>8. OnceEach' /\ WhoseMessages' /\ TokensCount' /\ PendingIsDoubtful'
  BY <1>1, <1>4, <1>5, <1>7, Committing
<1>9. \A v \in Workers, x \in Events : Queued(v, x)' => Queued(v, x) /\ x # e
  BY <1>3, <1>4, <1>5, OthersKeep DEF CountInv, Queues
<1>10. Queues'
  <2>1. ASSUME NEW v \in Workers, txn'[v] # Idle
        PROVE /\ IsInjective(txn'[v].queue)
              /\ txn'[v].op \notin {"RETRY", "LINK"} => txn'[v].queue # << >>
              /\ \A x \in Events : Queued(v, x)' =>
                    \/ txn'[v].op = "BUSINESS" /\ event'[x] = "NONE"
                    \/ txn'[v].op \in {"NEXT", "DISPATCH"} /\ event'[x] # "NONE"
    <3>1. CASE v = w
      <4>1. \A x \in Events : Queued(w, x)' => event[x] # "NONE" /\ event'[x] = event[x]
        BY <1>1, <1>6, <1>9 DEF CountInv, Queues
      <4> QED BY <1>5, <2>1, <3>1, <4>1
    <3>2. CASE v # w
      BY <1>4, <1>6, <1>9, <2>1, <3>2 DEF CountInv, Queues
    <3> QED BY <3>1, <3>2
  <2> QED BY <1>9, <2>1 DEF CountInv, Queues
<1>11. Untouched'
  <2>1. \A x \in Events : Awaited(x)' => Awaited(x)
    <3> SUFFICES ASSUME NEW x \in Events, Awaited(x)' PROVE Awaited(x)
      OBVIOUS
    <3>1. CASE event'[x] = "NONE"
      BY <1>6, <3>1 DEF Awaited
    <3>2. ASSUME NEW v \in Workers, Queued(v, x)',
                 ~(txn'[v].op = "DISPATCH" /\ x = Head(txn'[v].queue))
          PROVE  Awaited(x)
      <4>1. Queued(v, x) /\ x # e
        BY <1>9, <3>2
      <4>2. ~(txn[v].op = "DISPATCH" /\ x = Head(txn[v].queue))
        BY <1>4, <3>2, <4>1 DEF e, queue
      <4> QED BY <4>1, <4>2 DEF Awaited
    <3> QED BY <3>1, <3>2 DEF Awaited
  <2>2. \A v \in Workers, m \in Messages :
           (Holds(v, m)' => Holds(v, m)) /\ (Wrote(v, m)' => Wrote(v, m))
    BY <1>4, <1>5, OthersKeep
  <2> QED BY <1>4, <2>1, <2>2, OfTyped DEF CountInv, Untouched
<1> QED BY <1>7, <1>8, <1>10, <1>11 DEF CountInv

\* A step that leaves the transactions, the rows and what was accepted alone.
LEMMA StillKeeps ==
  ASSUME CountInv, Typed', UNCHANGED <<event, row, txn, accepted, doubt>>
  PROVE  CountInv'
<1>1. OnceEach' /\ WhoseMessages' /\ Queues'
  BY DEF CountInv, OnceEach, WhoseMessages, Queues, Holds, Wrote, Queued
<1>2. Untouched'
  BY DEF CountInv, Untouched, Awaited, Queued, Holds, Wrote
<1>3. TokensCount' /\ PendingIsDoubtful'
  BY DEF CountInv, TokensCount, Tokens, Token, PendingIsDoubtful, Holds, Wrote
<1> QED BY <1>1, <1>2, <1>3 DEF CountInv

\* Every step keeps the count.
LEMMA CountInvNext == CountInv /\ [Next]_vars => CountInv'
<1> SUFFICES ASSUME CountInv, [Next]_vars PROVE CountInv'
  OBVIOUS
<1>1. CASE UNCHANGED vars
  BY <1>1, StillKeeps DEF vars, CountInv, Typed
<1>2. CASE TopUp
  <2>1. UNCHANGED <<event, row, txn, accepted, doubt>> /\ Spend("topups")
        /\ entries' = [entries EXCEPT !["bought"] = @ + 1]
    BY <1>2 DEF TopUp
  <2>2. "bought" \in Accounts
    BY NamesApart
  <2>3. entries' \in [Accounts -> Int]
    BY <2>1, <2>2 DEF CountInv, Typed
  <2>4. Typed'
    BY <2>1, <2>3, SpendTyped DEF CountInv, Typed
  <2> QED BY <2>1, <2>4, StillKeeps
<1>4. ASSUME NEW a \in Editors, ReadSettings(a) \/ SaveSettings(a) PROVE CountInv'
  <2>1. /\ UNCHANGED <<event, row, entries, txn, accepted, doubt>>
        /\ Spend("edits") \/ left' = left
    BY <1>4 DEF ReadSettings, SaveSettings
  <2>2. Typed'
    BY <2>1, SpendTyped DEF CountInv, Typed
  <2> QED BY <2>1, <2>2, StillKeeps
<1>3. ASSUME NEW w \in Workers,
             \/ Emit(w) \/ CommitBusiness(w) \/ RollbackBusiness(w)
             \/ BeginDispatch(w) \/ Send(w) \/ EndDispatch(w)
             \/ BeginRetry(w) \/ EndRetry(w) \/ SignInLink(w) \/ EndLink(w) \/ Dies(w)
      PROVE  CountInv'
  BY <1>3, EmitKeeps, CommitBusinessKeeps, StopKeeps, BeginDispatchKeeps, SendKeeps,
     EndDispatchKeeps, BeginRetryKeeps, EndRetryKeeps, LinkKeeps
<1> QED BY <1>1, <1>2, <1>3, <1>4 DEF Next

\* The provider takes a message at most once more often than its answer was worth another
\* try or its record crossed or died, for any workers, events and messages; one it took
\* and answered beyond recognition is not sent again (notifications/events.py: one
\* transaction per dispatch and per run of retry_pending; ujumbe_sms.py: _interpret).
THEOREM TakenAtMostOnce == Spec => []TakenOnceUnlessInDoubt
<1>1. CountInv => TakenOnceUnlessInDoubt
  <2> SUFFICES ASSUME CountInv, NEW m \in Messages PROVE accepted[m] <= 1 + doubt[m]
    BY DEF TakenOnceUnlessInDoubt
  <2>1. Cardinality(Tokens(m)) \in Nat
    BY WorkersCount DEF Tokens
  <2>2. accepted[m] \in Nat /\ doubt[m] \in Nat
    BY NamesApart DEF CountInv, Typed
  <2>3. accepted[m] + Cardinality(Tokens(m)) <= 1 + doubt[m]
    BY DEF CountInv, TokensCount
  <2> QED BY <2>1, <2>2, <2>3
<1>2. Init => CountInv
  BY IInvInit DEF IInv
<1> QED BY <1>1, <1>2, CountInvNext, PTL DEF Spec

-----------------------------------------------------------------------------
(* Charges.                                                                *)

\* What is not committed yet is typed.
LEMMA ChargesTyped ==
  ASSUME Typed, NEW w \in Workers, NEW m \in Messages
  PROVE  /\ entries[m] \in Int /\ accepted[m] \in Nat
         /\ txn[w] # Idle => txn[w].made[m] \in Int
BY NamesApart DEF Typed, IsTxn

\* A step of w that charges nothing, and commits nothing.
LEMMA NoCharge ==
  ASSUME IInv, NEW w \in Workers,
         \A v \in Workers \ {w} : txn'[v] = txn[v],
         txn'[w] # Idle => \A m \in Messages : txn'[w].made[m] = 0 /\ ~Wrote(w, m)',
         lock' = lock \/ lock' = Freed(w) \/ lock = Idle, row' = row,
         \A m \in Messages : entries'[m] = entries[m] /\ accepted'[m] = accepted[m]
  PROVE  PaidInv'
<1>1. ChargesUnderLock'
  <2> SUFFICES ASSUME NEW v \in Workers, txn'[v] # Idle, NEW m \in Messages
               PROVE  /\ txn'[v].made[m] <= 0
                      /\ txn'[v].made[m] # 0 => lock' = v /\ Wrote(v, m)'
                      /\ (Wrote(v, m)' /\ txn'[v].rows[m].status = "SENT" /\ ChannelOf[m] = "sms")
                            => txn'[v].made[m] < 0
                      /\ -entries'[m] - txn'[v].made[m] <= accepted'[m]
    BY DEF ChargesUnderLock
  <2>1. CASE v = w
    <3>1. -entries[m] <= accepted[m] /\ entries[m] \in Int
      BY ChargesTyped DEF IInv, CountInv, PaidInv, PaidForWhatWasTaken
    <3> QED BY <2>1, <3>1
  <2>2. CASE v # w
    <3>1. txn'[v] = txn[v] /\ (Wrote(v, m)' <=> Wrote(v, m))
      BY <2>2, OthersKeep
    <3>2. /\ txn[v].made[m] <= 0 /\ (txn[v].made[m] # 0 => lock = v /\ Wrote(v, m))
          /\ (Wrote(v, m) /\ txn[v].rows[m].status = "SENT" /\ ChannelOf[m] = "sms")
                => txn[v].made[m] < 0
          /\ -entries[m] - txn[v].made[m] <= accepted[m]
      BY <3>1 DEF IInv, PaidInv, ChargesUnderLock
    <3>3. lock = v => lock' = v
      BY <2>2, NobodyIsIdle DEF Freed
    <3> QED BY <3>1, <3>2, <3>3
  <2> QED BY <2>1, <2>2
<1> QED BY <1>1 DEF IInv, PaidInv, PaidForWhatWasTaken

\* A commit of w charges what it had recorded; nobody else can have charges under way.
LEMMA CommitCharges ==
  ASSUME IInv, NEW w \in Workers, txn[w] # Idle,
         \A v \in Workers \ {w} : txn'[v] = txn[v],
         txn'[w] # Idle => \A m \in Messages : txn'[w].made[m] = 0 /\ ~Wrote(w, m)',
         lock' = Freed(w), accepted' = accepted,
         \A m \in Messages : row'[m] = IF Wrote(w, m) THEN txn[w].rows[m] ELSE row[m],
         \A m \in Messages : entries'[m] = entries[m] + txn[w].made[m]
  PROVE  PaidInv'
<1>1. ASSUME NEW m \in Messages
      PROVE  /\ entries[m] \in Int /\ txn[w].made[m] \in Int /\ accepted[m] \in Nat
             /\ entries[m] <= 0 /\ -entries[m] - txn[w].made[m] <= accepted[m]
             /\ txn[w].made[m] <= 0 /\ (txn[w].made[m] # 0 => lock = w)
             /\ (Wrote(w, m) /\ txn[w].rows[m].status = "SENT" /\ ChannelOf[m] = "sms")
                   => txn[w].made[m] < 0
  BY ChargesTyped DEF IInv, CountInv, PaidInv, ChargesUnderLock
<1>2. \A m \in Messages : entries'[m] <= 0 /\ -entries'[m] <= accepted'[m]
  BY <1>1
<1>3. ChargesUnderLock'
  <2> SUFFICES ASSUME NEW v \in Workers, txn'[v] # Idle, NEW m \in Messages
               PROVE  /\ txn'[v].made[m] <= 0
                      /\ txn'[v].made[m] # 0 => lock' = v /\ Wrote(v, m)'
                      /\ (Wrote(v, m)' /\ txn'[v].rows[m].status = "SENT" /\ ChannelOf[m] = "sms")
                            => txn'[v].made[m] < 0
                      /\ -entries'[m] - txn'[v].made[m] <= accepted'[m]
    BY DEF ChargesUnderLock
  <2>1. CASE v = w
    BY <1>1, <1>2, <2>1
  <2>2. CASE v # w
    <3>1. txn'[v] = txn[v] /\ (Wrote(v, m)' <=> Wrote(v, m))
      BY <2>2, OthersKeep
    <3>2. /\ txn[v].made[m] <= 0 /\ (txn[v].made[m] # 0 => lock = v /\ Wrote(v, m))
          /\ (Wrote(v, m) /\ txn[v].rows[m].status = "SENT" /\ ChannelOf[m] = "sms")
                => txn[v].made[m] < 0
          /\ -entries[m] - txn[v].made[m] <= accepted[m] /\ txn[v].made[m] \in Int
      BY <3>1, ChargesTyped DEF IInv, CountInv, PaidInv, ChargesUnderLock
    <3>3. lock = v => lock' = v
      BY <2>2 DEF Freed
    <3>4. txn[v].made[m] = 0 \/ txn[w].made[m] = 0
      BY <1>1, <2>2, <3>2
    <3> QED BY <1>1, <3>1, <3>2, <3>3, <3>4
  <2> QED BY <2>1, <2>2
<1>4. PaidForWhatWasTaken'
  <2> SUFFICES ASSUME NEW m \in Messages, row'[m].status = "SENT", ChannelOf[m] = "sms"
               PROVE  entries'[m] < 0
    BY <1>2 DEF PaidForWhatWasTaken
  <2>1. CASE Wrote(w, m)
    BY <1>1, <2>1
  <2>2. CASE ~Wrote(w, m)
    <3>1. entries[m] < 0
      BY <2>2 DEF IInv, PaidInv, PaidForWhatWasTaken
    <3> QED BY <1>1, <3>1
  <2> QED BY <2>1, <2>2
<1> QED BY <1>2, <1>3, <1>4 DEF PaidInv

\* A send charges an SMS that the provider took, under the lock, and nothing else.
LEMMA SendCharges ==
  ASSUME IInv, NEW w \in Workers, Send(w)
  PROVE  PaidInv'
<1>1. PICK m \in Messages : SendNowhere(w, m) \/ SendUnpaid(w, m) \/ SendOut(w, m)
  BY DEF Send
<1>2. Sends(w, m) /\ UNCHANGED <<event, row, entries, left>> /\ CountInv
  BY <1>1, SendIsDone DEF IInv
<1>3. PICK r \in Row, charge \in {-1, 0}, took \in {0, 1} :
         /\ Done(w, r, charge, took)
         /\ charge = -1 => took = 1 /\ LockFree(w) /\ lock' = w
         /\ ChannelOf[m] = "sms" /\ r.status = "SENT" => charge = -1
         /\ lock' = lock \/ (lock' = w /\ LockFree(w))
  BY <1>1, SendIsDone DEF IInv
<1>4. Writes(w, m, r, charge, took)
  BY <1>2, <1>3, DoneWrites
<1>5. /\ \A v \in Workers \ {w} : txn'[v] = txn[v]
      /\ txn'[w] # Idle /\ txn'[w].todo = Tail(txn[w].todo)
      /\ DOMAIN txn'[w].rows = DOMAIN txn[w].rows \cup {m}
      /\ txn'[w].rows[m] = r
      /\ \A n \in DOMAIN txn[w].rows \ {m} : txn'[w].rows[n] = txn[w].rows[n]
      /\ txn'[w].made = [txn[w].made EXCEPT ![m] = txn[w].made[m] + charge]
      /\ accepted' = [accepted EXCEPT ![m] = accepted[m] + took]
  BY <1>4 DEF Writes
<1>6. txn[w] # Idle /\ Holds(w, m)
  BY <1>2, <1>5, NextToSend DEF Sends
<1>7. txn[w].made \in [Accounts -> Int] /\ accepted \in [Accounts -> Nat] /\ Messages \subseteq Accounts
  BY <1>2, <1>6, NamesApart DEF CountInv, Typed, IsTxn
<1>8. /\ accepted'[m] = accepted[m] + took /\ txn'[w].made[m] = txn[w].made[m] + charge
      /\ \A n \in Messages \ {m} : accepted'[n] = accepted[n] /\ txn'[w].made[n] = txn[w].made[n]
  BY <1>5, <1>7
<1>9. ~Wrote(w, m) /\ txn[w].made[m] = 0
  BY <1>2, <1>6 DEF CountInv, OnceEach, IInv, PaidInv, ChargesUnderLock
<1>10. ASSUME NEW n \in Messages
       PROVE  /\ entries[n] \in Int /\ accepted[n] \in Nat /\ accepted'[n] \in Nat
              /\ accepted'[n] >= accepted[n]
              /\ entries[n] <= 0 /\ -entries[n] <= accepted[n]
  BY <1>2, <1>7, <1>8, ChargesTyped DEF CountInv, IInv, PaidInv, PaidForWhatWasTaken
<1>11. ChargesUnderLock'
  <2> SUFFICES ASSUME NEW v \in Workers, txn'[v] # Idle, NEW n \in Messages
               PROVE  /\ txn'[v].made[n] <= 0
                      /\ txn'[v].made[n] # 0 => lock' = v /\ Wrote(v, n)'
                      /\ (Wrote(v, n)' /\ txn'[v].rows[n].status = "SENT" /\ ChannelOf[n] = "sms")
                            => txn'[v].made[n] < 0
                      /\ -entries[n] - txn'[v].made[n] <= accepted'[n]
    BY <1>2 DEF ChargesUnderLock
  <2>1. CASE v = w /\ n = m
    <3>1. Wrote(w, m)'
      BY <1>5 DEF Wrote
    <3>2. txn'[w].made[m] = charge
      BY <1>8, <1>9
    <3>3. -entries[m] - charge <= accepted'[m]
      <4>1. /\ entries[m] \in Int /\ accepted[m] \in Nat /\ accepted'[m] \in Nat
            /\ accepted'[m] >= accepted[m] /\ -entries[m] <= accepted[m]
        BY <1>10
      <4>2. CASE charge = 0
        BY <4>1, <4>2
      <4>3. CASE charge = -1
        <5>1. accepted'[m] = accepted[m] + 1
          BY <1>3, <1>8, <4>3
        <5> QED BY <4>1, <4>3, <5>1
      <4> QED BY <4>2, <4>3
    <3>4. /\ charge <= 0 /\ (charge # 0 => lock' = w)
          /\ (r.status = "SENT" /\ ChannelOf[m] = "sms") => charge < 0
      BY <1>3
    <3> QED BY <1>5, <2>1, <3>1, <3>2, <3>3, <3>4
  <2>2. CASE v # w \/ n # m
    <3>1. /\ txn[v] # Idle /\ txn'[v].made[n] = txn[v].made[n] /\ (Wrote(v, n)' <=> Wrote(v, n))
          /\ Wrote(v, n) => txn'[v].rows[n] = txn[v].rows[n]
      <4>1. CASE v = w
        BY <1>5, <1>6, <1>8, <2>2, <4>1 DEF Wrote
      <4>2. CASE v # w
        BY <1>5, <4>2, OthersKeep
      <4> QED BY <4>1, <4>2
    <3>2. /\ txn[v].made[n] <= 0 /\ (txn[v].made[n] # 0 => lock = v /\ Wrote(v, n))
          /\ (Wrote(v, n) /\ txn[v].rows[n].status = "SENT" /\ ChannelOf[n] = "sms")
                => txn[v].made[n] < 0
          /\ -entries[n] - txn[v].made[n] <= accepted[n] /\ txn[v].made[n] \in Int
      BY <1>2, <3>1, ChargesTyped DEF IInv, CountInv, PaidInv, ChargesUnderLock
    <3>3. lock = v => lock' = v
      BY <1>3, NobodyIsIdle DEF LockFree
    <3> QED BY <1>10, <3>1, <3>2, <3>3
  <2> QED BY <2>1, <2>2
<1>12. PaidForWhatWasTaken' /\ \A n \in Messages : entries'[n] <= 0
  <2>1. \A n \in Messages : -entries[n] <= accepted'[n]
    BY <1>10
  <2> QED BY <1>2, <1>10, <2>1 DEF IInv, PaidInv, PaidForWhatWasTaken
<1> QED BY <1>11, <1>12 DEF PaidInv

\* Every step keeps the charges.
LEMMA PaidInvNext == IInv /\ [Next]_vars => PaidInv'
<1> SUFFICES ASSUME IInv, [Next]_vars PROVE PaidInv'
  OBVIOUS
<1> USE DEF IInv
<1>1. CASE UNCHANGED vars
  BY <1>1 DEF vars, PaidInv, ChargesUnderLock, PaidForWhatWasTaken, Wrote
<1>2. CASE TopUp
  <2>1. UNCHANGED <<row, txn, lock, accepted>> /\ entries' = [entries EXCEPT !["bought"] = @ + 1]
    BY <1>2 DEF TopUp
  <2>2. \A m \in Messages : entries'[m] = entries[m]
    BY <2>1, NamesApart DEF CountInv, Typed
  <2> QED BY <2>1, <2>2 DEF PaidInv, ChargesUnderLock, PaidForWhatWasTaken, Wrote
<1>7. ASSUME NEW a \in Editors, ReadSettings(a) \/ SaveSettings(a) PROVE PaidInv'
  <2>1. UNCHANGED <<row, entries, lock, txn, accepted>>
    BY <1>7 DEF ReadSettings, SaveSettings
  <2> QED BY <2>1 DEF PaidInv, ChargesUnderLock, PaidForWhatWasTaken, Wrote
<1>3. ASSUME NEW w \in Workers, Emit(w) \/ BeginDispatch(w) \/ BeginRetry(w)
      PROVE  PaidInv'
  <2>1. UNCHANGED <<row, entries, lock, accepted>>
    BY <1>3 DEF Emit, BeginDispatch, BeginRetry, records
  <2>2. PICK op, queue, todo : txn' = [txn EXCEPT ![w] = Open(op, queue, todo)]
    BY <1>3 DEF Emit, BeginDispatch, BeginRetry
  <2>3. txn'[w] = Open(op, queue, todo) /\ \A v \in Workers \ {w} : txn'[v] = txn[v]
    BY <2>2 DEF CountInv, Typed
  <2>4. txn'[w].made = Nothing /\ DOMAIN txn'[w].rows = {}
    BY <2>3 DEF Open
  <2>5. \A m \in Messages : txn'[w].made[m] = 0 /\ ~Wrote(w, m)'
    BY <2>4, NamesApart DEF Wrote, Nothing
  <2> QED BY <2>1, <2>3, <2>5, NoCharge
<1>4. ASSUME NEW w \in Workers, RollbackBusiness(w) \/ Dies(w)
      PROVE  PaidInv'
  <2>1. UNCHANGED <<row, entries, accepted>> /\ (lock' = lock \/ lock' = Freed(w))
        /\ txn' = [txn EXCEPT ![w] = Idle]
    BY <1>4 DEF RollbackBusiness, Dies, records
  <2>2. txn'[w] = Idle /\ \A v \in Workers \ {w} : txn'[v] = txn[v]
    BY <2>1 DEF CountInv, Typed
  <2> QED BY <2>1, <2>2, NoCharge
<1>5. ASSUME NEW w \in Workers, SignInLink(w)
      PROVE  PaidInv'
  <2>1. PICK account \in {"link", "overdraft"}, took \in {0, 1} :
           /\ accepted' = [accepted EXCEPT ![account] = @ + took]
           /\ txn' = [txn EXCEPT ![w] = LinkTxn(account, balance - 1)]
    BY <1>5 DEF SignInLink, LinkTxn
  <2>2. lock = Idle /\ UNCHANGED <<row, entries>>
    BY <1>5 DEF SignInLink, records
  <2>3. txn'[w] = LinkTxn(account, balance - 1) /\ \A v \in Workers \ {w} : txn'[v] = txn[v]
    BY <2>1 DEF CountInv, Typed
  <2>4. IsLinkTxn(txn'[w])
    BY <2>3, LinkTyped
  <2>5. \A m \in Messages : txn'[w].made[m] = 0 /\ ~Wrote(w, m)'
    BY <2>4 DEF IsLinkTxn, Wrote
  <2>6. \A m \in Messages : accepted'[m] = accepted[m]
    BY <2>1, NamesApart DEF CountInv, Typed
  <2> QED BY <2>2, <2>3, <2>5, <2>6, NoCharge
<1>6. ASSUME NEW w \in Workers,
             CommitBusiness(w) \/ EndDispatch(w) \/ EndRetry(w) \/ EndLink(w)
      PROVE  PaidInv'
  <2>1. PICK then : /\ txn[w] # Idle /\ Commit(w, then)
                    /\ then = Idle \/ \E op, queue : then = Open(op, queue, << >>)
    BY <1>6 DEF CommitBusiness, EndDispatch, EndRetry, EndLink, Doing
  <2>2. /\ txn'[w] = then /\ \A v \in Workers \ {w} : txn'[v] = txn[v]
        /\ lock' = Freed(w) /\ accepted' = accepted
        /\ \A m \in Messages : row'[m] = IF Wrote(w, m) THEN txn[w].rows[m] ELSE row[m]
        /\ \A m \in Messages : entries'[m] = entries[m] + txn[w].made[m]
    BY <2>1, CommitDoes, NamesApart
  <2>3. txn'[w] # Idle => txn'[w].made = Nothing /\ DOMAIN txn'[w].rows = {}
    BY <2>1, <2>2 DEF Open
  <2>4. txn'[w] # Idle => \A m \in Messages : txn'[w].made[m] = 0 /\ ~Wrote(w, m)'
    BY <2>3, NamesApart DEF Wrote, Nothing
  <2> QED BY <2>1, <2>2, <2>4, CommitCharges
<1> QED BY <1>1, <1>2, <1>3, <1>4, <1>5, <1>6, <1>7, SendCharges DEF Next

\* A message recorded as sent is paid for, and nothing is paid for that the provider did
\* not take, for any workers, messages and credits (notifications/credits.py: spend_one and
\* refund under the lock of the settings row, in the transaction of the delivery).
THEOREM PaidForExactlyWhatWasTaken == Spec => []PaidForWhatWasTaken
<1>1. IInv => PaidForWhatWasTaken
  BY DEF IInv, PaidInv
<1>2. IInv /\ [Next]_vars => IInv'
  BY CountInvNext, PaidInvNext DEF IInv
<1> QED BY IInvInit, <1>1, <1>2, PTL DEF Spec

-----------------------------------------------------------------------------
(* The balance and the ledger.                                             *)

\* A transaction that has not written the balance has made no entry; one that has holds
\* the settings row, and wrote the balance with its entries.
WrittenUnderLock ==
    \A w \in Workers : txn[w] # Idle =>
       \/ txn[w].wrote = << >> /\ \A a \in Accounts : txn[w].made[a] = 0
       \/ /\ lock = w /\ txn[w].wrote # << >>
          /\ txn[w].wrote[1] = balance + Sum(txn[w].made)
          /\ txn[w].wrote[1] >= entries["overdraft"] + txn[w].made["overdraft"]
          /\ txn[w].made["overdraft"] <= 0

\* What an editor has read is no lower than overdrafts have ever taken the balance.
PagesRead ==
    /\ page \in [Editors -> Seq(Int)]
    /\ \A a \in Editors : page[a] # << >> => page[a][1] >= entries["overdraft"]

BalanceInv ==
    /\ balance \in Int /\ putBack \in Int /\ entries["overdraft"] <= 0
    /\ BalanceIsTheLedgerButForSettings /\ WrittenUnderLock /\ PagesRead

\* A page that stays open is no lower than the overdrafts, which only grow.
LEMMA PagesKept ==
  ASSUME PagesRead, page' = page, entries["overdraft"] \in Int, entries'["overdraft"] \in Int,
         entries'["overdraft"] <= entries["overdraft"]
  PROVE  PagesRead'
BY DEF PagesRead

\* The accounts can be added up.
LEMMA AccountsFinite == IsFiniteSet(Accounts)
<1>1. IsFiniteSet(Messages)
  BY NotificationAssumption
<1>2. IsFiniteSet({"bought"}) /\ IsFiniteSet({"link"}) /\ IsFiniteSet({"overdraft"})
  BY FS_Singleton
<1> DEFINE A == Messages \cup {"bought"}
           B == A \cup {"link"}
           C == B \cup {"overdraft"}
<1>3. IsFiniteSet(A)
  BY <1>1, <1>2, FS_Union
<1> HIDE DEF A
<1>4. IsFiniteSet(B)
  BY <1>2, <1>3, FS_Union
<1> HIDE DEF B
<1>5. IsFiniteSet(C)
  BY <1>2, <1>4, FS_Union
<1>6. C = Accounts
  BY DEF A, B, C, Accounts
<1> QED BY <1>5, <1>6

\* Sum is the sum over the accounts.
LEMMA SumIsSumFun ==
  ASSUME NEW f, DOMAIN f = Accounts
  PROVE  Sum(f) = SumFun(f, Accounts)
BY DEF Sum, SumFun, FoldFunction, FoldFunctionOnSet, MapThenSumSet, MapThenFoldSet

\* How the sum of the accounts changes.
LEMMA SumsOfAccounts ==
  ASSUME NEW f \in [Accounts -> Int]
  PROVE  /\ Sum(f) \in Int
         /\ (\A a \in Accounts : f[a] = 0) => Sum(f) = 0
         /\ \A g \in [Accounts -> Int], b \in Accounts :
               (\A a \in Accounts \ {b} : g[a] = f[a]) => Sum(g) = Sum(f) + g[b] - f[b]
         /\ \A g, h \in [Accounts -> Int] :
               (\A a \in Accounts : h[a] = f[a] + g[a]) => Sum(h) = Sum(f) + Sum(g)
<1>1. Sum(f) \in Int
  BY AccountsFinite, SumIsSumFun, SumInt
<1>2. (\A a \in Accounts : f[a] = 0) => Sum(f) = 0
  BY AccountsFinite, SumIsSumFun, SumZero
<1>3. ASSUME NEW g \in [Accounts -> Int], NEW b \in Accounts,
             \A a \in Accounts \ {b} : g[a] = f[a]
      PROVE  Sum(g) = Sum(f) + g[b] - f[b]
  <2>1. \A a \in Accounts : f[a] \in Int /\ g[a] \in Int
    OBVIOUS
  <2>2. SumFun(g, Accounts) = SumFun(f, Accounts) + g[b] - f[b]
    BY <1>3, <2>1, AccountsFinite, SumChange
  <2> QED BY <2>2, SumIsSumFun
<1>4. ASSUME NEW g \in [Accounts -> Int], NEW h \in [Accounts -> Int],
             \A a \in Accounts : h[a] = f[a] + g[a]
      PROVE  Sum(h) = Sum(f) + Sum(g)
  <2>1. \A a \in Accounts : f[a] \in Int /\ g[a] \in Int /\ h[a] = f[a] + g[a]
    BY <1>4
  <2>2. SumFun(h, Accounts) = SumFun(f, Accounts) + SumFun(g, Accounts)
    BY <2>1, AccountsFinite, SumPlus
  <2> QED BY <2>2, SumIsSumFun
<1> QED BY <1>1, <1>2, <1>3, <1>4

\* The credits bought to begin with are the whole ledger.
LEMMA BalanceInit == Init => BalanceInv
<1> SUFFICES ASSUME Init PROVE BalanceInv
  OBVIOUS
<1>1. /\ balance = Credit /\ entries = [Nothing EXCEPT !["bought"] = Credit]
      /\ Credit \in Nat /\ \A w \in Workers : txn[w] = Idle
  BY NotificationAssumption DEF Init
<1>2. Nothing \in [Accounts -> Int] /\ \A a \in Accounts : Nothing[a] = 0
  BY DEF Nothing
<1>3. /\ entries \in [Accounts -> Int] /\ entries["bought"] = Credit /\ entries["overdraft"] = 0
      /\ \A a \in Accounts \ {"bought"} : entries[a] = Nothing[a]
  BY <1>1, <1>2, NamesApart
<1>4. Sum(Nothing) = 0 /\ Sum(entries) = Sum(Nothing) + entries["bought"] - Nothing["bought"]
  BY <1>2, <1>3, NamesApart, SumsOfAccounts
<1>5. Sum(entries) = Credit
  BY <1>1, <1>2, <1>3, <1>4, NamesApart
<1>6. PagesRead /\ putBack = 0
  BY DEF Init, PagesRead
<1> QED BY <1>1, <1>3, <1>5, <1>6 DEF BalanceInv, BalanceIsTheLedgerButForSettings, WrittenUnderLock

\* A step that writes no balance and commits nothing: w goes on with an empty
\* transaction, or none.
LEMMA NoEntry ==
  ASSUME CountInv, BalanceInv, NEW w \in Workers,
         \A v \in Workers \ {w} : txn'[v] = txn[v],
         txn'[w] # Idle => txn'[w].wrote = << >> /\ txn'[w].made = Nothing,
         lock' = lock \/ lock' = Freed(w), UNCHANGED <<balance, entries, page, putBack>>
  PROVE  BalanceInv'
<1>1. WrittenUnderLock'
  <2> SUFFICES ASSUME NEW v \in Workers, txn'[v] # Idle
               PROVE  \/ txn'[v].wrote = << >> /\ \A a \in Accounts : txn'[v].made[a] = 0
                      \/ /\ lock' = v /\ txn'[v].wrote # << >>
                         /\ txn'[v].wrote[1] = balance + Sum(txn'[v].made)
                         /\ txn'[v].wrote[1] >= entries["overdraft"] + txn'[v].made["overdraft"]
                         /\ txn'[v].made["overdraft"] <= 0
    BY DEF WrittenUnderLock
  <2>1. CASE v = w
    BY <2>1 DEF Nothing
  <2>2. CASE v # w
    <3>1. lock = v => lock' = v
      BY <2>2, NobodyIsIdle DEF Freed
    <3> QED BY <2>2, <3>1 DEF BalanceInv, WrittenUnderLock
  <2> QED BY <2>1, <2>2
<1>2. PagesRead'
  BY DEF BalanceInv, PagesRead
<1> QED BY <1>1, <1>2 DEF BalanceInv, BalanceIsTheLedgerButForSettings

\* A commit of w makes its entries and its balance everybody's.
LEMMA CommitEntries ==
  ASSUME CountInv, BalanceInv, NEW w \in Workers, txn[w] # Idle, NEW then, Commit(w, then),
         then # Idle => then.wrote = << >> /\ then.made = Nothing
  PROVE  BalanceInv'
<1> DEFINE made == txn[w].made
<1>1. /\ txn'[w] = then /\ \A v \in Workers \ {w} : txn'[v] = txn[v]
      /\ \A a \in Accounts : entries'[a] = entries[a] + made[a]
      /\ entries' \in [Accounts -> Int] /\ lock' = Freed(w)
  BY CommitDoes
<1>2. balance' = Seen(w) /\ page' = page /\ putBack' = putBack
  BY DEF Commit
<1>3. entries \in [Accounts -> Int] /\ made \in [Accounts -> Int]
  BY DEF CountInv, Typed, IsTxn
<1>4. /\ Sum(entries') = Sum(entries) + Sum(made)
      /\ Sum(made) \in Int /\ Sum(entries) \in Int
  <2> HIDE DEF made
  <2> QED BY <1>1, <1>3, SumsOfAccounts
<1>5. /\ balance \in Int /\ putBack \in Int /\ balance = Sum(entries) + putBack
      /\ balance >= entries["overdraft"] /\ entries["overdraft"] <= 0 /\ PagesRead
  BY DEF BalanceInv, BalanceIsTheLedgerButForSettings
<1>6. entries["overdraft"] \in Int /\ made["overdraft"] \in Int
  BY <1>3, NamesApart
<1>7. entries'["overdraft"] = entries["overdraft"] + made["overdraft"]
  BY <1>1, NamesApart
<1>8. CASE txn[w].wrote = << >> /\ \A a \in Accounts : made[a] = 0
  <2>1. balance' = balance
    BY <1>2, <1>8 DEF Seen
  <2>2. Sum(made) = 0 /\ made["overdraft"] = 0
    <3>1. made["overdraft"] = 0
      BY <1>8, NamesApart
    <3> HIDE DEF made
    <3> QED BY <1>3, <1>8, <3>1, SumsOfAccounts
  <2>3. \A a \in Accounts : entries'[a] = entries[a]
    BY <1>1, <1>3, <1>8
  <2>4. WrittenUnderLock'
    <3> SUFFICES ASSUME NEW v \in Workers, txn'[v] # Idle
                 PROVE  \/ txn'[v].wrote = << >> /\ \A a \in Accounts : txn'[v].made[a] = 0
                        \/ /\ lock' = v /\ txn'[v].wrote # << >>
                           /\ txn'[v].wrote[1] = balance' + Sum(txn'[v].made)
                           /\ txn'[v].wrote[1] >= entries'["overdraft"] + txn'[v].made["overdraft"]
                           /\ txn'[v].made["overdraft"] <= 0
      BY DEF WrittenUnderLock
    <3>1. CASE v = w
      BY <1>1, <3>1 DEF Nothing
    <3>2. CASE v # w
      <4>1. lock = v => lock' = v
        BY <1>1, <3>2, NobodyIsIdle DEF Freed
      <4>2. txn'[v] = txn[v]
        BY <1>1, <3>2
      <4> QED BY <2>1, <2>3, <4>1, <4>2, NamesApart DEF BalanceInv, WrittenUnderLock
    <3> QED BY <3>1, <3>2
  <2> HIDE DEF made
  <2>5. PagesRead'
    BY <1>2, <1>5, <1>6, <1>7, <2>2, PagesKept
  <2> QED BY <1>2, <1>4, <1>5, <1>6, <1>7, <2>1, <2>2, <2>4, <2>5 DEF BalanceInv, BalanceIsTheLedgerButForSettings
<1>9. CASE /\ lock = w /\ txn[w].wrote # << >>
           /\ txn[w].wrote[1] = balance + Sum(made)
           /\ txn[w].wrote[1] >= entries["overdraft"] + made["overdraft"]
           /\ made["overdraft"] <= 0
  <2>1. balance' = balance + Sum(made) /\ balance' >= entries["overdraft"] + made["overdraft"]
    BY <1>2, <1>9 DEF Seen
  <2>2. \A v \in Workers \ {w} : txn[v] # Idle =>
           txn[v].wrote = << >> /\ \A a \in Accounts : txn[v].made[a] = 0
    BY <1>9 DEF BalanceInv, WrittenUnderLock
  <2>3. WrittenUnderLock'
    <3> SUFFICES ASSUME NEW v \in Workers, txn'[v] # Idle
                 PROVE  txn'[v].wrote = << >> /\ \A a \in Accounts : txn'[v].made[a] = 0
      BY DEF WrittenUnderLock
    <3>1. CASE v = w
      BY <1>1, <3>1 DEF Nothing
    <3>2. CASE v # w
      BY <1>1, <2>2, <3>2
    <3> QED BY <3>1, <3>2
  <2>4. made["overdraft"] <= 0
    BY <1>9
  <2> HIDE DEF made
  <2>5. balance' \in Int /\ entries'["overdraft"] <= 0 /\ balance' = Sum(entries') + putBack'
    BY <1>2, <1>4, <1>5, <1>6, <1>7, <2>1, <2>4
  <2>6. balance' >= entries'["overdraft"]
    BY <1>7, <2>1
  <2>7. PagesRead'
    BY <1>2, <1>5, <1>6, <1>7, <2>4, PagesKept
  <2> QED BY <1>2, <1>5, <2>3, <2>5, <2>6, <2>7 DEF BalanceInv, BalanceIsTheLedgerButForSettings
<1> QED BY <1>8, <1>9 DEF BalanceInv, WrittenUnderLock

\* A send takes a credit under the lock, when one is seen to be left.
LEMMA SendEntries ==
  ASSUME CountInv, BalanceInv, NEW w \in Workers, Send(w)
  PROVE  BalanceInv'
<1>1. PICK m \in Messages : SendNowhere(w, m) \/ SendUnpaid(w, m) \/ SendOut(w, m)
  BY DEF Send
<1>2. Sends(w, m) /\ UNCHANGED <<balance, entries, page, putBack>>
  BY <1>1, SendIsDone
<1>3. PICK r \in Row, charge \in {-1, 0}, took \in {0, 1} :
         /\ Done(w, r, charge, took)
         /\ charge = -1 => LockFree(w) /\ lock' = w /\ Seen(w) >= 1
         /\ lock' = lock \/ (lock' = w /\ LockFree(w))
  BY <1>1, SendIsDone
<1>4. Writes(w, m, r, charge, took)
  BY <1>2, <1>3, DoneWrites
<1>5. txn'[w].wrote = IF charge = 0 THEN txn[w].wrote ELSE <<Seen(w) + charge>>
  BY <1>4 DEF Writes
<1>6. txn[w] # Idle /\ txn'[w] # Idle /\ \A v \in Workers \ {w} : txn'[v] = txn[v]
  BY <1>2, <1>4 DEF Sends, Writes
<1> DEFINE made == txn[w].made
           after == txn'[w].made
<1>7. /\ made \in [Accounts -> Int] /\ after \in [Accounts -> Int]
      /\ m \in Accounts /\ m # "overdraft" /\ after[m] = made[m] + charge
      /\ \A a \in Accounts \ {m} : after[a] = made[a]
  <2>1. made \in [Accounts -> Int] /\ after \in [Accounts -> Int]
    BY <1>4, <1>6 DEF CountInv, Typed, IsTxn, Writes
  <2>2. after = [made EXCEPT ![m] = made[m] + charge]
    BY <1>4 DEF Writes
  <2>3. m \in Accounts /\ m # "overdraft"
    BY NamesApart
  <2> HIDE DEF made, after
  <2> QED BY <2>1, <2>2, <2>3
<1>8. balance \in Int /\ entries["overdraft"] \in Int /\ entries["overdraft"] <= 0
  BY NamesApart DEF BalanceInv, CountInv, Typed
<1>9. \/ txn[w].wrote = << >> /\ \A a \in Accounts : made[a] = 0
      \/ /\ lock = w /\ txn[w].wrote # << >>
         /\ txn[w].wrote[1] = balance + Sum(made)
         /\ txn[w].wrote[1] >= entries["overdraft"] + made["overdraft"]
         /\ made["overdraft"] <= 0
  BY <1>6 DEF BalanceInv, WrittenUnderLock
<1> HIDE DEF made, after
<1>10. after["overdraft"] = made["overdraft"] /\ made["overdraft"] \in Int
  BY <1>7, NamesApart
<1>11. Sum(after) = Sum(made) + charge /\ Sum(made) \in Int
  <2>1. Sum(after) = Sum(made) + after[m] - made[m] /\ Sum(made) \in Int
    BY <1>7, SumsOfAccounts
  <2>2. made[m] \in Int
    BY <1>7
  <2> QED BY <1>7, <2>1, <2>2
<1>12. /\ Seen(w) = balance + Sum(made)
       /\ Seen(w) >= 1 => made["overdraft"] <= 0
  <2>1. CASE txn[w].wrote = << >> /\ \A a \in Accounts : made[a] = 0
    <3>1. Sum(made) = 0 /\ made["overdraft"] = 0
      BY <1>7, <2>1, SumsOfAccounts, NamesApart
    <3> QED BY <1>8, <2>1, <3>1 DEF Seen
  <2>2. CASE txn[w].wrote # << >>
    BY <1>9, <2>2 DEF Seen
  <2> QED BY <1>9, <2>1, <2>2
<1>13. \/ txn'[w].wrote = << >> /\ \A a \in Accounts : after[a] = 0
       \/ /\ lock' = w /\ txn'[w].wrote # << >>
          /\ txn'[w].wrote[1] = balance + Sum(after)
          /\ txn'[w].wrote[1] >= entries["overdraft"] + after["overdraft"]
          /\ after["overdraft"] <= 0
  <2>1. CASE charge = 0
    <3>1. txn'[w].wrote = txn[w].wrote /\ Sum(after) = Sum(made)
      BY <1>5, <1>11, <2>1
    <3>2. \A a \in Accounts : after[a] = made[a]
      BY <1>7, <2>1
    <3>3. lock = w => lock' = w
      BY <1>3
    <3> QED BY <1>9, <1>10, <3>1, <3>2, <3>3
  <2>2. CASE charge = -1
    <3>1. txn'[w].wrote = <<Seen(w) - 1>> /\ lock' = w /\ Seen(w) >= 1
      BY <1>3, <1>5, <2>2, <1>8, <1>11, <1>12
    <3>2. Seen(w) - 1 = balance + Sum(after)
      BY <1>8, <1>11, <1>12, <2>2
    <3>3. Seen(w) - 1 >= entries["overdraft"] + after["overdraft"]
      BY <1>8, <1>10, <1>11, <1>12, <3>1
    <3> QED BY <1>10, <1>12, <3>1, <3>2, <3>3
  <2> QED BY <1>3, <2>1, <2>2
<1>14. WrittenUnderLock'
  <2> SUFFICES ASSUME NEW v \in Workers, txn'[v] # Idle
               PROVE  \/ txn'[v].wrote = << >> /\ \A a \in Accounts : txn'[v].made[a] = 0
                      \/ /\ lock' = v /\ txn'[v].wrote # << >>
                         /\ txn'[v].wrote[1] = balance' + Sum(txn'[v].made)
                         /\ txn'[v].wrote[1] >= entries'["overdraft"] + txn'[v].made["overdraft"]
                         /\ txn'[v].made["overdraft"] <= 0
    BY DEF WrittenUnderLock
  <2>1. CASE v = w
    BY <1>2, <1>13, <2>1 DEF after
  <2>2. CASE v # w
    <3>1. lock = v => lock' = v
      BY <1>3, <2>2, NobodyIsIdle DEF LockFree
    <3> QED BY <1>2, <1>6, <2>2, <3>1 DEF BalanceInv, WrittenUnderLock
  <2> QED BY <2>1, <2>2
<1>15. PagesRead'
  BY <1>2 DEF BalanceInv, PagesRead
<1> QED BY <1>2, <1>14, <1>15 DEF BalanceInv, BalanceIsTheLedgerButForSettings

\* A sign-in link takes a credit that is left, or overdraws by its own entry.
LEMMA LinkEntries ==
  ASSUME CountInv, BalanceInv, NEW w \in Workers, SignInLink(w)
  PROVE  BalanceInv'
<1>1. PICK onCredit \in BOOLEAN, account \in {"link", "overdraft"} :
         /\ account = "overdraft" <=> onCredit
         /\ MaySpend(onCredit)
         /\ txn' = [txn EXCEPT ![w] = LinkTxn(account, balance - 1)]
  BY DEF SignInLink, LinkTxn
<1> DEFINE u == txn'[w]
<1>2. /\ lock = Idle /\ lock' = w /\ txn[w] = Idle
      /\ UNCHANGED <<balance, entries, page, putBack>>
  BY DEF SignInLink, records
<1>3. DOMAIN txn = Workers
  BY DEF CountInv, Typed
<1>4. u = LinkTxn(account, balance - 1) /\ \A v \in Workers \ {w} : txn'[v] = txn[v]
  BY <1>1, <1>3
<1>5. u.made = [Nothing EXCEPT ![account] = -1] /\ u.wrote = <<balance - 1>>
  BY <1>4 DEF LinkTxn, Open
<1>6. account \in Accounts /\ (account = "overdraft" <=> onCredit)
  BY <1>1, NamesApart
<1> HIDE DEF u
<1>7. u.made \in [Accounts -> Int] /\ Sum(u.made) = -1
  <2>1. Nothing \in [Accounts -> Int] /\ \A a \in Accounts : Nothing[a] = 0
    BY DEF Nothing
  <2>2. u.made \in [Accounts -> Int] /\ u.made[account] = -1
        /\ \A a \in Accounts \ {account} : u.made[a] = Nothing[a]
    BY <1>5, <1>6, <2>1
  <2>3. Sum(Nothing) = 0 /\ Sum(u.made) = Sum(Nothing) + u.made[account] - Nothing[account]
    BY <1>6, <2>1, <2>2, SumsOfAccounts
  <2> QED BY <1>6, <2>1, <2>2, <2>3
<1>8. u.made["overdraft"] = IF onCredit THEN -1 ELSE 0
  BY <1>5, <1>6, NamesApart DEF Nothing
<1>9. /\ balance \in Int /\ entries["overdraft"] \in Int /\ entries["overdraft"] <= 0
      /\ balance >= entries["overdraft"]
  BY NamesApart DEF BalanceInv, BalanceIsTheLedgerButForSettings, CountInv, Typed
<1>10. balance - 1 >= entries["overdraft"] + u.made["overdraft"]
  BY <1>1, <1>8, <1>9 DEF MaySpend
<1>11. WrittenUnderLock'
  <2> SUFFICES ASSUME NEW v \in Workers, txn'[v] # Idle
               PROVE  \/ txn'[v].wrote = << >> /\ \A a \in Accounts : txn'[v].made[a] = 0
                      \/ /\ lock' = v /\ txn'[v].wrote # << >>
                         /\ txn'[v].wrote[1] = balance' + Sum(txn'[v].made)
                         /\ txn'[v].wrote[1] >= entries'["overdraft"] + txn'[v].made["overdraft"]
                         /\ txn'[v].made["overdraft"] <= 0
    BY DEF WrittenUnderLock
  <2>1. CASE v = w
    <3>1. u.wrote # << >> /\ u.wrote[1] = balance - 1
      BY <1>5
    <3>2. u.wrote[1] = balance + Sum(u.made)
      BY <1>7, <1>9, <3>1
    <3>3. u.made["overdraft"] <= 0
      BY <1>8
    <3> QED BY <1>2, <1>10, <2>1, <3>1, <3>2, <3>3 DEF u
  <2>2. CASE v # w
    <3>1. lock # v
      BY <1>2, NobodyIsIdle
    <3> QED BY <1>4, <2>2, <3>1 DEF BalanceInv, WrittenUnderLock
  <2> QED BY <2>1, <2>2
<1>12. PagesRead'
  BY <1>2 DEF BalanceInv, PagesRead
<1> QED BY <1>2, <1>11, <1>12 DEF BalanceInv, BalanceIsTheLedgerButForSettings

\* Bought credits are in the ledger; nobody has the settings row meanwhile.
LEMMA TopUpEntries ==
  ASSUME CountInv, BalanceInv, TopUp
  PROVE  BalanceInv'
<1>1. /\ lock = Idle /\ balance' = balance + 1 /\ UNCHANGED <<lock, txn, page, putBack>>
      /\ entries' = [entries EXCEPT !["bought"] = @ + 1]
  BY DEF TopUp
<1>2. entries \in [Accounts -> Int] /\ "bought" \in Accounts /\ "overdraft" \in Accounts
  BY NamesApart DEF CountInv, Typed
<1>3. /\ entries' \in [Accounts -> Int] /\ entries'["bought"] = entries["bought"] + 1
      /\ \A a \in Accounts \ {"bought"} : entries'[a] = entries[a]
  BY <1>1, <1>2
<1>4. Sum(entries') = Sum(entries) + entries'["bought"] - entries["bought"] /\ Sum(entries) \in Int
  BY <1>2, <1>3, SumsOfAccounts
<1>5. /\ balance \in Int /\ putBack \in Int /\ balance = Sum(entries) + putBack
      /\ balance >= entries["overdraft"] /\ entries["overdraft"] <= 0 /\ PagesRead
  BY DEF BalanceInv, BalanceIsTheLedgerButForSettings
<1>6. entries'["overdraft"] = entries["overdraft"] /\ entries["overdraft"] \in Int /\ entries["bought"] \in Int
  BY <1>2, <1>3
<1>7. balance' \in Int /\ balance' = Sum(entries') + putBack' /\ balance' >= entries'["overdraft"]
  BY <1>1, <1>3, <1>4, <1>5, <1>6
<1>8. WrittenUnderLock'
  BY <1>1, NobodyIsIdle DEF BalanceInv, WrittenUnderLock
<1>9. PagesRead'
  BY <1>1, <1>5, <1>6, PagesKept
<1> QED BY <1>1, <1>5, <1>6, <1>7, <1>8, <1>9 DEF BalanceInv, BalanceIsTheLedgerButForSettings

\* An editor reads the row as it is.
LEMMA ReadEntries ==
  ASSUME CountInv, BalanceInv, NEW a \in Editors, ReadSettings(a)
  PROVE  BalanceInv'
<1>1. /\ UNCHANGED <<balance, entries, lock, txn, putBack>>
      /\ page' = [page EXCEPT ![a] = <<balance>>]
  BY DEF ReadSettings
<1>2. /\ page \in [Editors -> Seq(Int)] /\ balance \in Int
      /\ balance >= entries["overdraft"]
      /\ \A b \in Editors : page[b] # << >> => page[b][1] >= entries["overdraft"]
  BY DEF BalanceInv, BalanceIsTheLedgerButForSettings, PagesRead
<1>3. page'[a] = <<balance>> /\ \A b \in Editors \ {a} : page'[b] = page[b]
  BY <1>1, <1>2
<1>4. page' \in [Editors -> Seq(Int)]
  BY <1>1, <1>2
<1>5. PagesRead'
  BY <1>1, <1>2, <1>3, <1>4 DEF PagesRead
<1> QED BY <1>1, <1>5 DEF BalanceInv, BalanceIsTheLedgerButForSettings, WrittenUnderLock

\* An editor saves an old balance, while nobody holds the row.
LEMMA SaveEntries ==
  ASSUME CountInv, BalanceInv, NEW a \in Editors, SaveSettings(a)
  PROVE  BalanceInv'
<1>1. /\ UNCHANGED <<entries, lock, txn>> /\ lock = Idle /\ page[a] # << >>
      /\ balance' = page[a][1] /\ putBack' = putBack + page[a][1] - balance
      /\ page' = [page EXCEPT ![a] = << >>]
  BY DEF SaveSettings
<1>2. /\ page \in [Editors -> Seq(Int)] /\ balance \in Int /\ putBack \in Int
      /\ balance = Sum(entries) + putBack /\ entries["overdraft"] <= 0
      /\ \A b \in Editors : page[b] # << >> => page[b][1] >= entries["overdraft"]
  BY DEF BalanceInv, BalanceIsTheLedgerButForSettings, PagesRead
<1>3. Sum(entries) \in Int
  BY SumsOfAccounts DEF CountInv, Typed
<1>4. page[a][1] \in Int
  <2> DEFINE s == page[a]
  <2>1. s \in Seq(Int) /\ s # << >>
    BY <1>1, <1>2
  <2> HIDE DEF s
  <2>2. s[1] \in Int
    BY <2>1
  <2> QED BY <2>2 DEF s
<1>5. balance' \in Int /\ putBack' \in Int /\ balance' = Sum(entries) + putBack'
  BY <1>1, <1>2, <1>3, <1>4
<1>6. PagesRead'
  <2>1. page' \in [Editors -> Seq(Int)]
    BY <1>1, <1>2
  <2>2. page'[a] = << >> /\ \A b \in Editors \ {a} : page'[b] = page[b]
    BY <1>1, <1>2
  <2> QED BY <1>1, <1>2, <2>1, <2>2 DEF PagesRead
<1>7. WrittenUnderLock'
  BY <1>1, NobodyIsIdle DEF BalanceInv, WrittenUnderLock
<1> QED BY <1>1, <1>2, <1>5, <1>6, <1>7 DEF BalanceInv, BalanceIsTheLedgerButForSettings

\* Every step keeps the balance what the ledger and the settings make of it.
LEMMA BalanceInvNext == CountInv /\ BalanceInv /\ [Next]_vars => BalanceInv'
<1> SUFFICES ASSUME CountInv, BalanceInv, [Next]_vars PROVE BalanceInv'
  OBVIOUS
<1>1. CASE UNCHANGED vars
  BY <1>1 DEF vars, BalanceInv, BalanceIsTheLedgerButForSettings, WrittenUnderLock, PagesRead
<1>2. ASSUME NEW w \in Workers, Emit(w) \/ BeginDispatch(w) \/ BeginRetry(w)
      PROVE  BalanceInv'
  <2>1. UNCHANGED <<balance, entries, page, putBack, lock>>
    BY <1>2 DEF Emit, BeginDispatch, BeginRetry, records
  <2>2. PICK op, queue, todo : txn' = [txn EXCEPT ![w] = Open(op, queue, todo)]
    BY <1>2 DEF Emit, BeginDispatch, BeginRetry
  <2>3. txn'[w] = Open(op, queue, todo) /\ \A v \in Workers \ {w} : txn'[v] = txn[v]
    BY <2>2 DEF CountInv, Typed
  <2>4. txn'[w].made = Nothing /\ txn'[w].wrote = << >>
    BY <2>3 DEF Open
  <2> QED BY <2>1, <2>3, <2>4, NoEntry
<1>3. ASSUME NEW w \in Workers, RollbackBusiness(w) \/ Dies(w)
      PROVE  BalanceInv'
  <2>1. UNCHANGED <<balance, entries, page, putBack>> /\ (lock' = lock \/ lock' = Freed(w))
        /\ txn' = [txn EXCEPT ![w] = Idle]
    BY <1>3 DEF RollbackBusiness, Dies, records
  <2>2. txn'[w] = Idle /\ \A v \in Workers \ {w} : txn'[v] = txn[v]
    BY <2>1 DEF CountInv, Typed
  <2> QED BY <2>1, <2>2, NoEntry
<1>4. ASSUME NEW w \in Workers,
             CommitBusiness(w) \/ EndDispatch(w) \/ EndRetry(w) \/ EndLink(w)
      PROVE  BalanceInv'
  <2>1. PICK then : /\ txn[w] # Idle /\ Commit(w, then)
                    /\ then = Idle \/ \E op, queue : then = Open(op, queue, << >>)
    BY <1>4 DEF CommitBusiness, EndDispatch, EndRetry, EndLink, Doing
  <2>2. then # Idle => then.wrote = << >> /\ then.made = Nothing
    BY <2>1 DEF Open
  <2> QED BY <2>1, <2>2, CommitEntries
<1> QED BY <1>1, <1>2, <1>3, <1>4, SendEntries, LinkEntries, TopUpEntries, ReadEntries,
           SaveEntries DEF Next

\* L4: the cached balance is the sum of the credit ledger but for what saves of the
\* settings have put back, and only sign-in links of people without an e-mail address take
\* it below zero, for any workers, messages, credits and editors and whatever dies
\* (notifications/credits.py: spend_one, refund and purchase, each under the lock of the
\* settings row; accounts/admin_api.py: OrganizationSettingsView.patch).
THEOREM BalanceIsTheLedgerAndSettings == Spec => []BalanceIsTheLedgerButForSettings
<1>1. Init => CountInv /\ BalanceInv
  BY IInvInit, BalanceInit DEF IInv
<1>2. CountInv /\ BalanceInv /\ [Next]_vars => (CountInv /\ BalanceInv)'
  BY CountInvNext, BalanceInvNext
<1>3. BalanceInv => BalanceIsTheLedgerButForSettings
  BY DEF BalanceInv
<1> QED BY <1>1, <1>2, <1>3, PTL DEF Spec
=============================================================================
