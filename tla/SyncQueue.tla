----------------------------- MODULE SyncQueue -----------------------------
(***************************************************************************)
(* The offline queue of one phone (frontend offline/db.ts, sync.ts) and the*)
(* endpoint it drains to (sync/services.py, sync/views.py).                *)
(*                                                                         *)
(* A drain sends every sendable row in one request, in capture order.  The *)
(* server works through the batch in ONE transaction: a row another open   *)
(* batch has inserted waits for that batch (the unique constraint).  Either*)
(* side may lose the other at any time; two drains may overlap (the banner,*)
(* the online event); the app may be closed between two answers.           *)
(***************************************************************************)
EXTENDS Integers, FiniteSets

CONSTANTS
    Entries,    \* what is captured
    Rank,       \* capture order (captured_at, then id)
    Names,      \* the supplier, captured too, that an entry names by its uuid
    NoOne,      \* it names none
    Direct,     \* releases of a part of a pass, which stays releasable: sent online first
                \* if there is a connection (submitOrQueue)
    Doomable,   \* what the server may raise on instead of refusing it
    Drains,     \* drains that may overlap
    MaxFaults   \* bound: how many requests the phone gives up, and workers die

ASSUME OrderAssumption ==
    /\ Rank \in [Entries -> Nat]
    /\ \A e, f \in Entries : Rank[e] = Rank[f] => e = f
ASSUME NamesAssumption ==
    /\ Names \in [Entries -> Entries \cup {NoOne}] /\ NoOne \notin Entries
    /\ \A e \in Entries : Names[e] # NoOne => /\ Rank[Names[e]] < Rank[e]
                                              /\ Names[Names[e]] = NoOne
    /\ Direct \subseteq {e \in Entries : \A f \in Entries : e # Names[f] /\ Names[e] = NoOne}
    /\ Doomable \subseteq Entries
ASSUME BoundAssumption == MaxFaults \in Nat

VARIABLES
    row,        \* the phone's row: "none" before capture, "gone" when cleared
    call,       \* the online request of an entry
    drain,      \* the drains: what the phone waits for, what the server does
    sub,        \* the committed SyncSubmission of an entry
    docs,       \* how many times it has been posted
    doomed,     \* what the server would raise on
    tried,      \* history: sent online before it was queued
    faults      \* counts against MaxFaults

vars == <<row, call, drain, sub, docs, doomed, tried, faults>>

\* A refusal keeps its code: an unknown supplier has its own.
Refusals == {"REJECTED", "NO_SUPPLIER"}
Verdicts == Refusals \cup {"APPLIED"}
Nothing == [e \in {} |-> "APPLIED"]
Quiet == [waiting |-> FALSE, server |-> "done", todo |-> {}, out |-> Nothing]

Init ==
    /\ row = [e \in Entries |-> "none"]
    /\ call = [e \in Entries |-> "none"]
    /\ drain = [d \in Drains |-> Quiet]
    /\ sub = [e \in Entries |-> "none"]
    /\ docs = [e \in Entries |-> 0]
    /\ doomed = {} /\ tried = {}
    /\ faults = 0

InQueue(e) == row[e] \in Verdicts \cup {"PENDING"}

\* The earliest of a set of entries.
\* F: newest first.
LastOf(S) == CHOOSE e \in S : \A f \in S : Rank[f] <= Rank[e]
First(S) == CHOOSE e \in S : \A f \in S : Rank[e] <= Rank[f]

-----------------------------------------------------------------------------
(* Capturing.                                                              *)

\* Capture goes on in capture order; what names a queued supplier has one.
MayCapture(e) ==
    /\ row[e] = "none" /\ call[e] = "none"
    /\ \A f \in Entries : Rank[f] < Rank[e] => row[f] # "none" \/ call[f] # "none"

\* enqueue
Enqueue(e) ==
    /\ MayCapture(e)
    /\ row' = [row EXCEPT ![e] = "PENDING"]
    /\ UNCHANGED <<call, drain, sub, docs, doomed, tried, faults>>

\* submitOrQueue, while the app believes it is online.
CallOnline(e) ==
    /\ e \in Direct /\ MayCapture(e)
    /\ call' = [call EXCEPT ![e] = "sent"]
    /\ tried' = tried \cup {e}
    /\ UNCHANGED <<row, drain, sub, docs, doomed, faults>>

\* The server's answer to it.  The request carries no uuid: nothing ties it to the queue.
ServeOnline(e) ==
    /\ call[e] = "sent"
    /\ \/ /\ e \notin doomed
          /\ docs' = [docs EXCEPT ![e] = @ + 1]
          /\ call' = [call EXCEPT ![e] = "served"]
       \/ /\ call' = [call EXCEPT ![e] = "refused"]
          /\ UNCHANGED docs
    /\ UNCHANGED <<row, drain, sub, doomed, tried, faults>>

\* Its answer arrives: done, or shown to the person, and not queued either way.
HearOnline(e) ==
    /\ call[e] \in {"served", "refused"} /\ row[e] = "none"
    /\ row' = [row EXCEPT ![e] = "gone"]
    /\ UNCHANGED <<call, drain, sub, docs, doomed, tried, faults>>

\* It does not, although the server may have acted or may yet act: the capture is
\* queued, under a uuid minted now.
FallBack(e) ==
    /\ call[e] # "none" /\ row[e] = "none"
    /\ row' = [row EXCEPT ![e] = "PENDING"]
    /\ UNCHANGED <<call, drain, sub, docs, doomed, tried, faults>>

-----------------------------------------------------------------------------
(* Draining: the phone.                                                    *)

\* heldBehindRefusedSupplier
\* F: behind anything refused.
HeldBehindRefused(e) == \E f \in Entries : row[f] \in Refusals
Held(e) == Names[e] # NoOne /\ row[Names[e]] \in Refusals

Sendable == {e \in Entries : row[e] = "PENDING" /\ ~Held(e)}

\* drainEntries, to the request.
Send(d) ==
    /\ ~drain[d].waiting /\ drain[d].server = "done"
    /\ Sendable # {}
    /\ drain' = [drain EXCEPT ![d] = [waiting |-> TRUE, server |-> "open",
                                      todo |-> Sendable, out |-> Nothing]]
    /\ UNCHANGED <<row, call, sub, docs, doomed, tried, faults>>

\* What an answer makes of a row.
\* F: an answered row has landed.
MarkedAsLanded(e, verdict) == IF InQueue(e) THEN "APPLIED" ELSE row[e]
Marked(e, verdict) == IF InQueue(e) THEN verdict ELSE row[e]

\* The answers, marked one after the other; the app may be closed after any of them.
Hear(d) ==
    /\ drain[d].waiting /\ drain[d].server = "done"
    /\ \E upTo \in DOMAIN drain[d].out :
          row' = [e \in Entries |->
                    IF e \in DOMAIN drain[d].out /\ Rank[e] <= Rank[upTo]
                    THEN Marked(e, drain[d].out[e]) ELSE row[e]]
    /\ drain' = [drain EXCEPT ![d] = Quiet]
    /\ UNCHANGED <<call, sub, docs, doomed, tried, faults>>

\* Any failure of the request, at any time: every row stays PENDING.
GiveUp(d) ==
    /\ drain[d].waiting
    /\ faults < MaxFaults /\ faults' = faults + 1
    /\ drain' = [drain EXCEPT ![d] =
                    IF @.server = "open" THEN [@ EXCEPT !.waiting = FALSE] ELSE Quiet]
    /\ UNCHANGED <<row, call, sub, docs, doomed, tried>>

\* clearApplied (photos aside).
Clear ==
    /\ \E e \in Entries : row[e] = "APPLIED"
    /\ row' = [e \in Entries |-> IF row[e] = "APPLIED" THEN "gone" ELSE row[e]]
    /\ UNCHANGED <<call, drain, sub, docs, doomed, tried, faults>>

-----------------------------------------------------------------------------
(* Draining: the server.                                                   *)

\* Another open batch has inserted this uuid, and not committed.
\* F: the uuid is not unique.
InsertedNever(d, e) == FALSE
Inserted(d, e) == drain[d].server = "open" /\ e \in DOMAIN drain[d].out /\ sub[e] = "none"

\* The submission exists already: its outcome is the answer.
Replayed(e) == sub[e] # "none"

\* Suppliers this batch sees on the register: committed, or its own.
Knows(d, e) ==
    LET s == Names[e]
    IN  sub[s] = "APPLIED" \/ (s \in DOMAIN drain[d].out /\ drain[d].out[s] = "APPLIED")

\* apply_submission: the handler's verdict.  The world may have moved on for any entry.
Outcomes(d, e) ==
    IF Replayed(e) THEN {sub[e]}
    ELSE IF Names[e] # NoOne /\ ~Knows(d, e) THEN {"NO_SUPPLIER"}
    ELSE {"APPLIED", "REJECTED"}

Extended(out, e, v) ==
    [f \in DOMAIN out \cup {e} |-> IF f = e THEN v ELSE out[f]]

\* One row of the batch.
Apply(d) ==
    /\ drain[d].server = "open" /\ drain[d].todo # {}
    /\ LET e == First(drain[d].todo)
       IN  /\ \A other \in Drains \ {d} : ~Inserted(other, e)
           /\ e \in doomed => Replayed(e)
           /\ \E v \in Outcomes(d, e) :
                 drain' = [drain EXCEPT ![d].todo = @ \ {e},
                                        ![d].out = Extended(@, e, v)]
    /\ UNCHANGED <<row, call, sub, docs, doomed, tried, faults>>

\* A row raises something that is not a DomainError (the pass's job was closed): 400, and
\* the whole batch is rolled back; or the worker dies.
Rollback(d) ==
    /\ drain[d].server = "open"
    /\ \/ /\ drain[d].todo # {}
          /\ First(drain[d].todo) \in doomed /\ ~Replayed(First(drain[d].todo))
          /\ UNCHANGED faults
       \/ /\ faults < MaxFaults
          /\ faults' = faults + 1
    /\ drain' = [drain EXCEPT ![d] = Quiet]
    /\ UNCHANGED <<row, call, sub, docs, doomed, tried>>

\* The batch commits: what it inserted, and what that posted.
Fresh(d) == {e \in DOMAIN drain[d].out : ~Replayed(e)}

Commit(d) ==
    /\ drain[d].server = "open" /\ drain[d].todo = {}
    /\ sub' = [e \in Entries |-> IF e \in Fresh(d) THEN drain[d].out[e] ELSE sub[e]]
    /\ docs' = [e \in Entries |->
                  IF e \in Fresh(d) /\ drain[d].out[e] = "APPLIED" THEN docs[e] + 1
                                                                   ELSE docs[e]]
    /\ drain' = [drain EXCEPT ![d].server = "done",
                              ![d].out = IF drain[d].waiting THEN @ ELSE Nothing]
    /\ UNCHANGED <<row, call, doomed, tried, faults>>

\* The job of the pass an entry names is closed (GateOut.save raises
\* a ValidationError).
Doom(e) ==
    /\ e \in Doomable \ doomed
    /\ doomed' = doomed \cup {e}
    /\ UNCHANGED <<row, call, drain, sub, docs, tried, faults>>

Phone == Clear \/ \E e \in Entries : Enqueue(e) \/ CallOnline(e) \/ HearOnline(e) \/ FallBack(e)
Progress(d) == Send(d) \/ Apply(d) \/ Commit(d) \/ Rollback(d) \/ Hear(d)

Next ==
    \/ Phone
    \/ \E e \in Entries : ServeOnline(e) \/ Doom(e)
    \/ \E d \in Drains : Progress(d) \/ GiveUp(d)

Spec == Init /\ [][Next]_vars

\* The banner and the online event keep starting drains while something is queued, the
\* server finishes what it has begun, and an answer the phone still waits for arrives.
FairSpec == Spec /\ \A d \in Drains : WF_vars(Progress(d))

-----------------------------------------------------------------------------
(* Properties.                                                             *)

\* N2: "a retried submission must not double-post", whatever road it took first.
PostedOnce == \A e \in Entries : docs[e] <= 1

\* What the phone shows of a row is what the server has of it, and a row leaves the phone
\* only when it has become a document: nothing captured is dropped (section 8.4).
PhoneTellsTheTruth ==
    \A e \in Entries :
        /\ row[e] \in Verdicts => row[e] = sub[e]
        /\ row[e] = "gone" => docs[e] > 0 \/ call[e] = "refused"

\* Section 4.20.8: capture order.  What names a queued supplier is refused for that
\* supplier's absence only if the supplier itself was refused, never because it
\* overtook it, however drains overlap, fail half way and start again.
SupplierComesFirst ==
    \A e \in Entries : sub[e] = "NO_SUPPLIER" => sub[Names[e]] \in Refusals

\* The queue keeps the promise of Captures for whatever is only captured offline.
Offline == Entries \ Direct
Promise == INSTANCE Captures WITH
    Entries   <- Offline,
    documents <- [e \in Offline |-> docs[e]],
    refused   <- {e \in Offline : sub[e] \in Refusals},
    told      <- [e \in Offline |-> CASE row[e] \in {"APPLIED", "gone"} -> "landed"
                                      [] row[e] \in Refusals -> "refused"
                                      [] OTHER -> "nothing"]
KeepsThePromise == Promise!Spec

\* Again and again everything in the queue has been answered, however many requests are
\* lost before one is not, except for what names a refused supplier, and unless some row
\* is one the server raises on: that one takes the whole batch with it.
Answered ==
    []<>(\/ \A e \in Entries : row[e] = "PENDING" =>
               Names[e] # NoOne /\ row[Names[e]] \in Refusals
         \/ \E f \in doomed : row[f] = "PENDING")

=============================================================================
