----------------------------- MODULE Numbering -----------------------------
(***************************************************************************)
(* Document numbers: core/numbering.py (allocate_number) and the settings  *)
(* screen that moves the counter (core/number_series_api.py).  One series, *)
(* i.e. one organization and document type; series never share a row.      *)
(*                                                                         *)
(* allocate_number runs in the transaction of the document it numbers and  *)
(* keeps the row locked to its end.  The settings PATCH reads the row      *)
(* without a lock, compares, and writes next_number: two steps.            *)
(***************************************************************************)
EXTENDS Integers

CONSTANTS
    Writers,      \* web workers
    NoOne,      \* nobody holds the row
    NoWriting,       \* a process has no transaction open
    MaxNumber   \* the largest value of the column (PositiveIntegerField)

ASSUME NumberAssumption == MaxNumber \in Nat \ {0}
ASSUME WriterAssumption == NoOne \notin Writers

Numbers == 1 .. MaxNumber

\* DocumentSequence; a row that does not exist yet reads as its defaults.
Row == [exists: BOOLEAN, next: Numbers, highest: Nat]

VARIABLES
    series,     \* the committed row
    lock,       \* who holds it, to the end of a transaction
    writing,        \* the open transaction of each process
    issued,     \* history: the numbers on committed documents
    twice,      \* history: the numbers on more than one of them
    skipped,    \* history: the numbers a setting moved the counter past
    stale       \* history: a setting was saved after its reading was out of date

numberingVars == <<series, lock, writing, issued, twice, skipped, stale>>

NumberingInit ==
    /\ series = [exists |-> FALSE, next |-> 1, highest |-> 0]
    /\ lock = NoOne
    /\ writing = [p \in Writers |-> NoWriting]
    /\ issued = {} /\ twice = {} /\ skipped = {}
    /\ stale = FALSE

\* SELECT ... FOR UPDATE, an UPDATE, or the INSERT of get_or_create: each waits for
\* the transaction that holds the row.
\* F: the row is read without FOR UPDATE.
MayLockUnlocked(p) == TRUE
MayLock(p) == lock \in {NoOne, p}

-----------------------------------------------------------------------------
(* allocate_number.                                                        *)

Raised(highest, number) == IF number > highest THEN number ELSE highest

\* next_number + 1 has to fit the column; the database refuses it otherwise.
Fits(next) == next <= MaxNumber

\* The row as this transaction sees it.
SeriesSeen(p) == IF writing[p] = NoWriting THEN series ELSE writing[p].row

\* One call; a transaction may make several (a receipt that labels several boxes).
Allocate(p) ==
    /\ writing[p] # NoWriting => writing[p].kind = "post"
    /\ MayLock(p)
    /\ LET row == SeriesSeen(p)
       IN  /\ Fits(row.next + 1)
           /\ writing' = [writing EXCEPT ![p] =
                [kind  |-> "post",
                 row   |-> [exists |-> TRUE, next |-> row.next + 1,
                            highest |-> Raised(row.highest, row.next)],
                 taken |-> {row.next} \cup IF writing[p] = NoWriting THEN {} ELSE writing[p].taken,
                 to    |-> 1]]
    /\ lock' = p
    /\ UNCHANGED <<series, issued, twice, skipped, stale>>

\* The document and its number commit together.
CommitNumber(p) ==
    /\ writing[p] # NoWriting /\ writing[p].kind = "post"
    /\ series' = writing[p].row
    /\ issued' = issued \cup writing[p].taken
    /\ twice' = twice \cup (issued \cap writing[p].taken)
    /\ lock' = NoOne
    /\ writing' = [writing EXCEPT ![p] = NoWriting]
    /\ UNCHANGED <<skipped, stale>>

\* What is left of the counter when the document's transaction fails.
\* F: the counter had a transaction of its own.
ReturnedNever(p) == IF writing[p].kind = "post" THEN writing[p].row ELSE series
Returned(p) == series

ReturnNumber(p) ==
    /\ writing[p] # NoWriting
    /\ series' = Returned(p)
    /\ lock' = IF lock = p THEN NoOne ELSE lock
    /\ writing' = [writing EXCEPT ![p] = NoWriting]
    /\ UNCHANGED <<issued, twice, skipped, stale>>

-----------------------------------------------------------------------------
(* NumberSeriesView.patch.                                                 *)

\* Forward only: past what has been issued.
Floor(row) == row.highest + 1

\* get_or_create, and the check.  A row that exists is read without a lock; a row
\* that does not is inserted, and held.
OpenSettings(p) ==
    /\ writing[p] = NoWriting
    /\ \E n \in Numbers :
          /\ n >= Floor(series)
          /\ writing' = [writing EXCEPT ![p] =
                [kind |-> "patch", row |-> series, taken |-> {}, to |-> n]]
    /\ IF series.exists THEN UNCHANGED lock ELSE MayLock(p) /\ lock' = p
    /\ UNCHANGED <<series, issued, twice, skipped, stale>>

\* save(update_fields=["prefix", "width", "next_number"]): highest_issued stays.
SaveSettings(p) ==
    /\ writing[p] # NoWriting /\ writing[p].kind = "patch"
    /\ MayLock(p)
    /\ series' = [series EXCEPT !.exists = TRUE, !.next = writing[p].to]
    /\ skipped' = skipped \cup (series.next .. writing[p].to - 1)
    /\ stale' = (stale \/ series.highest # writing[p].row.highest)
    /\ lock' = IF lock = p THEN NoOne ELSE lock
    /\ writing' = [writing EXCEPT ![p] = NoWriting]
    /\ UNCHANGED <<issued, twice>>

NumberingNext == \E p \in Writers : \/ Allocate(p) \/ CommitNumber(p) \/ ReturnNumber(p)
                         \/ OpenSettings(p) \/ SaveSettings(p)

NumberingSpec == NumberingInit /\ [][NumberingNext]_numberingVars

-----------------------------------------------------------------------------
(* Properties.                                                             *)

Writing == [kind: {"post", "patch"}, row: Row, taken: SUBSET Numbers, to: Numbers]

\* Every variable has its type; the counter stays inside its column.
NumberingTypeOK ==
    /\ series \in Row
    /\ lock \in Writers \cup {NoOne}
    /\ writing \in [Writers -> Writing \cup {NoWriting}]
    /\ issued \in SUBSET Numbers /\ twice \in SUBSET Numbers /\ skipped \in SUBSET Numbers
    /\ stale \in BOOLEAN

\* M6: no two documents of a series bear the same number, however many post together
\* and whatever rolls back (allocate_number, "cannot receive the same number").
NeverTwice == twice = {}

\* It holds as long as no setting is saved on a reading that documents posted meanwhile
\* have made out of date.
NeverTwiceUnlessStale == ~stale => NeverTwice

\* M6: the series has no holes.  Below the highest number issued every number is on a
\* document, or a setting moved the counter past it: a rollback returns its number.
NoGaps == \A n \in 1 .. series.highest : n \in issued \cup skipped

\* highest_issued is the floor of the settings screen, so it has to be the highest number
\* on any document, after a setting that moved the counter back under it as well.
HighestIsIssued ==
    /\ \A n \in issued : n <= series.highest
    /\ series.highest # 0 => series.highest \in issued

\* Numbers grow in the order documents commit: a later document never bears a number
\* below an earlier one (allocate_number holds its lock to the end of the transaction).
InOrder ==
    [][~stale => \A n \in issued' \ issued, m \in issued : m < n]_numberingVars

=============================================================================
