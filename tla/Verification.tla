---------------------------- MODULE Verification ----------------------------
(***************************************************************************)
(* The nightly check of the ledger, stock/verification.py: verify_ledger   *)
(* reads the whole ledger and every cached row in one go and reports where *)
(* they disagree.  It changes nothing, so it is a set of operators over    *)
(* the state of Ledger.                                                    *)
(***************************************************************************)
EXTENDS Ledger

\* _ledger_totals: both sides are grouped by the `condition` column, so a
\* reclassifying movement is subtracted from the condition it arrived in.
TotalsOf(n, i, c) ==
    Inbound(n, i, c)
    - MapThenSumSet(LAMBDA k : ledger[k].qty,
        {k \in Movements : ledger[k].from = n /\ ledger[k].item = i /\ ledger[k].cond = c})

\* verify_ledger, parts 1 and 2: the balance rows.
BalanceDrift == {key \in Nodes \X Items \X Conds :
    bal[key[1]][key[2]][key[3]] # TotalsOf(key[1], key[2], key[3])}

\* verify_ledger, part 3: the length left on each drum.
ConsumedFrom(d) ==
    MapThenSumSet(LAMBDA k : ledger[k].qty,
        {k \in Movements : ledger[k].drum = d /\ ledger[k].to \in Consuming})
DrumDrift == {d \in Drums : drum[d].left # Length[d] - ConsumedFrom(d)}

Reclassifies(k) == ledger[k].held # ledger[k].cond

\* The balance check stays quiet as long as nothing was reclassified on its way
\* (a return assessed at the gate, a restore).  After one it reports drift although
\* the cache is exact: RecomputeAgrees holds throughout.
BalancesQuiet ==
    (\A k \in Movements : ~Reclassifies(k)) => BalanceDrift = {}

\* The drum check stays quiet as long as every cut goes to a site or to consumption
\* and no two requests work from one reading of a drum.  A cut handed to a person
\* shortens the drum and is not among the movements the check subtracts.
DrumsQuiet ==
    ("copy" \notin askew /\ \A k \in Movements : ledger[k].drum # NoOne =>
        \/ ledger[k].to \in Consuming
        \/ ledger[k].qty >= Length[ledger[k].drum]) => DrumDrift = {}

\* The nightly check accuses nobody: neither of its parts reports drift while the books
\* are right and it can tell (verify_ledger).
CheckStaysQuiet == BalancesQuiet /\ DrumsQuiet
=============================================================================
