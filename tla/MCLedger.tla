------------------------------ MODULE MCLedger ------------------------------
(* Two web workers.  A behaviour is about one item type: an antenna, with   *)
(* two tagged units and some untagged stock, a cable, with two drums and    *)
(* some loose length, or a rope, of which one delivery came on a drum       *)
(* although the item type is counted in bulk.                               *)
EXTENDS Verification, TLC

CONSTANTS yard, person, site, world, antenna, cable, rope, good, faulty,
          u1, u2, d1, d2, d3, none, p1, p2

MCNodes == {yard, person, site, world}
MCItemOf == [x \in {u1, u2, d1, d2, d3} |-> IF x \in {u1, u2} THEN antenna
                                            ELSE IF x = d3 THEN rope ELSE cable]
MCDefaultMode == [i \in {antenna, cable, rope} |->
    CASE i = antenna -> "SERIALIZED" [] i = cable -> "REEL" [] i = rope -> "BULK"]
MCLength == [d \in {d1, d2, d3} |-> IF d = d1 THEN 3 ELSE 2]

Line(type, mode, item, qty, from, to, held, cond) ==
    [type |-> type, mode |-> mode, item |-> item, qty |-> qty,
     from |-> from, to |-> to, held |-> held, cond |-> cond,
     unit |-> none, drum |-> none, of |-> 0]
Tagged(type, u, from, to, held, cond) ==
    [Line(type, "SERIALIZED", antenna, 1, from, to, held, cond) EXCEPT !.unit = u]
OnDrum(type, d, qty, from, to, held, cond) ==
    [Line(type, "REEL", MCItemOf[d], qty, from, to, held, cond) EXCEPT !.drum = d]
Loose(type, qty, from, to) == Line(type, "BULK", cable, qty, from, to, good, good)

(* Receipts, issues to a technician, the install at the site, and the       *)
(* return that the gate assesses as faulty.                                 *)
MCAntennas ==
    UNION {{Tagged("RECEIPT", u, world, yard, good, good),
            Tagged("ISSUE", u, yard, person, good, good)} : u \in {u1, u2}}
    \cup {Tagged("INSTALL", u1, person, site, good, good),
          Tagged("RECEIPT", u1, person, yard, good, faulty),
          Line("RECEIPT", "BULK", antenna, 2, world, yard, good, good),
          Line("ISSUE", "BULK", antenna, 1, yard, person, good, good),
          Line("RECEIPT", "BULK", antenna, 1, person, yard, good, faulty)}
(* Receipts of both drums and of loose length; a cut and a whole drum       *)
(* handed to the technician; cuts installed straight from the yard and      *)
(* from custody; a cut written off as faulty; loose length going out.       *)
MCCables ==
    {OnDrum("RECEIPT", d1, 3, world, yard, good, good),
     OnDrum("RECEIPT", d2, 2, world, yard, good, good),
     OnDrum("ISSUE", d1, 1, yard, person, good, good),
     OnDrum("ISSUE", d1, 3, yard, person, good, good),
     OnDrum("ISSUE", d1, 2, yard, site, good, good),
     OnDrum("INSTALL", d1, 2, person, site, good, good),
     OnDrum("INSTALL", d2, 2, yard, site, good, good),
     OnDrum("RESTORE", d2, 1, yard, person, good, faulty),
     Loose("RECEIPT", 2, world, yard),
     Loose("ISSUE", 1, yard, person),
     Loose("ISSUE", 2, yard, person)}

(* The rope: its drum, loose length, and what goes out of either.          *)
MCRopes ==
    {OnDrum("RECEIPT", d3, 2, world, yard, good, good),
     OnDrum("ISSUE", d3, 1, yard, person, good, good),
     Line("RECEIPT", "BULK", rope, 1, world, yard, good, good),
     Line("ISSUE", "BULK", rope, 2, yard, person, good, good)}
(* A stock count that finds more, or less, than the books say.              *)
Count(i, from, to) == Line("ADJUST", MCDefaultMode[i], i, 1, from, to, good, good)
MCCounts == {Count(i, yard, world) : i \in {antenna, cable, rope}} \cup {Count(rope, world, yard)}

MCRequests == MCAntennas \cup MCCables \cup MCRopes \cup MCCounts
(* No rule relates two items.  When there is room for one movement more,    *)
(* of two that are under way only one could be posted.                      *)
Open == {p \in Procs : txn[p] # Idle}
ItemsInPlay == {ledger[k].item : k \in Movements} \cup {txn[p].req.item : p \in Open}
MCInBounds ==
    /\ Cardinality(ItemsInPlay) <= 1
    /\ Cardinality(Open) > 1 => Len(ledger) < MaxMovements - 1

MCNext ==
    \E p \in Procs :
       \/ (Ask(p) \/ AskReversal(p)) /\ MCInBounds'
       \/ Post(p) \/ Refuse(p) \/ Abort(p)
MCSpec == Init /\ [][MCNext]_vars

MCSymmetry == Permutations({p1, p2})
=============================================================================
