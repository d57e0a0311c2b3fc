----------------------------- MODULE MCCustody -----------------------------
(* Two people, one job; either a busy yard or a long chase.                *)
EXTENDS Custody, TLC

MCAssignee == [j \in Jobs |-> "tom"]
MCOpening == [h \in People |-> IF h = "tom" THEN 1 ELSE 0]
MCCloseouts == {[job |-> j, gone |-> 1, back |-> 1] : j \in Jobs}

MCBounds ==
    {[requests |-> 4, days |-> 1, crashes |-> 0, units |-> 1],
     [requests |-> 1, days |-> 3, crashes |-> 2, units |-> 1]}
=============================================================================
