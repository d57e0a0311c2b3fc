----------------------------- MODULE MCFinance -----------------------------
(* A float and an expense on it; a purchase for the yard beside an expense; *)
(* two nights out that overlap, and an expense of the manager's own.        *)
EXTENDS Finance

MCKind == [float |-> "FLOAT", fuel |-> "EXPENSE", permit |-> "EXPENSE",
           cable |-> "PURCHASE", night1 |-> "NIGHT_OUT", night2 |-> "NIGHT_OUT"]
MCEntries == DOMAIN MCKind
MCScenarios == {{"float", "fuel"}, {"cable", "permit"}, {"night1", "night2"}}

MCAmount == [e \in MCEntries |-> IF e = "fuel" THEN 2 ELSE 1]
MCRecorder == [e \in MCEntries |-> IF e = "permit" THEN "manager" ELSE "tom"]
MCOnFloat == [e \in MCEntries |-> IF e = "fuel" THEN "float" ELSE "no float"]
MCNights == [e \in MCEntries |-> IF e = "night1" THEN 1 .. 2 ELSE 2 .. 3]
=============================================================================
