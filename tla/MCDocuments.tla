---------------------------- MODULE MCDocuments ----------------------------
(* Two workers and small sets of documents that touch the same balances.   *)
EXTENDS Documents, TLC

MCDocs == {"delivery", "back", "closeout", "handover", "restore", "writeoff", "count",
           "theirs", "move", "home", "out"}

L(from, to, qty) == [from |-> from, to |-> to, qty |-> qty]
A(kind, versions) == [kind |-> kind, versions |-> versions, client |-> FALSE]

MCSheet ==
    [d \in MCDocs |->
        CASE d = "delivery" -> A("GATE_IN",
                << <<L(<< <<"external", "new">> >>, <<"yard", "new">>, 1),
                     L(<< <<"external", "faulty">> >>, <<"quarantine", "faulty">>, 1)>>,
                   <<L(<< <<"external", "new">> >>, <<"yard", "new">>, 1)>> >>)
          [] d = "back" -> A("RETURN",
                << <<L(<< <<"tom", "used">>, <<"tom", "new">> >>, <<"yard", "used">>, 2)>> >>)
          [] d = "closeout" -> A("CLOSEOUT",
                << <<L(<< <<"tom", "new">> >>, <<"site", "new">>, 1),
                     L(<< <<"tom", "used">> >>, <<"site", "used">>, 1)>> >>)
          [] d = "handover" -> A("HANDOVER",
                << <<L(<< <<"tom", "used">> >>, <<"ann", "used">>, 1),
                     L(<< <<"tom", "new">> >>, <<"ann", "new">>, 1)>> >>)
          [] d = "restore" -> A("DISPOSITION",
                << <<L(<< <<"quarantine", "faulty">> >>, <<"yard", "used">>, 1)>> >>)
          [] d = "writeoff" -> [A("DISPOSAL",
                << <<L(<< <<"quarantine", "faulty">> >>, <<"scrap", "faulty">>, 1)>> >>) EXCEPT !.client = TRUE]
          [] d = "count" -> A("COUNT",
                << << >>, <<L(<< <<"external", "new">> >>, <<"yard", "new">>, 1)>>,
                   <<L(<< <<"yard", "new">> >>, <<"external", "new">>, 1)>> >>)
          [] d = "theirs" -> [A("COUNT",
                << <<L(<< <<"yard", "new">> >>, <<"external", "new">>, 1)>> >>) EXCEPT !.client = TRUE]
          [] d = "move" -> A("TRANSFER",
                << <<L(<< <<"yard", "new">> >>, <<"quarantine", "new">>, 1)>> >>)
          [] d = "home" -> A("TRANSFER",
                << <<L(<< <<"quarantine", "new">> >>, <<"yard", "new">>, 1)>> >>)
          [] d = "out" -> A("TRANSFER",
                << <<L(<< <<"yard", "new">> >>, <<"site", "new">>, 1)>> >>)]

MCPresent == {{"delivery"}, {"back", "closeout"}, {"closeout", "handover"},
              {"restore", "writeoff"}, {"count", "move"}, {"theirs", "out"}, {"move", "home"}}

MCOrder == << <<"external", "new">>, <<"external", "used">>, <<"external", "faulty">>,
              <<"yard", "new">>, <<"yard", "used">>, <<"quarantine", "new">>,
              <<"quarantine", "faulty">>, <<"tom", "new">>, <<"tom", "used">>,
              <<"ann", "new">>, <<"ann", "used">>, <<"site", "new">>, <<"site", "used">>,
              <<"yard", "faulty">>, <<"quarantine", "used">>, <<"scrap", "faulty">> >>

MCOpening == [r \in ToSet(MCOrder) |->
                IF r \in {<<"yard", "new">>, <<"tom", "new">>, <<"tom", "used">>,
                       <<"quarantine", "new">>} THEN 1
                ELSE IF r = <<"quarantine", "faulty">> THEN 2 ELSE 0]
=============================================================================
