------------------------------ MODULE MCClaims ------------------------------
(* Two deliveries: a pallet with a carton in a carton, kept for a site, and a crate.   *)
EXTENDS Claims, TLC

MCCodeOrder == <<"b", "c1", "c2", "p">>
MCNameOrder == <<"north", "south">>

Nothing == [x \in {} |-> None]

MCDelivery ==
    "g1" :> [at |-> "yard", bulk |-> 2, site |-> "north",
             units |-> "u1" :> "c2",
             boxes |-> "p" :> [parent |-> None, depth |-> 1, claim |-> 0]
                       @@ "c1" :> [parent |-> "p", depth |-> 2, claim |-> 1]
                       @@ "c2" :> [parent |-> "c1", depth |-> 3, claim |-> 0]]
    @@ "g2" :> [at |-> "yard", bulk |-> 1, site |-> "south",
                units |-> Nothing,
                boxes |-> "b" :> [parent |-> None, depth |-> 1, claim |-> 1]]
=============================================================================
