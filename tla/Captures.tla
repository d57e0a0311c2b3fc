------------------------------ MODULE Captures ------------------------------
(***************************************************************************)
(* What offline capture promises (02-design section 8, requirements N1-N3):*)
(* whatever was captured becomes at most one document or one refusal, never*)
(* both, and the phone is told the truth about it, and never told again    *)
(* otherwise.  How often anything is sent is nobody's business.            *)
(***************************************************************************)
EXTENDS Naturals

CONSTANT Entries    \* what is captured on the phone

VARIABLES
    documents,  \* how many documents a capture has become
    refused,    \* the captures the server has refused
    told        \* what the phone shows of each

vars == <<documents, refused, told>>

Init ==
    /\ documents = [e \in Entries |-> 0]
    /\ refused = {}
    /\ told = [e \in Entries |-> "nothing"]

Landed  == {e \in Entries : documents[e] = 1}
Settled == Landed \cup refused

\* Some captures become a document each, others are refused.
Settle ==
    \E land, refuse \in SUBSET (Entries \ Settled) :
        /\ land \cap refuse = {} /\ land \cup refuse # {}
        /\ documents' = [e \in Entries |-> IF e \in land THEN 1 ELSE documents[e]]
        /\ refused' = refused \cup refuse
        /\ UNCHANGED told

\* The phone learns of some of them.
Tell ==
    \E some \in SUBSET Settled :
        /\ some # {}
        /\ told' = [e \in Entries |-> IF e \in some
                                      THEN IF e \in Landed THEN "landed" ELSE "refused"
                                      ELSE told[e]]
        /\ UNCHANGED <<documents, refused>>

Next == Settle \/ Tell

Spec == Init /\ [][Next]_vars

=============================================================================
