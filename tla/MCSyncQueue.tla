---------------------------- MODULE MCSyncQueue ----------------------------
(* Instances of SyncQueue: a supplier, a delivery that names it, and a     *)
(* release that may be sent online first.                                  *)
EXTENDS SyncQueue, TLC

CONSTANTS supplier, delivery, release, d1, d2

MCRank == (supplier :> 1) @@ (delivery :> 2) @@ (release :> 3)
MCNames == (supplier :> NoOne) @@ (delivery :> supplier) @@ (release :> NoOne)

=============================================================================
