--------------------------- MODULE MCOrderJourney ---------------------------
(* Instances of OrderJourney for TLC. *)
EXTENDS OrderJourney, TLC

CONSTANTS l1, l2, s1, s2, r1, r2

\* Enough of the first line for one order, and of the second too little for
\* the largest quantity, so that packing can fail.
MCStock == [l \in Lines |-> IF l = l1 THEN 2 ELSE 1]

\* The endpoints a delivery, a pickup and a change between them go through.
DeliveryOps == {"update", "claimUnshipped", "packOrder", "createShipment",
                "pickUp", "shipOrder", "addEvent", "fail", "deliver",
                "payCash", "confirmRemittance", "cancel"}
PickupOps == {"update", "packOrder", "collect", "handOver", "cancel"}
CounterOps == {"packOrder", "collect", "handOver", "cancel"}
AllOps == (DeliveryOps \cup PickupOps) \ {"claimUnshipped", "addEvent", "fail"}

Symmetry == Permutations(Requests) \cup Permutations(Ships)
=============================================================================
