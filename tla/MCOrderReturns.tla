--------------------------- MODULE MCOrderReturns ---------------------------
(* Instances of OrderReturns for TLC. *)
EXTENDS OrderReturns, TLC

CONSTANTS l1, l2, d1, d2, d3, r1, r2

\* One line drawn from two lots, and one of a single unit.
MCDrawn == [l \in Lines |-> IF l = l1 THEN <<1, 1>> ELSE <<0, 1>>]
MCSold == [l \in Lines |-> IF l = l1 THEN 2 ELSE 1]

Symmetry == Permutations(Returns) \cup Permutations(Requests)
=============================================================================
