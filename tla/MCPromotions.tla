---------------------------- MODULE MCPromotions ----------------------------
(* Promotions for TLC: p1 takes half off item a; p2 takes 3 off any item     *)
(* from a cart of 2 on and is capped per customer. The two may be combined.  *)
(* The remaining bounds are in MCPromotions.cfg.                             *)
EXTENDS Promotions, TLC

CONSTANTS p1, p2, a, b, o1, o2, k1, r1, r2

MCValue == p1 :> 50 @@ p2 :> 3
MCMaxDiscount == p1 :> NoLimit @@ p2 :> NoLimit
MCTargets == p1 :> {a} @@ p2 :> {a, b}
MCMinOrder == p1 :> 0 @@ p2 :> 2
\* The owner limits the uses of p1, and edits the cap per customer of p2.
MCLimits == p1 :> {1, NoLimit} @@ p2 :> {NoLimit}
MCCaps == p1 :> {NoLimit} @@ p2 :> {1, 2}

Symmetry == Permutations(Requests) \cup Permutations(Orders)
=============================================================================
