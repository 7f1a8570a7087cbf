-------------------------- MODULE MCComboCatalogue --------------------------
(* An instance of ComboCatalogue for TLC: three combos, the last two variants *)
(* of one product, and nesting no deeper than two.                           *)
EXTENDS ComboCatalogue, TLC

CONSTANTS c1, c2, c3, g1, p1, p2, pg, r1, r2

MCProductOf == c1 :> p1 @@ c2 :> p2 @@ c3 :> p2 @@ g1 :> pg

\* c2 and c3 are alike.
Symmetry == Permutations(Editors) \cup Permutations({c2, c3})
=============================================================================
