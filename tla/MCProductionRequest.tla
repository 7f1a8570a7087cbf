------------------------ MODULE MCProductionRequest -------------------------
(* Instances of ProductionRequest for TLC. *)
EXTENDS ProductionRequest, TLC

CONSTANTS l1, l2, d1, d2, r1, r2

Symmetry == Permutations(Lines) \cup Permutations(Notes)
            \cup Permutations(Requests)
=============================================================================
