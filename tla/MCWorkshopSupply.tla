-------------------------- MODULE MCWorkshopSupply --------------------------
(* Instances of WorkshopSupply for TLC. *)
EXTENDS WorkshopSupply, TLC

CONSTANTS o1, o2, q1, q2, u1, u2

Symmetry == Permutations(Orders) \cup Permutations(RequestIds)
            \cup Permutations(Users)
=============================================================================
