------------------------------ MODULE MCOutbound ------------------------------
(* Instances of Outbound for TLC. *)
EXTENDS Outbound, TLC

CONSTANTS j1, j2, ph1, r1, h1, h2

OneNumber == [j \in Jobs |-> ph1]
JobSymmetry == Permutations(Jobs)
HandlerSymmetry == Permutations(Handlers)
===============================================================================
