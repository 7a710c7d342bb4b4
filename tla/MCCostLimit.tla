------------------------------ MODULE MCCostLimit ------------------------------
(* Instances of CostLimit for TLC.                                         *)
EXTENDS CostLimit, TLC

Symmetry == Permutations(Prompt)
=============================================================================
