------------------------- MODULE MCServiceRegistry -------------------------
(* Instances of ServiceRegistry for TLC.                                   *)
EXTENDS ServiceRegistry, TLC

Symmetry == Permutations(Node)
=============================================================================
