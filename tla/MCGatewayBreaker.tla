-------------------------- MODULE MCGatewayBreaker --------------------------
(* Instances of GatewayBreaker for TLC.                                    *)
EXTENDS GatewayBreaker, TLC

Symmetry == Permutations(Call)
=============================================================================
