------------------------------- MODULE MCAccess -------------------------------
(* Instances of GatewayAccess and PermissionCache for TLC.  The two share  *)
(* no variable, so they are checked side by side: part, chosen in the      *)
(* initial state, says which of them moves.                                *)
EXTENDS GatewayAccess, PermissionCache, TLC

CONSTANTS g1, g2, l1st, l2nd

Apart == l1st :> g1 @@ l2nd :> g2

Symmetry == Permutations(Request) \union Permutations(Role)

VARIABLE part

Init == part \in {"access", "permissions"} /\ AccessInit /\ PermInit

Next ==
  /\ UNCHANGED part
  /\ \/ part = "access" /\ AccessNext /\ UNCHANGED permVars
     \/ part = "permissions" /\ PermNext /\ UNCHANGED accessVars

Spec == Init /\ [][Next]_<<accessVars, permVars, part>>

\* The type invariants of the parts.
TypesOK == AccessTypeOK /\ PermTypeOK
=============================================================================
