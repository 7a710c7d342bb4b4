------------------------- MODULE MCCredentialCache -------------------------
(* Instances of CredentialCache for TLC.                                   *)
EXTENDS CredentialCache, TLC

CONSTANTS w1, w2, l1, l2

\* One lookup in each worker.
Apart == l1 :> w1 @@ l2 :> w2
=============================================================================
