------------------------------- MODULE Replica -------------------------------
(***************************************************************************)
(* What a copy of numbered values promises: it may lag behind its source   *)
(* and skip values, but it takes only values the source has had, in the    *)
(* order in which the source had them.                                     *)
(***************************************************************************)
EXTENDS Naturals

CONSTANT Key

VARIABLES source, copy   \* per key: the newest value and the copied one

replica == <<source, copy>>

Init == source = [k \in Key |-> 0] /\ copy = [k \in Key |-> 0]

Change(k) ==
  /\ source' = [source EXCEPT ![k] = source[k] + 1]
  /\ UNCHANGED copy

Catch(k) ==
  /\ \E v \in copy[k]..source[k] : copy' = [copy EXCEPT ![k] = v]
  /\ UNCHANGED source

Next == \E k \in Key : Change(k) \/ Catch(k)

Spec == Init /\ [][Next]_replica
=============================================================================
