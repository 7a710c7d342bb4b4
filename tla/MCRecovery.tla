------------------------------- MODULE MCRecovery -------------------------------
(* Instances of ServiceRegistry and CallBreakers for TLC: what must come   *)
(* back by itself, the route to a live node and the calls of a provider.   *)
(* The two share no variable, so they are checked side by side: part,      *)
(* chosen in the initial state, says which of them moves.                  *)
EXTENDS ServiceRegistry, CallBreakers

\* All requests have the same primary provider.
Primary    == CHOOSE p \in Provider : TRUE
OnePrimary == {<<Primary, f>> : f \in Provider}

VARIABLE part

In(name) == part = name /\ UNCHANGED part

RecoveryInit ==
  /\ part \in {"registry", "calls"} /\ Init /\ CallInit
  \* The registry that stands still begins in one of its initial states.
  /\ part = "registry" \/ client = "user"

RecoveryNext ==
  \/ In("registry") /\ Next /\ UNCHANGED callVars
  \/ In("calls") /\ CallNext /\ UNCHANGED vars

\* The registry's Fairness, for the part that moves; CallFairness as it is, no
\* action of which is enabled when the calls stand still.
RecoveryFairness ==
  /\ WF_vars(In("registry") /\ FairTick) /\ WF_vars(In("registry") /\ FairDaemon)
  /\ \A n \in Node : WF_vars(In("registry") /\ FairCalls(n))
  /\ CallFairness

RecoverySpec == RecoveryInit /\ [][RecoveryNext]_<<vars, callVars, part>> /\ RecoveryFairness
=============================================================================
