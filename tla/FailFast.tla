------------------------------- MODULE FailFast -------------------------------
(***************************************************************************)
(* What circuit breakers promise the code behind them, however many calls  *)
(* are under way: once FailMax calls in a row have failed, nobody starts   *)
(* another for Timeout ticks.  How a breaker tries again is its own        *)
(* affair, and it may trip sooner than it must.                            *)
(***************************************************************************)
EXTENDS Integers

CONSTANTS
  Breaker,
  Task,      \* the callers
  FailMax,   \* failures in a row that trip a breaker
  Timeout    \* ticks it refuses calls

VARIABLES
  tripped,   \* per breaker: tripped, and no call let through since
  run,       \* failures since the last success, saturating at FailMax
  quiet,     \* ticks it still refuses calls
  inside     \* the tasks whose call is under way

promise == <<tripped, run, quiet, inside>>

Init ==
  /\ tripped = [b \in Breaker |-> FALSE] /\ run = [b \in Breaker |-> 0]
  /\ quiet = [b \in Breaker |-> 0] /\ inside = [b \in Breaker |-> {}]

Rests(b) ==
  /\ tripped'[b] = tripped[b] /\ run'[b] = run[b]
  /\ quiet'[b] = quiet[b] /\ inside'[b] = inside[b]

Admits(b, r) ==
  /\ quiet[b] = 0 /\ r \notin inside[b]
  /\ inside'[b] = inside[b] \union {r} /\ ~tripped'[b]
  /\ run'[b] = run[b] /\ quiet'[b] = quiet[b]

Good(b, r) ==
  /\ r \in inside[b]
  /\ inside'[b] = inside[b] \ {r} /\ run'[b] = 0
  /\ tripped'[b] = tripped[b] /\ quiet'[b] = quiet[b]

Bad(b, r) ==
  /\ r \in inside[b]
  /\ inside'[b] = inside[b] \ {r}
  /\ run'[b] = IF run[b] < FailMax THEN run[b] + 1 ELSE run[b]
  /\ \/ ~tripped[b] /\ tripped'[b] /\ quiet'[b] = Timeout
     \/ /\ tripped[b] \/ run'[b] < FailMax
        /\ tripped'[b] = tripped[b] /\ quiet'[b] = quiet[b]

Elapses(b) ==
  /\ quiet[b] > 0 /\ quiet'[b] = quiet[b] - 1
  /\ tripped'[b] = tripped[b] /\ run'[b] = run[b] /\ inside'[b] = inside[b]

\* A step may end a call under two breakers, one around the other.
Next ==
  \A b \in Breaker :
    \/ Rests(b) \/ Elapses(b)
    \/ \E r \in Task : Admits(b, r) \/ Good(b, r) \/ Bad(b, r)

Spec == Init /\ [][Next]_promise
=============================================================================
