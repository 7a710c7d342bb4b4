---------------------------- MODULE LockedBreaker ----------------------------
(***************************************************************************)
(* The gateway's circuit breaker as it would be if each of its functions   *)
(* held a lock: what the code intends, with one step per function.         *)
(***************************************************************************)
EXTENDS Naturals

CONSTANTS Call, Threshold, Cooldown

VARIABLES
  circuit,   \* "CLOSED", "OPEN", "HALF-OPEN"
  run,       \* failures in a row, saturating at Threshold
  since,     \* time since the last failure, saturating at Cooldown
  inside     \* the calls under way

locked == <<circuit, run, since, inside>>

Init == circuit = "CLOSED" /\ run = 0 /\ since = Cooldown /\ inside = {}

\* An open circuit lets nobody in before the cooldown is over, and then everybody.
Enter(c) ==
  /\ c \notin inside /\ inside' = inside \union {c}
  /\ \/ circuit # "OPEN" /\ UNCHANGED circuit
     \/ circuit = "OPEN" /\ since >= Cooldown /\ circuit' = "HALF-OPEN"
  /\ UNCHANGED <<run, since>>

Succeed(c) ==
  /\ c \in inside /\ inside' = inside \ {c}
  /\ circuit' = "CLOSED" /\ run' = 0
  /\ UNCHANGED since

\* By the header that resets the breaker.
Reset == circuit' = "CLOSED" /\ run' = 0 /\ UNCHANGED <<since, inside>>

Fail(c) ==
  /\ c \in inside /\ inside' = inside \ {c}
  /\ run' = IF run < Threshold THEN run + 1 ELSE Threshold
  /\ circuit' = IF run' = Threshold THEN "OPEN" ELSE circuit
  /\ since' = 0

Elapse ==
  /\ since' = IF since < Cooldown THEN since + 1 ELSE Cooldown
  /\ UNCHANGED <<circuit, run, inside>>

Next == Elapse \/ Reset \/ \E c \in Call : Enter(c) \/ Succeed(c) \/ Fail(c)

Spec == Init /\ [][Next]_locked
=============================================================================
