--------------------------- MODULE GatewayBreaker ---------------------------
(***************************************************************************)
(* The circuit breaker that guards the gateway's calls to the tenant       *)
(* configuration service (dynamic-policy/handler.lua).                     *)
(*                                                                         *)
(* Its state is three entries of an nginx shared dictionary.  One get or   *)
(* one set is atomic; the functions that use them are not: worker          *)
(* processes interleave between any two operations.  Inside one worker a   *)
(* function runs to its end, and only the calls themselves overlap; raced  *)
(* remembers whether two functions have ever overlapped.                   *)
(*                                                                         *)
(* The code only compares the failure count with the threshold, so the     *)
(* count saturates there; time is the age of the last failure, which       *)
(* saturates at the cooldown.                                              *)
(***************************************************************************)
EXTENDS Integers

CONSTANTS
  Call,         \* requests that may be in the plugin at the same time
  Threshold,    \* failures that open the circuit
  Cooldown      \* age of the last failure at which OPEN becomes HALF-OPEN

ASSUME BreakerAssumption ==
  /\ Threshold \in Nat \ {0}
  /\ Cooldown \in Nat \ {0}

VARIABLES
  state, failures, age,  \* the shared dictionary circuit_state
  pc,                    \* where each call is
  lstate, lfail,         \* locals: the state and the failure count read
  backend,               \* the tenant configuration service: "up", "down"
  streak,                \* history: failures answered since the last success
  raced                  \* history: two functions have overlapped

dict   == <<state, failures, age>>
locals == <<lstate, lfail>>
vars   == <<state, failures, age, pc, lstate, lfail, backend, streak, raced>>

States == {"CLOSED", "OPEN", "HALF-OPEN"}

\* Points inside one of the breaker's functions.
Inside == {"gateTime", "setHalfOpen",
           "setClosed", "zero",
           "readFailures", "writeFailures", "writeTime", "readState", "setOpen"}
Mid(c) == pc[c] \in Inside

Quiet == \A c \in Call : ~Mid(c)

MutUpTo(n, bound) == n
UpTo(n, bound) == IF n > bound THEN bound ELSE n

At(c, here, next) ==
  /\ pc[c] = here
  /\ pc' = [pc EXCEPT ![c] = next]
  /\ raced' = (raced \/ \E d \in Call \ {c} : Mid(d))

Init ==
  /\ state = "CLOSED" /\ failures = 0 /\ age = Cooldown
  /\ pc = [c \in Call |-> "idle"]
  /\ lstate = [c \in Call |-> "CLOSED"]
  /\ lfail = [c \in Call |-> 0]
  /\ backend = "up"
  /\ streak = 0
  /\ raced = FALSE

-----------------------------------------------------------------------------
(* get_circuit_state.                                                      *)

\* L1 and L2 missed: the call asks the breaker.
ReadState(c) ==
  /\ At(c, "idle", "gateTime")
  /\ lstate' = [lstate EXCEPT ![c] = state]
  /\ UNCHANGED <<dict, lfail, backend, streak>>

MutCooled == age > Cooldown
Cooled == age >= Cooldown

\* Rejected while the circuit is open and hot; the request fails securely.
Reject(c) ==
  /\ At(c, "gateTime", "idle")
  /\ lstate[c] = "OPEN" /\ ~Cooled
  /\ lstate' = [lstate EXCEPT ![c] = "CLOSED"]
  /\ UNCHANGED <<dict, lfail, backend, streak>>

Admit(c) ==
  /\ At(c, "gateTime", "calling")
  /\ lstate[c] # "OPEN"
  /\ UNCHANGED <<dict, locals, backend, streak>>

CoolDown(c) ==
  /\ At(c, "gateTime", "setHalfOpen")
  /\ lstate[c] = "OPEN" /\ Cooled
  /\ UNCHANGED <<dict, locals, backend, streak>>

SetHalfOpen(c) ==
  /\ At(c, "setHalfOpen", "calling")
  /\ state' = "HALF-OPEN"
  /\ lstate' = [lstate EXCEPT ![c] = "HALF-OPEN"]
  /\ UNCHANGED <<failures, age, lfail, backend, streak>>

-----------------------------------------------------------------------------
(* The HTTP call returns: 200 is a success, anything else a failure.       *)

AnswerSuccess(c) ==
  /\ backend = "up"
  /\ At(c, "calling", "setClosed")
  /\ lstate' = [lstate EXCEPT ![c] = "CLOSED"]
  /\ streak' = 0
  /\ UNCHANGED <<dict, lfail, backend>>

AnswerFailure(c) ==
  /\ backend = "down"
  /\ At(c, "calling", "readFailures")
  /\ lstate' = [lstate EXCEPT ![c] = "CLOSED"]
  /\ streak' = UpTo(streak + 1, Threshold)
  /\ UNCHANGED <<dict, lfail, backend>>

\* X-Reset-Circuit-Breaker writes what record_success writes.
ResetHeader(c) ==
  /\ At(c, "idle", "setClosed")
  /\ streak' = 0
  /\ UNCHANGED <<dict, locals, backend>>

(* record_success.                                                         *)

SetClosed(c) ==
  /\ At(c, "setClosed", "zero")
  /\ state' = "CLOSED"
  /\ UNCHANGED <<failures, age, locals, backend, streak>>

Zero(c) ==
  /\ At(c, "zero", "idle")
  /\ failures' = 0
  /\ UNCHANGED <<state, age, locals, backend, streak>>

(* record_failure.                                                         *)

ReadFailures(c) ==
  /\ At(c, "readFailures", "writeFailures")
  /\ lfail' = [lfail EXCEPT ![c] = UpTo(failures + 1, Threshold)]
  /\ UNCHANGED <<dict, lstate, backend, streak>>

WriteFailures(c) ==
  /\ At(c, "writeFailures", "writeTime")
  /\ failures' = lfail[c]
  /\ UNCHANGED <<state, age, locals, backend, streak>>

MutTrips(n) == n > Threshold
Trips(n) == n >= Threshold

WriteTime(c) ==
  /\ At(c, "writeTime", IF Trips(lfail[c]) THEN "readState" ELSE "idle")
  /\ age' = 0
  /\ lfail' = [lfail EXCEPT ![c] = 0]
  /\ UNCHANGED <<state, failures, lstate, backend, streak>>

CheckState(c) ==
  /\ At(c, "readState", IF state # "OPEN" THEN "setOpen" ELSE "idle")
  /\ UNCHANGED <<dict, locals, backend, streak>>

SetOpen(c) ==
  /\ At(c, "setOpen", "idle")
  /\ state' = "OPEN"
  /\ UNCHANGED <<failures, age, locals, backend, streak>>

-----------------------------------------------------------------------------
Tick ==
  /\ age' = UpTo(age + 1, Cooldown)
  /\ UNCHANGED <<state, failures, pc, locals, backend, streak, raced>>

BackendChanges ==
  /\ backend' \in {"up", "down"} \ {backend}
  /\ UNCHANGED <<dict, pc, locals, streak, raced>>

\* What a call that has begun goes on to do.
Proceed(c) ==
  \/ Reject(c) \/ Admit(c) \/ CoolDown(c) \/ SetHalfOpen(c)
  \/ AnswerSuccess(c) \/ AnswerFailure(c)
  \/ SetClosed(c) \/ Zero(c)
  \/ ReadFailures(c) \/ WriteFailures(c) \/ WriteTime(c)
  \/ CheckState(c) \/ SetOpen(c)

Next ==
  \/ Tick \/ BackendChanges
  \/ \E c \in Call : ReadState(c) \/ ResetHeader(c) \/ Proceed(c)

\* Time passes, a call that has begun returns (1 s timeout), and requests that
\* need the fallback keep arriving.
Fairness ==
  /\ WF_vars(Tick)
  /\ \A c \in Call : WF_vars(Proceed(c)) /\ WF_vars(ReadState(c))

Spec     == Init /\ [][Next]_vars
FairSpec == Spec /\ Fairness

-----------------------------------------------------------------------------
(* Properties.                                                             *)

TypeOK ==
  /\ state \in States
  /\ failures \in 0..Threshold
  /\ age \in 0..Cooldown
  /\ pc \in [Call -> Inside \union {"idle", "calling"}]
  /\ lstate \in [Call -> States]
  /\ lfail \in [Call -> 0..Threshold]
  /\ backend \in {"up", "down"}
  /\ streak \in 0..Threshold
  /\ raced \in BOOLEAN

\* Threshold failures in a row open the circuit, although the calls overlap and
\* their answers come in any order: as long as no two workers were inside the
\* breaker at once, a full streak has taken it out of CLOSED.
FailuresTrip ==
  ~raced /\ Quiet /\ streak >= Threshold => state # "CLOSED"

\* A failing probe opens the circuit again at once, under the same condition:
\* the counter of a circuit that is not closed still stands at the threshold.
ProbeFailureReopens ==
  ~raced /\ Quiet /\ state # "CLOSED" => failures >= Threshold

\* Both: the counter is as good as a lock would make it until two workers overlap,
\* however many calls are in flight.
TripsInTime == FailuresTrip /\ ProbeFailureReopens

\* Once the service stays up the circuit closes for good, however many failures
\* were in flight when it came back.
Heals == <>[](backend = "up") => <>[](state = "CLOSED")

\* While the service stays down, and nobody resets the breaker, it keeps opening:
\* whatever updates of the counter are lost, it never lets calls through for ever.
StaysProtected ==
  <>[](backend = "down" /\ \A c \in Call : pc[c] # "setClosed") => []<>(state = "OPEN")

\* A function that has begun counts as done: a success has closed the circuit, a
\* failure has been counted and its time taken.
Recording == {"readFailures", "writeFailures", "writeTime"}
Tripping  == Recording \union {"readState", "setOpen"}
Some(points) == \E c \in Call : pc[c] \in points

Circuit == IF Some({"setClosed"}) THEN "CLOSED"
           ELSE IF streak = Threshold /\ Some(Tripping) THEN "OPEN" ELSE state
Since   == IF Some(Recording) THEN 0 ELSE age
InCall  == {c \in Call : pc[c] = "calling"}

Lock == INSTANCE LockedBreaker WITH
          circuit <- Circuit, run <- streak, since <- Since, inside <- InCall

\* Until two functions overlap, the breaker is the one its functions would make
\* with a lock around each, although their gets and sets are steps of their own,
\* time passes between these and any number of calls is under way.
AsIfLocked ==
  Lock!Init /\ [][raced' \/ Lock!Next \/ UNCHANGED Lock!locked]_vars

\* In the long run the circuit follows the service, whatever updates are lost.
FollowsService == Heals /\ StaysProtected

\* Both: what holds until two workers overlap and what is left of it afterwards.
BreakerWorks == AsIfLocked /\ FollowsService
=============================================================================
