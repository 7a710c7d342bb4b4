----------------------------- MODULE CallBreakers -----------------------------
(***************************************************************************)
(* Circuit breakers of ai-core (core/circuit_breaker.py, call_async) and   *)
(* the calls they guard: a completion or an embedding tries its primary    *)
(* provider, then its fallback (gateway/router.py); a tool calls an HTTP   *)
(* endpoint, or the gateway, under a breaker of its own and a time-out     *)
(* (tools/executor.py).  One breaker serves all tenants and tasks of the   *)
(* process, and its lock is held before and after a call, not during it.   *)
(*                                                                         *)
(* A task is a coroutine: what it does between two awaits is one step, or  *)
(* a location "retry" where no other task runs.                            *)
(***************************************************************************)
EXTENDS Integers, Sequences

CONSTANTS
  Provider,   \* the providers' breakers
  Tool,       \* the tools' breakers
  Route,      \* the pairs of primary and fallback provider that requests use
  Task,
  FailMax,    \* fail_max
  Timeout     \* ticks of reset_timeout

Breaker == Provider \union Tool
NoTool  == "none"

ASSUME CallAssumption ==
  /\ FailMax \in Nat \ {0} /\ Timeout \in Nat \ {0}
  /\ Route \subseteq Provider \X Provider
  /\ NoTool \notin Breaker /\ Provider \intersect Tool = {}

VARIABLES
  mode, fails, left,   \* per breaker: its state, fail counter, ticks until it may be tried
  at,                  \* per task: "idle", "next", "call", "retry"
  ahead,               \* per task: the breakers of its calls, the current one first
  outer,               \* per task: the tool around it
  blame                \* history: failures since the breaker was closed, saturating

breakers == <<mode, fails, left, blame>>
tasks    == <<at, ahead, outer>>
callVars == <<mode, fails, left, at, ahead, outer, blame>>

CallInit ==
  /\ mode = [b \in Breaker |-> "closed"]
  /\ fails = [b \in Breaker |-> 0] /\ left = [b \in Breaker |-> 0]
  /\ at = [r \in Task |-> "idle"]
  /\ ahead = [r \in Task |-> <<>>] /\ outer = [r \in Task |-> NoTool]
  /\ blame = [b \in Breaker |-> 0]

-----------------------------------------------------------------------------
(* The breaker.  Several calls of one step settle different breakers: good *)
(* and bad are the breakers of those that succeeded and failed.            *)

MutRefuses(b) == mode[b] = "open" /\ left[b] > 1
Refuses(b) == mode[b] = "open" /\ left[b] > 0

MutLetIn(b) == ~Refuses(b) /\ UNCHANGED breakers
\* call_async up to the await.
LetIn(b) ==
  /\ ~Refuses(b)
  /\ mode' = [mode EXCEPT ![b] = IF @ = "open" THEN "half" ELSE @]
  /\ UNCHANGED <<fails, left, blame>>

MutUp(n) == n + 1
\* bound: the counter matters up to FailMax.
Up(n) == IF n < FailMax THEN n + 1 ELSE n

MutOpens(b) == \/ mode[b] = "closed" /\ Up(fails[b]) >= FailMax - 1
               \/ mode[b] = "half"
\* on_failure, after the counter is incremented.
Opens(b) == \/ mode[b] = "closed" /\ Up(fails[b]) >= FailMax
            \/ mode[b] = "half"

Settle(good, bad) ==
  /\ fails' = [b \in Breaker |-> CASE b \in good -> 0
                                   [] b \in bad  -> Up(fails[b])
                                   [] OTHER      -> fails[b]]
  /\ mode' = [b \in Breaker |-> CASE b \in good /\ mode[b] = "half" -> "closed"
                                   [] b \in bad /\ Opens(b)           -> "open"
                                   [] OTHER                           -> mode[b]]
  /\ left' = [b \in Breaker |-> IF b \in bad /\ Opens(b) THEN Timeout ELSE left[b]]
  /\ blame' = [b \in Breaker |-> CASE b \in good /\ mode[b] # "open" -> 0
                                   [] b \in bad                       -> Up(blame[b])
                                   [] OTHER                           -> blame[b]]

Around(r) == {outer[r]} \ {NoTool}

-----------------------------------------------------------------------------
(* Tasks.                                                                  *)

\* No task runs while another is between a failure and its fallback.
Runs(r) == \A q \in Task \ {r} : at[q] # "retry"

Goes(r, place, calls, tool) ==
  /\ at' = [at EXCEPT ![r] = place]
  /\ ahead' = [ahead EXCEPT ![r] = calls]
  /\ outer' = [outer EXCEPT ![r] = tool]

Leaves(r) == Goes(r, "idle", <<>>, NoTool)

\* complete() or embed(): routing and credentials come before the first call.
StartRequest(r, route) ==
  /\ at[r] = "idle" /\ Runs(r)
  /\ Goes(r, "next", route, NoTool)
  /\ UNCHANGED breakers

\* A tool that calls an endpoint; one whose breaker refuses answers at once.
StartTool(r, t) ==
  /\ at[r] = "idle" /\ Runs(r)
  /\ Goes(r, "call", <<t>>, NoTool)
  /\ LetIn(t)

\* A tool that calls the gateway, its own breaker around the providers'.
StartGatewayTool(r, t, route) ==
  /\ at[r] = "idle" /\ Runs(r)
  /\ Goes(r, "next", route, t)
  /\ LetIn(t)

Begin(r) ==
  /\ at[r] \in {"next", "retry"} /\ Runs(r)
  /\ Goes(r, "call", ahead[r], outer[r])
  /\ LetIn(Head(ahead[r]))

\* Where the task goes when its call did not succeed, bad being the breakers
\* it failed under, good the one that was not to blame: on to the fallback, or
\* the exception leaves the gateway and fails the tool around it.
Failover(r, good, bad) ==
  IF Len(ahead[r]) > 1
  THEN Goes(r, "retry", Tail(ahead[r]), outer[r]) /\ Settle(good, bad)
  ELSE Leaves(r) /\ Settle(good, bad \union Around(r))

Refused(r) ==
  /\ at[r] \in {"next", "retry"} /\ Runs(r)
  /\ Refuses(Head(ahead[r]))
  /\ Failover(r, {}, {})

Succeeds(r) ==
  /\ at[r] = "call" /\ Runs(r)
  /\ Leaves(r)
  /\ Settle({Head(ahead[r])} \union Around(r), {})

\* A client-side error is the caller's fault, and counts as a success.
Rejected(r) ==
  /\ at[r] = "call" /\ Runs(r)
  /\ Failover(r, {Head(ahead[r])}, {})

Fails(r) ==
  /\ at[r] = "call" /\ Runs(r)
  /\ Failover(r, {}, {Head(ahead[r])})

Calling(r) == IF at[r] = "call" THEN {Head(ahead[r])} ELSE {}

\* wait_for's time-out, or the caller going away, ends the task wherever it
\* waits: a cancellation is a failure of every call it was in.
Cancelled(r) ==
  /\ at[r] \in {"next", "call"} /\ Runs(r)
  /\ Leaves(r)
  /\ Settle({}, Calling(r) \union Around(r))

-----------------------------------------------------------------------------
CallTick ==
  /\ \A r \in Task : at[r] # "retry"
  /\ left' = [b \in Breaker |-> IF left[b] > 0 THEN left[b] - 1 ELSE 0]
  /\ UNCHANGED <<mode, fails, tasks, blame>>

StartTask(r) ==
  \/ \E route \in Route : StartRequest(r, route)
  \/ \E t \in Tool : StartTool(r, t)
  \/ \E t \in Tool, route \in Route : StartGatewayTool(r, t, route)

Ends(r) == Succeeds(r) \/ Rejected(r) \/ Fails(r) \/ Cancelled(r)
Continue(r) == Begin(r) \/ Refused(r) \/ Ends(r)

CallNext == CallTick \/ \E r \in Task : StartTask(r) \/ Continue(r)

\* Every call has a time-out, the event loop gives every coroutine that can run
\* its turn, and time passes, if not between a failure and its fallback.
CallFairness == SF_callVars(CallTick) /\ \A r \in Task : SF_callVars(Continue(r))

CallSpec     == CallInit /\ [][CallNext]_callVars
FairCallSpec == CallSpec /\ CallFairness

-----------------------------------------------------------------------------
(* Properties.                                                             *)

CallTypeOK ==
  /\ mode \in [Breaker -> {"closed", "open", "half"}]
  /\ fails \in [Breaker -> 0..FailMax] /\ left \in [Breaker -> 0..Timeout]
  /\ at \in [Task -> {"idle", "next", "call", "retry"}]
  /\ ahead \in [Task -> Seq(Breaker)]
  /\ outer \in [Task -> Tool \union {NoTool}]
  /\ \A r \in Task : at[r] # "idle" => ahead[r] # <<>>
  /\ blame \in [Breaker -> 0..FailMax]

InFlight(b) == {r \in Task : outer[r] = b \/ b \in Calling(r)}

Promise == INSTANCE FailFast WITH
  tripped <- [b \in Breaker |-> mode[b] = "open"],
  run     <- fails,
  quiet   <- [b \in Breaker |-> IF mode[b] = "open" THEN left[b] ELSE 0],
  inside  <- [b \in Breaker |-> InFlight(b)]

\* Whatever calls overlap, end late, are nested or cancelled, FailMax failures in
\* a row keep every caller out until the time-out is over, and nothing is let in
\* during that time: call_async holds its lock only around the call.
KeepsPromise == Promise!Spec

\* A breaker that does not let calls pass freely has seen FailMax failures since
\* it was last closed: a success that comes late, from a call begun before it
\* opened, resets the counter and must not make it trip on less.
OpenForCause == \A b \in Breaker : mode[b] # "closed" => blame[b] = FailMax

AskedFor(b) == \E r \in Task : at[r] \in {"next", "retry"} /\ Head(ahead[r]) = b

Disturbed(b) ==
  \E r \in Task : Cancelled(r) \/ (Fails(r) /\ Head(ahead[r]) = b)

\* A provider that is asked for and does not fail any more gets out of its
\* breaker, late results of earlier calls notwithstanding.
ProvidersHeal ==
  \A b \in Provider :
    []<>AskedFor(b) /\ <>[][~Disturbed(b)]_callVars => <>[](mode[b] = "closed")
=============================================================================
