------------------------------- MODULE CostLimit -------------------------------
(***************************************************************************)
(* The 30-day cost limit of one tenant of ai-core: get_routing and         *)
(* check_cost_limit of gateway/router.py compare a cached sum of the usage *)
(* log with cached limits; POST /completions logs what it spent, after the *)
(* run, and then looks whether to raise an alert (completions.py).         *)
(*                                                                         *)
(* Each LLMGateway keeps its own copies: the agent's serves "complete"     *)
(* requests, the API's "summarize" and "embed" ones and the alert.  The    *)
(* gRPC servicer's StreamComplete and Summarize are like "summarize" on a  *)
(* gateway of their own.                                                   *)
(*                                                                         *)
(* The limits are missing until the synchronisation that the first request *)
(* triggers has written them (ConfigSync); as they never change here, a    *)
(* gateway's copy of them shows only when Redis fails, and is abstracted   *)
(* to both outcomes.                                                       *)
(*                                                                         *)
(* Bounds: a completion costs 1; entries older than 30 days never leave    *)
(* the sum; the tenant has a limit and one policy.                         *)
(***************************************************************************)
EXTENDS Integers

CONSTANTS
  Prompt,     \* requests
  Kind,       \* what they ask for: "complete", "summarize", "embed"
  Limit,      \* cost_limit_usd
  AlertAt,    \* cost_limit_usd * cost_alert_threshold_percent / 100
  CostLife,   \* ticks a copy lives, in Redis and in a gateway (10 s)
  MaxLogged,  \* bound: the sum
  MaxDelay    \* bound: ticks that pass during look-ups

ASSUME CostAssumption ==
  /\ Limit \in Nat /\ AlertAt \in 1..Limit
  /\ CostLife \in Nat \ {0} /\ MaxLogged \in Nat /\ MaxDelay \in Nat

ASSUME KindAssumption == "complete" \in Kind

LLMGateway == {"agent", "api"}
NoSum == -1

VARIABLES
  policy,            \* cost_limit_policy: "block", "auto_downgrade"
  limits,            \* Redis holds tenant:<id>:limits
  logged,            \* the sum over llm_usage_logs
  sum, sumLeft,      \* the sum's copy in Redis and its remaining life
  copy, copyLeft,    \* a gateway's copy of the sum and its remaining life, 0 expired
  step, kind,        \* where a request is, and what it asks for
  tier,              \* the model it was given: "primary", "fallback"
  read, age,         \* the sum it read from the log; ticks since its look-up began
  delays,
  unsure,            \* history: the request's look-up met a failure
  atLimit,           \* history: ticks the log has been at the set limit, saturating
  alerted, unseen    \* history: an alert was raised; an alert's check was cut short

sumVars    == <<sum, sumLeft, copy, copyLeft>>
alertVars  == <<alerted, unseen>>
costVars   == <<policy, limits, logged, sum, sumLeft,
                copy, copyLeft, step, kind, tier, read, age, delays, unsure, atLimit,
                alerted, unseen>>

MaxLag == 2 * CostLife + MaxDelay

CostInit ==
  /\ policy \in {"block", "auto_downgrade"}
  /\ limits \in BOOLEAN
  /\ logged = 0 /\ sum = NoSum /\ sumLeft = 0
  /\ copy = [g \in LLMGateway |-> NoSum] /\ copyLeft = [g \in LLMGateway |-> 0]
  /\ step = [r \in Prompt |-> "idle"] /\ kind = [r \in Prompt |-> "complete"]
  /\ tier = [r \in Prompt |-> "primary"]
  /\ read = [r \in Prompt |-> NoSum] /\ age = [r \in Prompt |-> 0]
  /\ delays = 0
  /\ unsure = [r \in Prompt |-> FALSE]
  /\ atLimit = 0 /\ alerted = FALSE /\ unseen = FALSE

Steps(r, here, next) == step[r] = here /\ step' = [step EXCEPT ![r] = next]

\* The gateway whose copies the request uses; the alert uses the API's.
Of(r) ==
  IF kind[r] = "complete" /\ step[r] \notin {"alert", "tally", "report"} THEN "agent" ELSE "api"

Remaining(r) == IF age[r] < CostLife THEN CostLife - age[r] ELSE 0

Arrive(r, k) ==
  /\ Steps(r, "idle", "limits")
  /\ kind' = [kind EXCEPT ![r] = k]
  /\ UNCHANGED <<policy, limits, logged, sumVars, tier, read, age, delays, unsure, atLimit,
                 alertVars>>

-----------------------------------------------------------------------------
(* The verdict.                                                            *)

\* check_cost_limit does not downgrade, get_routing does.
Verdict(r, spent) ==
  IF spent < Limit THEN "primary"
  ELSE IF policy = "block" THEN "refused"
  ELSE IF kind[r] = "embed" THEN "primary" ELSE "fallback"

\* lost: a failure has hidden the limits or the sum from the request.
Decides(r, verdict, lost) ==
  /\ step' = [step EXCEPT ![r] = IF verdict = "refused" THEN "idle" ELSE "call"]
  /\ tier' = [tier EXCEPT ![r] = IF verdict = "fallback" THEN "fallback" ELSE "primary"]
  /\ kind' = [kind EXCEPT ![r] = IF verdict = "refused" THEN "complete" ELSE kind[r]]
  /\ unsure' = [unsure EXCEPT ![r] = lost /\ verdict # "refused"]
  /\ read' = [read EXCEPT ![r] = NoSum] /\ age' = [age EXCEPT ![r] = 0]

-----------------------------------------------------------------------------
(* The limits.                                                             *)

Applies(r, present, lost) ==
  IF present
  THEN /\ step' = [step EXCEPT ![r] = "sum"] /\ unsure' = [unsure EXCEPT ![r] = lost]
       /\ UNCHANGED <<kind, tier, read, age>>
  ELSE Decides(r, "primary", lost)

\* Without limits the request passes.
LimitsRead(r) ==
  /\ step[r] = "limits"
  /\ Applies(r, limits, FALSE)
  /\ UNCHANGED <<policy, limits, logged, sumVars, delays, atLimit, alertVars>>

\* Redis failed: an expired copy, if there is one.
LimitsFail(r) ==
  /\ step[r] = "limits"
  /\ \E present \in {limits, FALSE} : Applies(r, present, TRUE)
  /\ UNCHANGED <<policy, limits, logged, sumVars, delays, atLimit, alertVars>>

LimitsArrive ==
  /\ ~limits /\ limits' = TRUE
  /\ UNCHANGED <<policy, logged, sumVars, step, kind, tier, read, age, delays,
                 unsure, atLimit, alertVars>>

-----------------------------------------------------------------------------
(* _get_accumulated_cost.                                                  *)

\* Without the check of its expiry a copy is used for ever.
MutSumLocal(r) ==
  /\ step[r] = "sum" /\ copy[Of(r)] # NoSum
  /\ Decides(r, Verdict(r, copy[Of(r)]), unsure[r])
  /\ UNCHANGED <<policy, limits, logged, sumVars, delays, atLimit, alertVars>>

SumLocal(r) ==
  /\ step[r] = "sum" /\ copyLeft[Of(r)] > 0
  /\ Decides(r, Verdict(r, copy[Of(r)]), unsure[r])
  /\ UNCHANGED <<policy, limits, logged, sumVars, delays, atLimit, alertVars>>

SumRedis(r) ==
  /\ step[r] = "sum" /\ copyLeft[Of(r)] = 0 /\ sumLeft > 0
  /\ copy' = [copy EXCEPT ![Of(r)] = sum]
  /\ copyLeft' = [copyLeft EXCEPT ![Of(r)] = Remaining(r)]
  /\ Decides(r, Verdict(r, sum), unsure[r])
  /\ UNCHANGED <<policy, limits, logged, sum, sumLeft, delays, atLimit, alertVars>>

SumMiss(r) ==
  /\ step[r] = "sum" /\ copyLeft[Of(r)] = 0 /\ sumLeft = 0
  /\ step' = [step EXCEPT ![r] = "query"]
  /\ UNCHANGED <<policy, limits, logged, sumVars, kind, tier, read, age, delays, unsure, atLimit,
                 alertVars>>

\* Redis failed: the expired copy, else the log.
SumFails(r) ==
  /\ step[r] = "sum" /\ copyLeft[Of(r)] = 0
  /\ IF copy[Of(r)] # NoSum THEN Decides(r, Verdict(r, copy[Of(r)]), TRUE)
     ELSE /\ step' = [step EXCEPT ![r] = "query"] /\ unsure' = [unsure EXCEPT ![r] = TRUE]
          /\ UNCHANGED <<kind, tier, read, age>>
  /\ UNCHANGED <<policy, limits, logged, sumVars, delays, atLimit, alertVars>>

SumQuery(r) ==
  /\ Steps(r, "query", "keep")
  /\ read' = [read EXCEPT ![r] = logged]
  /\ UNCHANGED <<policy, limits, logged, sumVars, kind, tier, age, delays, unsure, atLimit,
                 alertVars>>

\* The database failed: the expired copy, or nothing spent.
QueryFails(r) ==
  /\ step[r] = "query"
  /\ Decides(r, Verdict(r, IF copy[Of(r)] = NoSum THEN 0 ELSE copy[Of(r)]), TRUE)
  /\ UNCHANGED <<policy, limits, logged, sumVars, delays, atLimit, alertVars>>

\* SETEX of the sum, which may fail: the error is logged.
Redis10s(r) ==
  \/ sum' = read[r] /\ sumLeft' = CostLife
  \/ UNCHANGED <<sum, sumLeft>>

Copied(r) ==
  /\ copy' = [copy EXCEPT ![Of(r)] = read[r]]
  /\ copyLeft' = [copyLeft EXCEPT ![Of(r)] = Remaining(r)]

SumKept(r) ==
  /\ step[r] = "keep"
  /\ Copied(r) /\ Redis10s(r)
  /\ Decides(r, Verdict(r, read[r]), unsure[r])
  /\ UNCHANGED <<policy, limits, logged, delays, atLimit, alertVars>>

-----------------------------------------------------------------------------
(* The call, the log and the alert.                                        *)

Finishes(r) ==
  /\ step' = [step EXCEPT ![r] = "idle"] /\ kind' = [kind EXCEPT ![r] = "complete"]
  /\ tier' = [tier EXCEPT ![r] = "primary"] /\ unsure' = [unsure EXCEPT ![r] = FALSE]
  /\ read' = [read EXCEPT ![r] = NoSum] /\ age' = [age EXCEPT ![r] = 0]

\* The run failed, or it was no completion: nothing is logged.
Unlogged(r) ==
  /\ step[r] = "call"
  /\ Finishes(r)
  /\ UNCHANGED <<policy, limits, logged, sumVars, delays, atLimit, alertVars>>

Logged(r) ==
  /\ step[r] = "call" /\ kind[r] = "complete" /\ logged < MaxLogged
  /\ logged' = logged + 1
  /\ step' = [step EXCEPT ![r] = "alert"]
  /\ tier' = [tier EXCEPT ![r] = "primary"] /\ unsure' = [unsure EXCEPT ![r] = FALSE]
  /\ UNCHANGED <<policy, limits, sumVars, kind, read, age, delays, atLimit, alertVars>>

\* check_and_trigger_cost_alert reads the limits like a request, from the API's
\* gateway; it ends here when there are none or Redis failed.
AlertLimits(r) ==
  /\ step[r] = "alert"
  /\ \/ /\ limits
        /\ step' = [step EXCEPT ![r] = "tally"]
        /\ UNCHANGED <<kind, tier, read, age, unsure, unseen>>
     \/ Finishes(r) /\ unseen' = TRUE
  /\ UNCHANGED <<policy, limits, logged, sumVars, delays, atLimit, alerted>>

TallyFails(r) ==
  /\ step[r] = "tally"
  /\ Finishes(r) /\ unseen' = TRUE
  /\ UNCHANGED <<policy, limits, logged, sumVars, delays, atLimit, alerted>>

\* An alert that trusts the copy misses what has just been logged.
MutTally(r) ==
  /\ Steps(r, "tally", "report")
  /\ read' = [read EXCEPT ![r] = IF copyLeft["api"] > 0 THEN copy["api"] ELSE logged]
  /\ UNCHANGED <<policy, limits, logged, sumVars, kind, tier, age, delays, unsure, atLimit,
                 alertVars>>

Tally(r) ==
  /\ Steps(r, "tally", "report")
  /\ read' = [read EXCEPT ![r] = logged]
  /\ UNCHANGED <<policy, limits, logged, sumVars, kind, tier, age, delays, unsure, atLimit,
                 alertVars>>

Report(r) ==
  /\ step[r] = "report"
  /\ Copied(r) /\ Redis10s(r)
  /\ alerted' = (alerted \/ read[r] >= AlertAt)
  /\ Finishes(r)
  /\ UNCHANGED <<policy, limits, logged, delays, atLimit, unseen>>

-----------------------------------------------------------------------------
Looking(r) == step[r] \in {"sum", "query", "keep", "alert", "tally", "report"}

MutMinusOne(n) == n - 1
MinusOne(n) == IF n > 0 THEN n - 1 ELSE 0

CostTick ==
  /\ (\E r \in Prompt : Looking(r)) => delays < MaxDelay
  /\ delays' = IF \E r \in Prompt : Looking(r) THEN delays + 1 ELSE delays
  /\ sumLeft' = MinusOne(sumLeft)
  /\ sum' = IF sumLeft' = 0 THEN NoSum ELSE sum
  /\ copyLeft' = [g \in LLMGateway |-> MinusOne(copyLeft[g])]
  /\ age' = [r \in Prompt |-> IF Looking(r) /\ age[r] < CostLife THEN age[r] + 1 ELSE age[r]]
  /\ atLimit' = IF logged >= Limit /\ limits /\ atLimit <= MaxLag THEN atLimit + 1 ELSE atLimit
  /\ UNCHANGED <<policy, limits, logged, copy, step, kind, tier, read,
                 unsure, alertVars>>

CostStep(r) ==
  \/ \E k \in Kind : Arrive(r, k)
  \/ LimitsRead(r) \/ LimitsFail(r)
  \/ SumLocal(r) \/ SumRedis(r) \/ SumMiss(r) \/ SumFails(r)
  \/ SumQuery(r) \/ QueryFails(r) \/ SumKept(r)
  \/ Unlogged(r) \/ Logged(r)
  \/ AlertLimits(r) \/ Tally(r) \/ TallyFails(r) \/ Report(r)

CostNext ==
  \/ CostTick \/ LimitsArrive
  \/ \E r \in Prompt : CostStep(r)

CostSpec == CostInit /\ [][CostNext]_costVars

-----------------------------------------------------------------------------
(* Properties.                                                             *)

CostTypeOK ==
  /\ policy \in {"block", "auto_downgrade"}
  /\ limits \in BOOLEAN
  /\ logged \in 0..MaxLogged
  /\ sum \in 0..MaxLogged \union {NoSum} /\ sumLeft \in 0..CostLife
  /\ copy \in [LLMGateway -> 0..MaxLogged \union {NoSum}]
  /\ copyLeft \in [LLMGateway -> 0..CostLife]
  /\ step \in [Prompt -> {"idle", "limits", "sum", "query", "keep", "call",
                         "alert", "tally", "report"}]
  /\ kind \in [Prompt -> Kind] /\ tier \in [Prompt -> {"primary", "fallback"}]
  /\ read \in [Prompt -> 0..MaxLogged \union {NoSum}] /\ age \in [Prompt -> 0..CostLife]
  /\ delays \in 0..MaxDelay
  /\ unsure \in [Prompt -> BOOLEAN] /\ atLimit \in 0..MaxLag + 1
  /\ alerted \in BOOLEAN /\ unseen \in BOOLEAN

\* Once the logged cost has stood at the limit for the lives of the two copies,
\* the sum's in Redis and the gateway's, and the time sums took on their way to
\* them, no request is let through to the primary model unless a failure of
\* Redis or the database hid the sum from it (or it embeds, under auto_downgrade).
OverLimitStopped ==
  [][\A r \in Prompt :
       step[r] # "call" /\ step'[r] = "call" /\ tier'[r] = "primary" /\ atLimit > MaxLag
         => \/ unsure'[r]
            \/ kind[r] = "embed" /\ policy = "auto_downgrade"]_costVars

\* When no completion is between its log entry and its check, a sum at the
\* threshold has raised an alert, unless a check was cut short: each check reads
\* the log after its own entry is in it.
AlertRaised ==
  (logged >= AlertAt /\ \A r \in Prompt : step[r] \notin {"alert", "tally", "report"})
    => alerted \/ unseen
=============================================================================
