---------------------------- MODULE GatewayAccess ----------------------------
(***************************************************************************)
(* The access phase of the gateway's plugin (dynamic-policy/handler.lua)   *)
(* for requests of one tenant that are in it at the same time: scope,      *)
(* blacklist, roles, origin, rate limits, in this order.  Between two      *)
(* operations on Redis other requests run.  A request may fail to connect  *)
(* to Redis, and any single command may fail after that.                   *)
(*                                                                         *)
(* How a role is resolved is PermissionCache and GatewayBreaker; here it   *)
(* is resolved or not.  The limits are the same for all requests, and      *)
(* counts saturate one above the larger of them.                           *)
(***************************************************************************)
EXTENDS Integers, FiniteSets

CONSTANTS
  Request,      \* requests in the plugin at the same time
  Role,         \* business roles of a member's token
  MinuteLimit, HourLimit,
  HourLength,   \* minutes in an hour
  LastMinute    \* bound: the clock stops there

ASSUME AccessAssumption ==
  /\ MinuteLimit \in Nat /\ HourLimit \in Nat
  /\ HourLength \in Nat \ {0} /\ LastMinute \in Nat
  /\ IsFiniteSet(Request)

VARIABLES
  black,        \* entries of the blacklist that concern the token: jti, sub
  minute,       \* the clock
  perMinute,    \* perMinute[m]: the counter of that minute's bucket
  perHour,      \* perHour[h]: the counter of that hour's bucket
  at,           \* where a request is
  who,          \* what its token says: nothing, business roles only, admin (or
                \* system in the master realm), system in a tenant's realm
  redis,        \* whether it could connect to Redis
  todo, known,  \* roles still to resolve, whether any has been
  bucket,       \* the minute it takes the counters for
  within,       \* whether the counters it has read are within their limits:
                \* "yes", "no", "unknown" when the first INCR failed
  doomed,       \* history: its token was on the blacklist when it began, and no
                \* GET of the blacklist has failed since
  timely,       \* history: the counters it took in their own minute, hour
  passedMinute, \* history: requests that such a count let through
  passedHour

shared     == <<black, minute, perMinute, perHour>>
passes     == <<passedMinute, passedHour>>
request    == <<who, redis, todo, known, bucket, within, doomed, timely>>
accessVars == <<black, minute, perMinute, perHour, at, who, redis, todo, known,
                bucket, within, doomed, timely, passedMinute, passedHour>>

Tokens == {"anonymous", "member", "admin", "system"}
Entries == {"jti", "sub"}
Minutes == 0..LastMinute
HourOf(m) == m \div HourLength
Hours == 0..HourOf(LastMinute)
CountCap == (IF MinuteLimit > HourLimit THEN MinuteLimit ELSE HourLimit) + 1

MutCapped(n) == n
Capped(n) == IF n > CountCap THEN CountCap ELSE n

Places == {"idle", "connect", "jti", "sub", "roles", "policy", "minute", "hour",
           "decide", "forwarded", "refused"}

AccessInit ==
  /\ black = {} /\ minute = 0
  /\ perMinute = [m \in Minutes |-> 0] /\ perHour = [h \in Hours |-> 0]
  /\ at = [q \in Request |-> "idle"] /\ who = [q \in Request |-> "anonymous"]
  /\ redis = [q \in Request |-> FALSE]
  /\ todo = [q \in Request |-> {}] /\ known = [q \in Request |-> FALSE]
  /\ bucket = [q \in Request |-> 0] /\ within = [q \in Request |-> "yes"]
  /\ doomed = [q \in Request |-> FALSE] /\ timely = [q \in Request |-> {}]
  /\ passedMinute = [m \in Minutes |-> 0] /\ passedHour = [h \in Hours |-> 0]

AccessAt(q, here, next) == at[q] = here /\ at' = [at EXCEPT ![q] = next]

-----------------------------------------------------------------------------
(* What a request brings.                                                  *)

Arrives(q, w) ==
  /\ who' = [who EXCEPT ![q] = w]
  /\ doomed' = [doomed EXCEPT ![q] = w # "anonymous" /\ black # {}]
  /\ UNCHANGED <<shared, redis, todo, known, bucket, within,
                 timely, passes>>

\* Web hooks, health checks and OPTIONS are answered without any check; a route
\* with a scope refuses a token without it, and a request without token.
BeginExempt(q) ==
  /\ AccessAt(q, "idle", "forwarded") \/ AccessAt(q, "idle", "refused")
  /\ Arrives(q, "anonymous")

Begin(q, w) ==
  /\ AccessAt(q, "idle", "connect")
  /\ Arrives(q, w)

Connect(q) ==
  /\ AccessAt(q, "connect", IF who[q] = "anonymous" THEN "policy" ELSE "jti")
  /\ redis' = [redis EXCEPT ![q] = TRUE]
  /\ UNCHANGED <<shared, who, todo, known, bucket, within, doomed,
                 timely, passes>>

MutConnectFails(q) ==
  /\ AccessAt(q, "connect", IF who[q] = "member" THEN "refused" ELSE "policy")
  /\ UNCHANGED <<shared, request, passes>>

\* Fail-secure: without Redis no token can be checked.
ConnectFails(q) ==
  /\ AccessAt(q, "connect", IF who[q] = "anonymous" THEN "policy" ELSE "refused")
  /\ UNCHANGED <<shared, request, passes>>

-----------------------------------------------------------------------------
(* The two blacklist checks.                                               *)

\* Where a request goes on when entry e does not stop it.  A token names both.
Cleared == [member |-> "roles", admin |-> "policy", system |-> "refused"]
AfterCheck(q, e) == IF e = "jti" THEN "sub" ELSE Cleared[who[q]]

\* Having passed the last check, a member's roles are looked up one by one.
Check(q, e) ==
  /\ AccessAt(q, e, IF e \in black THEN "refused" ELSE AfterCheck(q, e))
  /\ todo' = IF at'[q] = "roles" THEN [todo EXCEPT ![q] = Role] ELSE todo
  /\ UNCHANGED <<shared, who, redis, known, bucket, within,
                 doomed, timely, passes>>

\* A command that fails answers nil, which reads as "not blacklisted".
CheckFails(q, e) ==
  /\ AccessAt(q, e, AfterCheck(q, e))
  /\ todo' = IF at'[q] = "roles" THEN [todo EXCEPT ![q] = Role] ELSE todo
  /\ doomed' = [doomed EXCEPT ![q] = FALSE]
  /\ UNCHANGED <<shared, who, redis, known, bucket, within,
                 timely, passes>>

-----------------------------------------------------------------------------
(* Permissions.                                                            *)

ResolveRole(q, r) ==
  /\ at[q] = "roles" /\ r \in todo[q]
  /\ todo' = [todo EXCEPT ![q] = @ \ {r}]
  /\ \/ known' = [known EXCEPT ![q] = TRUE]
     \/ UNCHANGED known
  /\ UNCHANGED <<shared, at, who, redis, bucket, within, doomed,
                 timely, passes>>

\* One resolved role is enough; none of several, and the request is refused.
RolesDone(q) ==
  /\ todo[q] = {}
  /\ AccessAt(q, "roles", IF Role # {} /\ ~known[q] THEN "refused" ELSE "policy")
  /\ UNCHANGED <<shared, request, passes>>

\* The permissions are signed; the tenant's policy is read, and its origins may
\* refuse the request.  Without Redis nothing is counted.  The token, the roles and
\* the connection are not looked at again: the model forgets them.
Policy(q) ==
  /\ \/ AccessAt(q, "policy", IF redis[q] THEN "minute" ELSE "forwarded")
     \/ AccessAt(q, "policy", "refused")
  /\ bucket' = [bucket EXCEPT ![q] = minute]
  /\ who' = [who EXCEPT ![q] = "anonymous"] /\ redis' = [redis EXCEPT ![q] = FALSE]
  /\ known' = [known EXCEPT ![q] = FALSE]
  /\ UNCHANGED <<shared, todo, within, doomed, timely, passes>>

-----------------------------------------------------------------------------
(* Rate limits.                                                            *)

MutExceeds(n, limit) == n > limit + 1
Exceeds(n, limit) == n > limit

OnTime(q, counter, ok) ==
  timely' = [timely EXCEPT ![q] = IF ok THEN @ \union {counter} ELSE @]

CountMinute(q) ==
  /\ AccessAt(q, "minute", "hour")
  /\ perMinute' = [perMinute EXCEPT ![bucket[q]] = Capped(@ + 1)]
  /\ within' = [within EXCEPT ![q] =
                  IF Exceeds(perMinute'[bucket[q]], MinuteLimit) THEN "no" ELSE "yes"]
  /\ OnTime(q, "minute", minute = bucket[q])
  /\ UNCHANGED <<black, minute, perHour, who, redis, todo, known, bucket, doomed,
                 passes>>

CountMinuteFails(q) ==
  /\ AccessAt(q, "minute", "hour")
  /\ within' = [within EXCEPT ![q] = "unknown"]
  /\ UNCHANGED <<shared, who, redis, todo, known, bucket, doomed, timely,
                 passes>>

\* The hour is counted even when the minute refuses the request, and looked at
\* only when the minute was counted.
CountHour(q) ==
  LET h == HourOf(bucket[q]) IN
  /\ AccessAt(q, "hour", "decide")
  /\ perHour' = [perHour EXCEPT ![h] = Capped(@ + 1)]
  /\ within' = [within EXCEPT ![q] =
                  IF @ = "yes" /\ Exceeds(perHour'[h], HourLimit) THEN "no" ELSE @]
  /\ OnTime(q, "hour", HourOf(minute) = h)
  /\ UNCHANGED <<black, minute, perMinute, who, redis, todo, known, bucket, doomed,
                 passes>>

CountHourFails(q) ==
  /\ AccessAt(q, "hour", "decide")
  /\ UNCHANGED <<shared, request, passes>>

Passes(q, counter, tally, b) ==
  IF within[q] = "yes" /\ counter \in timely[q]
  THEN [tally EXCEPT ![b] = Capped(@ + 1)] ELSE tally

Decide(q) ==
  /\ AccessAt(q, "decide", IF within[q] = "no" THEN "refused" ELSE "forwarded")
  /\ passedMinute' = Passes(q, "minute", passedMinute, bucket[q])
  /\ passedHour' = Passes(q, "hour", passedHour, HourOf(bucket[q]))
  /\ UNCHANGED <<shared, request>>

\* The request leaves the plugin.
Leave(q) ==
  /\ at[q] \in {"forwarded", "refused"}
  /\ at' = [at EXCEPT ![q] = "idle"]
  /\ who' = [who EXCEPT ![q] = "anonymous"] /\ redis' = [redis EXCEPT ![q] = FALSE]
  /\ todo' = [todo EXCEPT ![q] = {}] /\ known' = [known EXCEPT ![q] = FALSE]
  /\ bucket' = [bucket EXCEPT ![q] = 0] /\ within' = [within EXCEPT ![q] = "yes"]
  /\ doomed' = [doomed EXCEPT ![q] = FALSE] /\ timely' = [timely EXCEPT ![q] = {}]
  /\ UNCHANGED <<shared, passes>>

-----------------------------------------------------------------------------
(* The rest of the system.                                                 *)

\* The user is suspended or the token revoked (UserSuspension, TokenRevocation).
Blacklisted(e) ==
  /\ e \notin black
  /\ black' = black \union {e}
  /\ UNCHANGED <<minute, perMinute, perHour, at, request, passes>>

NextMinute ==
  /\ minute < LastMinute
  /\ minute' = minute + 1
  /\ UNCHANGED <<black, perMinute, perHour, at, request, passes>>

\* A counter lives as long as its bucket from its first INCR, so it goes some time
\* after the bucket's end; a late request then starts it again.
Expire(ms, hs) ==
  /\ \A m \in ms : m < minute
  /\ \A h \in hs : h < HourOf(minute)
  /\ perMinute' = [m \in Minutes |-> IF m \in ms THEN 0 ELSE perMinute[m]]
  /\ perHour' = [h \in Hours |-> IF h \in hs THEN 0 ELSE perHour[h]]
  /\ UNCHANGED <<black, minute, at, request, passes>>

RequestStep(q) ==
  \/ BeginExempt(q) \/ \E w \in Tokens : Begin(q, w)
  \/ Connect(q) \/ ConnectFails(q)
  \/ \E e \in Entries : Check(q, e) \/ CheckFails(q, e)
  \/ \E r \in Role : ResolveRole(q, r)
  \/ RolesDone(q) \/ Policy(q)
  \/ CountMinute(q) \/ CountMinuteFails(q) \/ CountHour(q) \/ CountHourFails(q)
  \/ Decide(q) \/ Leave(q)

AccessNext ==
  \/ \E q \in Request : RequestStep(q)
  \/ \E e \in Entries : Blacklisted(e)
  \/ NextMinute
  \/ \E ms \in SUBSET Minutes, hs \in SUBSET Hours : Expire(ms, hs)

AccessSpec == AccessInit /\ [][AccessNext]_accessVars

-----------------------------------------------------------------------------
(* Properties.                                                             *)

AccessTypeOK ==
  /\ black \subseteq Entries /\ minute \in Minutes
  /\ perMinute \in [Minutes -> 0..CountCap] /\ perHour \in [Hours -> 0..CountCap]
  /\ at \in [Request -> Places] /\ who \in [Request -> Tokens]
  /\ redis \in [Request -> BOOLEAN]
  /\ todo \in [Request -> SUBSET Role] /\ known \in [Request -> BOOLEAN]
  /\ bucket \in [Request -> Minutes]
  /\ within \in [Request -> {"yes", "no", "unknown"}]
  /\ doomed \in [Request -> BOOLEAN]
  /\ timely \in [Request -> SUBSET {"minute", "hour"}]
  /\ passedMinute \in [Minutes -> 0..CountCap]
  /\ passedHour \in [Hours -> 0..CountCap]

\* Whatever fails and whichever role the token carries, a token that was on the
\* blacklist when its request began is not let through, unless the GET of that
\* very check failed on an open connection.
BlacklistedStopped ==
  \A q \in Request : at[q] = "forwarded" => ~doomed[q]

\* However requests of a tenant interleave, at most the limit of them get through
\* on the counts of one minute and of one hour; those whose INCR failed, or came
\* after the bucket had ended, are not among them.
WithinLimits ==
  /\ \A m \in Minutes : passedMinute[m] <= MinuteLimit
  /\ \A h \in Hours : passedHour[h] <= HourLimit
=============================================================================
