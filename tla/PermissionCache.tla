--------------------------- MODULE PermissionCache ---------------------------
(***************************************************************************)
(* The permissions of one role of one tenant as the gateway sees them      *)
(* (dynamic-policy/handler.lua, get_permissions_for_role): a shared        *)
(* dictionary per gateway node (L1), Redis (L2), and the tenant            *)
(* configuration service behind the circuit breaker.  Roles have separate  *)
(* keys, so one role stands for all.  No code of the repository deletes or *)
(* overwrites a copy when the role changes: copies only expire.            *)
(*                                                                         *)
(* Permissions are numbered in the order in which the service set them.    *)
(* Bound on time: a lookup overlaps at most one tick.                      *)
(***************************************************************************)
EXTENDS Integers

CONSTANTS
  Gateway,     \* nodes, each with its dictionary
  Resolve,     \* concurrent executions of get_permissions_for_role
  NodeOf,      \* NodeOf[q]: the node that runs q
  L1Life,      \* ticks a copy in a dictionary lives (300 s)
  L2Life,      \* ticks a copy in Redis lives (3600 s)
  MaxChange    \* bound: changes of the role

ASSUME PermissionAssumption ==
  /\ NodeOf \in [Resolve -> Gateway]
  /\ L1Life \in Nat \ {0} /\ L2Life \in Nat \ {0}
  /\ MaxChange \in Nat

VARIABLES
  role,        \* the role's permissions in the tenant configuration service
  l1, l1left,  \* a node's copy and its remaining life, 0 absent
  l2, l2left,  \* the copy in Redis and its remaining life, 0 absent
  look, held,  \* where a lookup is, and the permissions it holds
  slow,        \* 1 when a tick has passed since the lookup began
  since,       \* history: ticks since a value was replaced, saturating
  eldest       \* history: the largest such age among the lookups' answers

copies   == <<l1, l1left, l2, l2left>>
lookups  == <<look, held, slow>>
permVars == <<role, l1, l1left, l2, l2left, look, held, slow, since, eldest>>

Grants  == 0..MaxChange
OldestGrant == L1Life + L2Life
AgeCap  == OldestGrant + 1            \* bound: ages saturate here

PermInit ==
  /\ role = 0
  /\ l1 = [g \in Gateway |-> 0] /\ l1left = [g \in Gateway |-> 0]
  /\ l2 = 0 /\ l2left = 0
  /\ look = [q \in Resolve |-> "idle"] /\ held = [q \in Resolve |-> 0]
  /\ slow = [q \in Resolve |-> 0]
  /\ since = [v \in Grants |-> 0] /\ eldest = 0

-----------------------------------------------------------------------------
LookAt(q, here, next) == look[q] = here /\ look' = [look EXCEPT ![q] = next]

Granted(v) == eldest' = IF since[v] > eldest THEN since[v] ELSE eldest

L1Hit(q) ==
  /\ look[q] = "idle" /\ l1left[NodeOf[q]] > 0
  /\ Granted(l1[NodeOf[q]])
  /\ UNCHANGED <<role, copies, lookups, since>>

L1Miss(q) ==
  /\ LookAt(q, "idle", "redis") /\ l1left[NodeOf[q]] = 0
  /\ slow' = [slow EXCEPT ![q] = 0]
  /\ UNCHANGED <<role, copies, held, since, eldest>>

\* A hit that writes its copy back to Redis keeps the copy alive for ever.
MutL2Hit(q) ==
  /\ LookAt(q, "redis", "setL2") /\ l2left > 0
  /\ held' = [held EXCEPT ![q] = l2]
  /\ UNCHANGED <<role, copies, slow, since, eldest>>

L2Hit(q) ==
  /\ LookAt(q, "redis", "setL1") /\ l2left > 0
  /\ held' = [held EXCEPT ![q] = l2]
  /\ UNCHANGED <<role, copies, slow, since, eldest>>

\* Absent, not JSON, the GET failed, or Redis could not be reached at all.
L2Miss(q) ==
  /\ LookAt(q, "redis", "call")
  /\ UNCHANGED <<role, copies, held, slow, since, eldest>>

\* The circuit is open (GatewayBreaker), or the call brings no permissions: the
\* role stays unresolved.
Unresolved(q) ==
  /\ LookAt(q, "call", "idle")
  /\ UNCHANGED <<role, copies, held, slow, since, eldest>>

Fetch(q) ==
  /\ LookAt(q, "call", "setL2")
  /\ held' = [held EXCEPT ![q] = role]
  /\ UNCHANGED <<role, copies, slow, since, eldest>>

SetL2(q) ==
  /\ LookAt(q, "setL2", "setL1")
  /\ l2' = held[q] /\ l2left' = L2Life
  /\ UNCHANGED <<role, l1, l1left, held, slow, since, eldest>>

SetL2Fails(q) ==
  /\ LookAt(q, "setL2", "setL1")
  /\ UNCHANGED <<role, copies, held, slow, since, eldest>>

\* A copy of a copy: whichever source it has, it lives L1Life from now.
SetL1(q) ==
  /\ LookAt(q, "setL1", "idle")
  /\ l1' = [l1 EXCEPT ![NodeOf[q]] = held[q]]
  /\ l1left' = [l1left EXCEPT ![NodeOf[q]] = L1Life]
  /\ Granted(held[q])
  /\ UNCHANGED <<role, l2, l2left, held, slow, since>>

-----------------------------------------------------------------------------
ChangeRole ==
  /\ role < MaxChange
  /\ role' = role + 1
  /\ UNCHANGED <<copies, lookups, since, eldest>>

Less(n) == IF n > 0 THEN n - 1 ELSE 0

\* Time passes, a tick at most during a lookup.
PermTick ==
  /\ \A q \in Resolve : look[q] # "idle" => slow[q] = 0
  /\ slow' = [q \in Resolve |-> IF look[q] = "idle" THEN slow[q] ELSE 1]
  /\ l1left' = [g \in Gateway |-> Less(l1left[g])]
  /\ l2left' = Less(l2left)
  /\ since' = [v \in Grants |-> IF v < role /\ since[v] < AgeCap
                                THEN since[v] + 1 ELSE since[v]]
  /\ UNCHANGED <<role, l1, l2, look, held, eldest>>

ResolveStep(q) ==
  \/ L1Hit(q) \/ L1Miss(q) \/ L2Hit(q) \/ L2Miss(q)
  \/ Unresolved(q) \/ Fetch(q) \/ SetL2(q) \/ SetL2Fails(q) \/ SetL1(q)

PermNext ==
  \/ ChangeRole \/ PermTick
  \/ \E q \in Resolve : ResolveStep(q)

PermSpec == PermInit /\ [][PermNext]_permVars

-----------------------------------------------------------------------------
(* Properties.                                                             *)

PermTypeOK ==
  /\ role \in Grants
  /\ l1 \in [Gateway -> Grants] /\ l1left \in [Gateway -> 0..L1Life]
  /\ l2 \in Grants /\ l2left \in 0..L2Life
  /\ look \in [Resolve -> {"idle", "redis", "call", "setL2", "setL1"}]
  /\ held \in [Resolve -> Grants] /\ slow \in [Resolve -> 0..1]
  /\ since \in [Grants -> 0..AgeCap]
  /\ eldest \in 0..AgeCap

\* No request is given permissions that were replaced longer ago than both
\* copies live: copying from Redis to a dictionary adds the lives up once, and
\* nothing adds them up twice, though nodes fill Redis while others copy from it
\* and any call may fail.
GrantsBounded == eldest <= OldestGrant
=============================================================================
