--------------------------- MODULE ServiceRegistry ---------------------------
(***************************************************************************)
(* Service discovery for one upstream: the nodes that register themselves  *)
(* in Redis (a set of addresses and one key with a TTL per address), the   *)
(* daemon that copies the registry into Kong, and Kong's target list.      *)
(*                                                                         *)
(* One tick is one heartbeat period (5 s in both clients), so the 15 s key *)
(* is TTL = 3.  A heartbeat that does not land within its period counts as *)
(* failed: the next tick waits until every heartbeat due has been tried.   *)
(***************************************************************************)
EXTENDS Integers

CONSTANTS
  Node,       \* the addresses ip:port
  TTL,        \* lifetime of a node key, in heartbeat periods
  MaxFaults   \* bound: failed Redis and Admin API calls, daemon restarts

ASSUME RegistryAssumption ==
  /\ TTL \in Nat \ {0}
  /\ MaxFaults \in Nat

VARIABLES
  client,    \* whose nodes these are: "ai-core" or "user"
  proc,      \* proc[n]: where the process at n is in its life
  beat,      \* beat[n]: the heartbeat loop of n
  members,   \* Redis set registry:service:S
  ttl,       \* ttl[n]: remaining life of registry:service:S:node:n, 0 absent
  kong,      \* targets of the upstream with a positive weight
  dpc, todo, active, doomed, toAdd, toRemove,  \* sync_service's locals
  faults,
  missed,    \* history: periods since n last renewed its key, at most TTL
  steady,    \* history: nodes registered and alive since the cycle began
  blind      \* history: members whose EXISTS failed in this cycle

procVars == <<proc, beat>>
redis    == <<members, ttl>>
plan     == <<toAdd, toRemove>>
daemon   == <<dpc, todo, active, doomed, toAdd, toRemove>>
vars     == <<client, proc, beat, members, ttl, kong, dpc, todo, active, doomed,
              toAdd, toRemove, faults, missed, steady, blind>>

Nest == client = "user"         \* the client written for NestJS

Gone == {"down", "stopped"}     \* crashed or never started; shut down

\* ai-core starts the heartbeat task before it registers, the user service
\* after.
Beating(n) == proc[n] \in IF Nest THEN {"up"} ELSE {"joining", "leasing", "up"}

Healthy(n) == Beating(n) /\ ttl[n] > 0

Ok    == UNCHANGED faults
Fault == faults < MaxFaults /\ faults' = faults + 1

Init ==
  /\ client \in {"ai-core", "user"}
  /\ proc = [n \in Node |-> "down"]
  /\ beat = [n \in Node |-> "rest"]
  /\ members = {}
  /\ ttl = [n \in Node |-> 0]
  /\ kong = {}
  /\ dpc = "sleep"
  /\ todo = {} /\ active = {} /\ doomed = {} /\ toAdd = {} /\ toRemove = {}
  /\ faults = 0
  /\ missed = [n \in Node |-> TTL]
  /\ steady = {}
  /\ blind = {}

-----------------------------------------------------------------------------
(* The life of a node.                                                     *)

Start(n) ==
  /\ proc[n] \in Gone
  /\ proc' = [proc EXCEPT ![n] = "joining"]
  /\ UNCHANGED <<beat, redis, kong, daemon, faults, missed, blind>>

\* SADD of the address.  An exception skips the SETEX; the node serves anyway.
RegisterSadd(n) ==
  /\ proc[n] = "joining"
  /\ \/ /\ Ok
        /\ members' = members \union {n}
        /\ proc' = [proc EXCEPT ![n] = "leasing"]
     \/ /\ Fault
        /\ proc' = [proc EXCEPT ![n] = "up"]
        /\ UNCHANGED members
  /\ UNCHANGED <<beat, ttl, kong, daemon, missed, blind>>

\* SETEX of the node key.
Lease(n) ==
  /\ ttl' = [ttl EXCEPT ![n] = TTL]
  /\ missed' = [missed EXCEPT ![n] = 0]

RegisterSetex(n) ==
  /\ proc[n] = "leasing"
  /\ \/ Ok /\ Lease(n)
     \/ Fault /\ UNCHANGED <<ttl, missed>>
  /\ proc' = [proc EXCEPT ![n] = "up"]
  /\ UNCHANGED <<beat, members, kong, daemon, blind>>

\* The loop renews the key first and the set membership second; an exception
\* in either ends this beat and not the loop.
MutHeartbeatNoRenew(n) ==
  /\ beat[n] = "due"
  /\ \/ Ok /\ beat' = [beat EXCEPT ![n] = "sadd"] /\ missed' = [missed EXCEPT ![n] = 0]
     \/ /\ Fault
        /\ beat' = [beat EXCEPT ![n] = "rest"]
        /\ missed' = [missed EXCEPT ![n] = IF @ < TTL THEN @ + 1 ELSE @]
  /\ UNCHANGED <<proc, redis, kong, daemon, blind>>

HeartbeatSetex(n) ==
  /\ beat[n] = "due"
  /\ \/ Ok /\ Lease(n) /\ beat' = [beat EXCEPT ![n] = "sadd"]
     \/ /\ Fault
        /\ beat' = [beat EXCEPT ![n] = "rest"]
        /\ missed' = [missed EXCEPT ![n] = IF @ < TTL THEN @ + 1 ELSE @]
        /\ UNCHANGED ttl
  /\ UNCHANGED <<proc, members, kong, daemon, blind>>

MutHeartbeatSaddForgotten(n) ==
  /\ beat[n] = "sadd"
  /\ Ok
  /\ beat' = [beat EXCEPT ![n] = "rest"]
  /\ UNCHANGED <<proc, redis, kong, daemon, missed, blind>>

HeartbeatSadd(n) ==
  /\ beat[n] = "sadd"
  /\ \/ Ok /\ members' = members \union {n}
     \/ Fault /\ UNCHANGED members
  /\ beat' = [beat EXCEPT ![n] = "rest"]
  /\ UNCHANGED <<proc, ttl, kong, daemon, missed, blind>>

\* SIGTERM.  ai-core cancels its heartbeat task and awaits it, so a beat in
\* flight stops between its two calls.  In the user service Nest runs
\* RedisService.onModuleDestroy first, which disconnects the client.
Shutdown(n) ==
  /\ proc[n] = "up"
  /\ proc' = [proc EXCEPT ![n] = "leaving"]
  /\ beat' = [beat EXCEPT ![n] = "rest"]
  /\ missed' = [missed EXCEPT ![n] = TTL]
  /\ UNCHANGED <<redis, kong, daemon, faults, blind>>

\* SREM; when it throws, the DEL is skipped.  A disconnected client throws.
DeregisterSrem(n) ==
  /\ proc[n] = "leaving"
  /\ \/ /\ ~Nest /\ Ok
        /\ members' = members \ {n}
        /\ proc' = [proc EXCEPT ![n] = "unleasing"]
     \/ /\ IF Nest THEN Ok ELSE Fault
        /\ proc' = [proc EXCEPT ![n] = "stopped"]
        /\ UNCHANGED members
  /\ UNCHANGED <<beat, ttl, kong, daemon, missed, blind>>

MutDelForgotten(n) ==
  /\ proc[n] = "unleasing"
  /\ Ok
  /\ proc' = [proc EXCEPT ![n] = "stopped"]
  /\ UNCHANGED <<beat, redis, kong, daemon, missed, blind>>

DeregisterDel(n) ==
  /\ proc[n] = "unleasing"
  /\ \/ Ok /\ ttl' = [ttl EXCEPT ![n] = 0]
     \/ Fault /\ UNCHANGED ttl
  /\ proc' = [proc EXCEPT ![n] = "stopped"]
  /\ UNCHANGED <<beat, members, kong, daemon, missed, blind>>

Crash(n) ==
  /\ proc[n] \notin Gone
  /\ proc' = [proc EXCEPT ![n] = "down"]
  /\ beat' = [beat EXCEPT ![n] = "rest"]
  /\ missed' = [missed EXCEPT ![n] = TTL]
  /\ UNCHANGED <<redis, kong, daemon, faults, blind>>

MutAge(t) == t - 1
Age(t) == IF t > 0 THEN t - 1 ELSE 0

\* A heartbeat period passes: keys age, every running loop wakes up.
Tick ==
  /\ \A n \in Node : beat[n] = "rest"
  /\ ttl' = [n \in Node |-> Age(ttl[n])]
  /\ beat' = [n \in Node |-> IF Beating(n) THEN "due" ELSE "rest"]
  /\ UNCHANGED <<proc, members, kong, daemon, faults, missed, blind>>

-----------------------------------------------------------------------------
(* One cycle of the daemon for this service.                               *)

\* SMEMBERS; when it throws, the cycle ends.
StartCycle ==
  /\ dpc = "sleep"
  /\ \/ /\ Ok
        /\ dpc' = "exists"
        /\ todo' = members
     \/ Fault /\ UNCHANGED <<dpc, todo>>
  /\ active' = {}
  /\ blind' = {}
  /\ UNCHANGED <<procVars, redis, kong, doomed, plan, missed>>

MutKeyAlive(m) == ttl[m] > 1
KeyAlive(m) == ttl[m] > 0

\* EXISTS of one member's key.  An exception reads as "expired".
CheckMember(m) ==
  /\ dpc = "exists" /\ doomed = {} /\ m \in todo
  /\ todo' = todo \ {m}
  /\ \/ Ok /\ KeyAlive(m) /\ active' = active \union {m} /\ UNCHANGED <<doomed, blind>>
     \/ Ok /\ ~KeyAlive(m) /\ doomed' = {m} /\ UNCHANGED <<active, blind>>
     \/ Fault /\ doomed' = {m} /\ blind' = blind \union {m} /\ UNCHANGED active
  /\ UNCHANGED <<procVars, redis, kong, dpc, plan, missed>>

\* SREM of the member found expired; the key is not looked at again.
SweepMember ==
  /\ doomed # {}
  /\ \/ Ok /\ members' = members \ doomed
     \/ Fault /\ UNCHANGED members
  /\ doomed' = {}
  /\ UNCHANGED <<procVars, ttl, kong, dpc, todo, active, plan, missed, blind>>

\* GET of Kong's targets; any answer but 200 ends the cycle.
FetchTargets ==
  /\ dpc = "exists" /\ doomed = {} /\ todo = {}
  /\ \/ /\ Ok
        /\ dpc' = "apply"
        /\ toAdd' = active \ kong
        /\ toRemove' = kong \ active
     \/ Fault /\ dpc' = "sleep" /\ UNCHANGED plan
  /\ UNCHANGED <<procVars, redis, kong, todo, active, doomed, missed, blind>>

\* POST of a missing target.  A failure is logged and left to the next cycle.
AddTarget(m) ==
  /\ dpc = "apply" /\ m \in toAdd
  /\ toAdd' = toAdd \ {m}
  /\ \/ Ok /\ kong' = kong \union {m}
     \/ Fault /\ UNCHANGED kong
  /\ UNCHANGED <<procVars, redis, dpc, todo, active, doomed, toRemove, missed, blind>>

\* DELETE of a target that is not active, after all the additions.
RemoveTarget(m) ==
  /\ dpc = "apply" /\ toAdd = {} /\ m \in toRemove
  /\ toRemove' = toRemove \ {m}
  /\ \/ Ok /\ kong' = kong \ {m}
     \/ Fault /\ UNCHANGED kong
  /\ UNCHANGED <<procVars, redis, dpc, todo, active, doomed, toAdd, missed, blind>>

EndCycle ==
  /\ dpc = "apply" /\ toAdd = {} /\ toRemove = {}
  /\ dpc' = "sleep"
  /\ UNCHANGED <<procVars, redis, kong, todo, active, doomed, plan, faults, missed, blind>>

\* The daemon dies and is started again: its locals are gone.
DaemonRestart ==
  /\ dpc # "sleep"
  /\ Fault
  /\ dpc' = "sleep"
  /\ todo' = {} /\ active' = {} /\ doomed' = {} /\ toAdd' = {} /\ toRemove' = {}
  /\ UNCHANGED <<procVars, redis, kong, missed, blind>>

-----------------------------------------------------------------------------
NodeStep(n) ==
  \/ Start(n) \/ Shutdown(n) \/ Crash(n)
  \/ RegisterSadd(n) \/ RegisterSetex(n)
  \/ HeartbeatSetex(n) \/ HeartbeatSadd(n)
  \/ DeregisterSrem(n) \/ DeregisterDel(n)

DaemonStep ==
  \/ StartCycle \/ SweepMember \/ FetchTargets \/ EndCycle \/ DaemonRestart
  \/ \E m \in Node : CheckMember(m) \/ AddTarget(m) \/ RemoveTarget(m)

\* No step changes the client.  steady is recomputed at every step: taken at
\* the start of a cycle, and left by a node that stops or whose key expires.
TrackSteady ==
  /\ UNCHANGED client
  /\ steady' = {n \in IF dpc = "sleep" /\ dpc' = "exists" THEN members ELSE steady :
                  Healthy(n)'}

Next ==
  /\ Tick \/ DaemonStep \/ \E n \in Node : NodeStep(n)
  /\ TrackSteady

\* Redis clients, timers and the daemon's loop make progress; nobody promises
\* that a process starts, stops or crashes.
FairTick   == Tick /\ TrackSteady
FairDaemon == DaemonStep /\ ~DaemonRestart /\ TrackSteady
FairCalls(n) ==
  /\ \/ RegisterSadd(n) \/ RegisterSetex(n)
     \/ HeartbeatSetex(n) \/ HeartbeatSadd(n)
     \/ DeregisterSrem(n) \/ DeregisterDel(n)
  /\ TrackSteady

Fairness ==
  /\ WF_vars(FairTick) /\ WF_vars(FairDaemon)
  /\ \A n \in Node : WF_vars(FairCalls(n))

Spec     == Init /\ [][Next]_vars
FairSpec == Spec /\ Fairness

-----------------------------------------------------------------------------
(* Properties.                                                             *)

TypeOK ==
  /\ client \in {"ai-core", "user"}
  /\ proc \in [Node -> {"down", "joining", "leasing", "up", "leaving",
                        "unleasing", "stopped"}]
  /\ beat \in [Node -> {"rest", "due", "sadd"}]
  /\ members \subseteq Node
  /\ ttl \in [Node -> 0..TTL]
  /\ kong \subseteq Node
  /\ dpc \in {"sleep", "exists", "apply"}
  /\ todo \subseteq Node /\ active \subseteq Node /\ doomed \subseteq Node
  /\ toAdd \subseteq Node /\ toRemove \subseteq Node
  /\ faults \in 0..MaxFaults
  /\ missed \in [Node -> 0..TTL]
  /\ steady \subseteq Node
  /\ blind \subseteq Node

\* The key of a node whose heartbeat loop runs outlives TTL - 2 consecutive
\* failed heartbeats: with the 15 s key and the 5 s period of the clients one
\* beat may fail, and the second failure in a row may already be too many.
NoPrematureExpiry ==
  \A n \in Node : Beating(n) /\ missed[n] + 2 <= TTL => ttl[n] > 0

\* A node that was registered when the daemon began its cycle, and has kept
\* its key alive since, is not among the targets the cycle deletes, unless the
\* EXISTS of this very node failed.
StableTargetsKept ==
  toRemove \intersect steady \subseteq blind

\* A cycle that ends while no call has failed leaves in Kong the targets it found
\* alive and no other, among them every node that was registered and alive
\* throughout the cycle, whatever the nodes did meanwhile.
TargetsUpToDate ==
  faults = 0 /\ dpc = "apply" /\ toAdd = {} /\ toRemove = {}
    => kong = active /\ steady \subseteq kong

\* Together: a node that runs keeps its key through missed beats, and its target
\* through the daemon's cycles, which bring the targets up to date.
LiveNodesKept == NoPrematureExpiry /\ StableTargetsKept /\ TargetsUpToDate

\* When no call failed, a node of ai-core that completed its shutdown has left
\* nothing behind in Redis, neither the set member nor the key, wherever the
\* shutdown caught its heartbeat.
CleanShutdown ==
  \A n \in Node : ~Nest /\ faults = 0 /\ proc[n] = "stopped"
                    => n \notin members /\ ttl[n] = 0

\* A node that stays up is routed to from some point on, whatever the other
\* nodes do and however the finitely many failures fall.
LiveNodesRouted ==
  \A n \in Node : <>[](proc[n] = "up") => <>[](n \in kong)

\* A node that stays down, crashed or stopped, is eventually never routed to.
DeadNodesUnrouted ==
  \A n \in Node : <>[](proc[n] \in Gone) => <>[](n \notin kong)

\* The two together: the targets end up being the nodes that run, whatever call of
\* the daemon or of a node fails on the way.
RoutesFollowNodes == LiveNodesRouted /\ DeadNodesUnrouted
=============================================================================
