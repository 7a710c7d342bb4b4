----------------------------- MODULE SecuritySync -----------------------------
(***************************************************************************)
(* The auth sync worker's main loop, as far as tenants' security settings  *)
(* go: the settings live in Redis, the worker copies them into Keycloak.   *)
(* It learns of a change from a pub/sub channel, from a Redis stream it    *)
(* reads as a consumer group, and by reading every tenant when it starts.  *)
(*                                                                         *)
(* A message only names a tenant: the worker reads the settings of the     *)
(* moment and writes them.  Settings are numbered in the order in which    *)
(* they were written; 0 stands for the defaults.                           *)
(***************************************************************************)
EXTENDS Integers, Sequences

CONSTANTS
  Tenant,
  MaxVersion,   \* bound: changes to a tenant's settings
  MaxSyncFaults,    \* bound: failed calls to Keycloak or Redis
  MaxDeaths    \* bound: deaths of the worker

ASSUME SyncAssumption ==
  MaxVersion \in Nat /\ MaxSyncFaults \in Nat /\ MaxDeaths \in Nat

VARIABLES
  config,     \* config[t]: the settings in Redis
  unsaid,     \* tenants whose last change is not announced yet
  channel,    \* messages waiting in the worker's pub/sub subscription
  stream,     \* config.updates.stream
  read,       \* last-delivered index of the consumer group
  acked,      \* indices acknowledged
  keycloak,   \* keycloak[t]: the settings of the organization
  phase,      \* where the worker is in its loop
  boot,       \* tenants initial_sync has still to do
  job, seen,  \* the tenant being synchronised ("none"), the settings read
  back,       \* where the worker goes on after the job
  syncFaults, deaths

redis  == <<config, unsaid, stream>>
group  == <<read, acked>>
locals == <<phase, boot, job, seen, back>>
securityVars ==
  <<config, unsaid, channel, stream, read, acked, keycloak, phase, boot, job, seen,
    back, syncFaults, deaths>>

NoTenant == "none"
ASSUME TenantAssumption == NoTenant \notin Tenant

SyncFault == syncFaults < MaxSyncFaults /\ syncFaults' = syncFaults + 1

SecurityInit ==
  /\ config = [t \in Tenant |-> 0]
  /\ unsaid = {} /\ channel = <<>> /\ stream = <<>>
  /\ read = 0 /\ acked = {}
  /\ keycloak = [t \in Tenant |-> 0]
  /\ phase = "down" /\ boot = {} /\ job = NoTenant /\ seen = 0 /\ back = "down"
  /\ syncFaults = 0 /\ deaths = 0

-----------------------------------------------------------------------------
(* The writer of the settings: it stores them, then announces the tenant.  *)

ChangeConfig(t) ==
  /\ config[t] < MaxVersion
  /\ t \notin unsaid
  /\ config' = [config EXCEPT ![t] = @ + 1]
  /\ unsaid' = unsaid \union {t}
  /\ UNCHANGED <<channel, stream, group, keycloak, locals, syncFaults, deaths>>

Subscribed == phase \in {"channel", "stream", "ack", "read", "write"} /\ back # "boot"

\* Pub/sub reaches a subscribed worker only; the stream keeps the entry.
Announce(t) ==
  /\ t \in unsaid
  /\ unsaid' = unsaid \ {t}
  /\ channel' = IF Subscribed THEN Append(channel, t) ELSE channel
  /\ stream' = Append(stream, [tenant |-> t, version |-> config[t]])
  /\ UNCHANGED <<config, group, keycloak, locals, syncFaults, deaths>>

-----------------------------------------------------------------------------
(* sync_org_security: GET from Redis, then the organization's attributes.  *)

StartJob(t, next) ==
  /\ phase' = "read" /\ job' = t /\ back' = next
  /\ UNCHANGED seen

\* The settings a stream entry carries, which a message may have overtaken.
MutReadConfig ==
  /\ phase = "read"
  /\ phase' = "write" /\ seen' = IF back = "ack" THEN stream[read].version ELSE config[job]
  /\ UNCHANGED <<redis, channel, group, keycloak, boot, job, back, syncFaults,
                 deaths>>

ReadConfig ==
  /\ phase = "read"
  /\ phase' = "write" /\ seen' = config[job]
  /\ UNCHANGED <<redis, channel, group, keycloak, boot, job, back, syncFaults,
                 deaths>>

\* A Redis error is not caught in sync_org_security: it abandons the message,
\* and a stream entry stays unacknowledged.  At start-up it ends initial_sync.
ReadConfigFails ==
  /\ phase = "read" /\ SyncFault
  /\ phase' = IF back = "ack" THEN "channel" ELSE back
  /\ boot' = {}
  /\ job' = NoTenant /\ seen' = 0 /\ back' = "channel"
  /\ UNCHANGED <<redis, channel, group, keycloak, deaths>>

EndJob == phase' = back /\ job' = NoTenant /\ seen' = 0 /\ UNCHANGED back

WriteKeycloak ==
  /\ phase = "write" /\ EndJob
  /\ keycloak' = [keycloak EXCEPT ![job] = seen]
  /\ UNCHANGED <<redis, channel, group, boot, syncFaults, deaths>>

\* Every Keycloak error is logged and swallowed.
WriteKeycloakFails ==
  /\ phase = "write" /\ SyncFault /\ EndJob
  /\ UNCHANGED <<redis, channel, group, keycloak, boot, deaths>>

-----------------------------------------------------------------------------
(* The loop.                                                               *)

MutSyncStart ==
  /\ phase = "down"
  /\ phase' = "boot" /\ back' = "boot" /\ boot' = {}
  /\ UNCHANGED <<redis, channel, group, keycloak, job, seen, syncFaults, deaths>>

\* Keycloak is ready: initial_sync lists the organizations, or fails and is
\* skipped.
SyncStart ==
  /\ phase = "down"
  /\ phase' = "boot" /\ back' = "boot"
  /\ \/ boot' = Tenant /\ UNCHANGED syncFaults
     \/ boot' = {} /\ SyncFault
  /\ UNCHANGED <<redis, channel, group, keycloak, job, seen, deaths>>

InitialSync(t) ==
  /\ phase = "boot" /\ t \in boot
  /\ boot' = boot \ {t}
  /\ StartJob(t, "boot")
  /\ UNCHANGED <<redis, channel, group, keycloak, syncFaults, deaths>>

\* The consumer group was created at index 0; then the worker subscribes.
Subscribe ==
  /\ phase = "boot" /\ boot = {}
  /\ phase' = "channel" /\ back' = "channel"
  /\ channel' = <<>>
  /\ UNCHANGED <<redis, group, keycloak, boot, job, seen, syncFaults, deaths>>

TakeMessage ==
  /\ phase = "channel" /\ channel # <<>>
  /\ channel' = Tail(channel)
  /\ StartJob(Head(channel), "stream")
  /\ UNCHANGED <<redis, group, keycloak, boot, syncFaults, deaths>>

NoMessage ==
  /\ phase = "channel" /\ channel = <<>>
  /\ phase' = "stream"
  /\ UNCHANGED <<redis, channel, group, keycloak, boot, job, seen, back,
                 syncFaults, deaths>>

MutReadEntry ==
  /\ phase = "stream" /\ read < Len(stream)
  /\ read' = read + 1 /\ acked' = acked \union {read'}
  /\ StartJob(stream[read + 1].tenant, "ack")
  /\ UNCHANGED <<redis, channel, keycloak, boot, syncFaults, deaths>>

\* XREADGROUP with ">": the next entry never delivered before.
ReadEntry ==
  /\ phase = "stream" /\ read < Len(stream)
  /\ read' = read + 1
  /\ StartJob(stream[read + 1].tenant, "ack")
  /\ UNCHANGED <<redis, channel, acked, keycloak, boot, syncFaults, deaths>>

\* The reply is lost: the entry counts as delivered all the same.
LoseEntry ==
  /\ phase = "stream" /\ read < Len(stream) /\ SyncFault
  /\ read' = read + 1
  /\ phase' = "channel"
  /\ UNCHANGED <<redis, channel, acked, keycloak, boot, job, seen, back, deaths>>

NoEntry ==
  /\ phase = "stream" /\ read = Len(stream)
  /\ phase' = "channel"
  /\ UNCHANGED <<redis, channel, group, keycloak, boot, job, seen, back,
                 syncFaults, deaths>>

Ack ==
  /\ phase = "ack"
  /\ \/ acked' = acked \union {read} /\ UNCHANGED syncFaults
     \/ SyncFault /\ UNCHANGED acked
  /\ phase' = "channel"
  /\ UNCHANGED <<redis, channel, read, keycloak, boot, job, seen, back, deaths>>

\* The worker dies; its subscription and its locals go with it.
SyncWorkerDies ==
  /\ phase # "down" /\ deaths < MaxDeaths
  /\ deaths' = deaths + 1
  /\ channel' = <<>>
  /\ phase' = "down" /\ boot' = {} /\ job' = NoTenant /\ seen' = 0 /\ back' = "down"
  /\ UNCHANGED <<redis, group, keycloak, syncFaults>>

-----------------------------------------------------------------------------
Work ==
  \/ Subscribe
  \/ \E t \in Tenant : InitialSync(t)
  \/ ReadConfig \/ ReadConfigFails \/ WriteKeycloak \/ WriteKeycloakFails
  \/ TakeMessage \/ NoMessage \/ ReadEntry \/ LoseEntry \/ NoEntry \/ Ack

Writer == \E t \in Tenant : ChangeConfig(t) \/ Announce(t)

SecurityNext == SyncStart \/ Work \/ Writer \/ SyncWorkerDies

\* The loop runs and what was stored is announced; nothing in the repository
\* promises that somebody starts the worker again.
SecurityFairness ==
  /\ WF_securityVars(Work)
  /\ \A t \in Tenant : WF_securityVars(Announce(t))

SecuritySpec     == SecurityInit /\ [][SecurityNext]_securityVars
FairSecuritySpec == SecuritySpec /\ SecurityFairness

-----------------------------------------------------------------------------
(* Properties.                                                             *)

SecurityTypeOK ==
  /\ config \in [Tenant -> 0..MaxVersion] /\ keycloak \in [Tenant -> 0..MaxVersion]
  /\ unsaid \subseteq Tenant
  /\ channel \in Seq(Tenant)
  /\ stream \in Seq([tenant : Tenant, version : 0..MaxVersion])
  /\ read \in 0..Len(stream) /\ acked \subseteq 1..read
  /\ phase \in {"down", "boot", "channel", "stream", "ack", "read", "write"}
  /\ back \in {"down", "boot", "channel", "stream", "ack"}
  /\ boot \subseteq Tenant /\ job \in Tenant \union {NoTenant} /\ seen \in 0..MaxVersion
  /\ syncFaults \in 0..MaxSyncFaults /\ deaths \in 0..MaxDeaths

\* While no call has failed, what the worker acknowledged is in Keycloak, it or
\* something newer, wherever the worker died and whichever of the three ways
\* the change took.
AckedIsApplied ==
  syncFaults = 0 => \A i \in acked : stream[i].version <= keycloak[stream[i].tenant]

\* Between two jobs of its loop, with every entry of the stream read.
AtRest == phase \in {"channel", "stream", "ack"} /\ read = Len(stream)

\* While no call has failed, a worker at rest has brought Keycloak up to date with
\* every tenant whose last change is announced, whichever of the three ways told
\* it, whatever it had in hand when it died and when the settings changed.
CaughtUp ==
  syncFaults = 0 /\ AtRest => \A t \in Tenant \ unsaid : keycloak[t] = config[t]

Settles(t, v) == <>[](config[t] = v) => <>[](keycloak[t] = v)

Copy == INSTANCE Replica WITH Key <- Tenant, source <- config, copy <- keycloak

\* Keycloak follows the settings in their order: a write of settings read before a
\* change never lands on newer ones, although a job reads before it writes, the
\* worker dies between the two, and three ways announce the same change.
KeycloakFollows == Copy!Spec

\* When no call fails, Keycloak gets the last settings of every tenant, wherever
\* the worker died, if it is not left dead: entries it had taken off the stream
\* are never delivered again, but the restart reads every tenant.
Converges ==
  []<>(phase # "down") /\ [](syncFaults = 0)
    => \A t \in Tenant : \A v \in 0..MaxVersion : Settles(t, v)

\* What the auth service's requirements say, calls failing or not: no settings
\* are lost on network trouble or a restart.
NothingLost ==
  []<>(phase # "down") => \A t \in Tenant : \A v \in 0..MaxVersion : Settles(t, v)
=============================================================================
