--------------------------- MODULE SyncWorkerProofs ---------------------------
(***************************************************************************)
(* Proofs about the auth service (SecuritySync, TokenRevocation,           *)
(* EventForwarding and Provisioning), for any tenants, tokens, events, runs *)
(* and lives, and any bounds on faults and deaths.                         *)
(*                                                                         *)
(* The worker is the only writer of Keycloak and reads the settings of the *)
(* moment, so what it holds is never older than what is there (Carried),   *)
(* and a tenant out of date is one that something still in flight will     *)
(* bring up to date (OwedInv).                                             *)
(* Its Kafka consumer has every record up to its position handled or in    *)
(* its hands (Accounted), and commits that position.  An identity event is *)
(* on its way, applied or dropped (Counted), and the ones not handed over  *)
(* yet are in order (InOrder).  A run of the provisioning script that is   *)
(* alone can rely on what it has done so far (Reached).                    *)
(***************************************************************************)
EXTENDS SecuritySync, TokenRevocation, EventForwarding, Provisioning, SequenceTheorems, TLAPS

-----------------------------------------------------------------------------
(* Security settings.                                                      *)

\* The entry the worker took off the stream last.
Taken == stream[read]

Carried ==
  /\ \A t \in Tenant : keycloak[t] <= config[t]
  /\ \A i \in 1..Len(stream) : stream[i].version <= config[stream[i].tenant]
  /\ phase \in {"read", "write"} => job \in Tenant
  /\ phase = "write" => keycloak[job] <= seen /\ seen <= config[job]
  /\ phase = "ack" \/ (phase \in {"read", "write"} /\ back = "ack") => read > 0
  /\ phase \in {"read", "write"} /\ back = "ack" => job = Taken.tenant
  /\ phase = "write" /\ back = "ack" => Taken.version <= seen
  /\ phase = "ack" /\ syncFaults = 0 => Taken.version <= keycloak[Taken.tenant]

SyncInv == SecurityTypeOK /\ Carried /\ AckedIsApplied

\* What is appended to a sequence, and what is left of it.
LEMMA Appended ==
  ASSUME NEW S, NEW s \in Seq(S), NEW e \in S
  PROVE  /\ Append(s, e) \in Seq(S) /\ Len(Append(s, e)) = Len(s) + 1
         /\ Append(s, e)[Len(s) + 1] = e
         /\ \A i \in 1..Len(s) : Append(s, e)[i] = s[i]
BY AppendProperties

\* The types, in parts.
Numbers ==
  /\ config \in [Tenant -> 0..MaxVersion] /\ keycloak \in [Tenant -> 0..MaxVersion]
  /\ seen \in 0..MaxVersion
  /\ syncFaults \in 0..MaxSyncFaults /\ deaths \in 0..MaxDeaths

Queues ==
  /\ channel \in Seq(Tenant)
  /\ stream \in Seq([tenant : Tenant, version : 0..MaxVersion])
  /\ read \in 0..Len(stream) /\ acked \subseteq 1..read

Place ==
  /\ unsaid \subseteq Tenant
  /\ phase \in {"down", "boot", "channel", "stream", "ack", "read", "write"}
  /\ back \in {"down", "boot", "channel", "stream", "ack"}
  /\ boot \subseteq Tenant /\ job \in Tenant \union {NoTenant}

\* The bounded numbers.
LEMMA NumbersStep ==
  ASSUME Numbers, Carried, [SecurityNext]_securityVars
  PROVE  Numbers'
<1> USE SyncAssumption DEF Numbers, SyncFault, redis
<1>1. CASE UNCHANGED securityVars
  BY <1>1 DEF securityVars
<1>2. CASE SyncStart
  BY <1>2 DEF SyncStart
<1>3. ASSUME NEW t \in Tenant, ChangeConfig(t) PROVE Numbers'
  <2>1. config[t] + 1 \in 0..MaxVersion
    BY <1>3 DEF ChangeConfig
  <2> QED BY <1>3, <2>1 DEF ChangeConfig, locals
<1>4. ASSUME NEW t \in Tenant, Announce(t) PROVE Numbers'
  BY <1>4 DEF Announce, locals
<1>5. CASE Work
  <2>1. CASE \E t \in Tenant : InitialSync(t)
    BY <2>1 DEF InitialSync, StartJob
  <2>2. CASE ReadConfig
    <3>1. config[job] \in 0..MaxVersion
      BY <2>2 DEF ReadConfig, Carried
    <3> QED BY <2>2, <3>1 DEF ReadConfig, redis
  <2>3. CASE ReadConfigFails
    BY <2>3 DEF ReadConfigFails, redis
  <2>4. CASE WriteKeycloak
    <3>1. keycloak' \in [Tenant -> 0..MaxVersion]
      BY <2>4 DEF WriteKeycloak
    <3>2. seen' = 0 /\ UNCHANGED <<config, syncFaults, deaths>>
      BY <2>4 DEF WriteKeycloak, EndJob
    <3> QED BY <3>1, <3>2
  <2>5. CASE WriteKeycloakFails
    BY <2>5 DEF WriteKeycloakFails, EndJob, redis
  <2>6. CASE Subscribe \/ NoMessage \/ NoEntry \/ TakeMessage \/ ReadEntry
    BY <2>6 DEF Subscribe, NoMessage, NoEntry, TakeMessage, ReadEntry, StartJob, redis
  <2>7. CASE LoseEntry \/ Ack
    BY <2>7 DEF LoseEntry, Ack, redis
  <2> QED BY <1>5, <2>1, <2>2, <2>3, <2>4, <2>5, <2>6, <2>7 DEF Work, redis
<1>6. CASE SyncWorkerDies
  BY <1>6 DEF SyncWorkerDies, redis
<1> QED BY <1>1, <1>2, <1>3, <1>4, <1>5, <1>6 DEF SecurityNext, Writer

\* What the worker has read of the stream stays there.
LEMMA QueuesStep ==
  ASSUME Numbers, Queues, Place, Carried, [SecurityNext]_securityVars
  PROVE  /\ Queues'
         /\ \/ stream' = stream
            \/ \E t \in Tenant : stream' = Append(stream, [tenant |-> t, version |-> config[t]])
<1> USE DEF Queues
<1>1. CASE UNCHANGED securityVars
  BY <1>1 DEF securityVars
<1>2. CASE UNCHANGED <<channel, stream, read, acked>>
  BY <1>2
<1>3. ASSUME NEW t \in Tenant, Announce(t)
      PROVE  Queues' /\ stream' = Append(stream, [tenant |-> t, version |-> config[t]])
  <2>1. channel' \in Seq(Tenant)
    BY <1>3, Appended DEF Announce
  <2>2. [tenant |-> t, version |-> config[t]] \in [tenant : Tenant, version : 0..MaxVersion]
    BY DEF Numbers
  <2>3. stream' = Append(stream, [tenant |-> t, version |-> config[t]])
    BY <1>3 DEF Announce
  <2>4. /\ stream' \in Seq([tenant : Tenant, version : 0..MaxVersion])
        /\ Len(stream') = Len(stream) + 1
    BY <2>2, <2>3, Appended
  <2>5. read \in 0..Len(stream')
    <3>1. Len(stream) \in Nat
      BY LenProperties
    <3> QED BY <2>4, <3>1
  <2>6. read' = read /\ acked' = acked
    BY <1>3 DEF Announce, group
  <2> QED BY <2>1, <2>3, <2>4, <2>5, <2>6
<1>4. CASE TakeMessage
  <2>1. Tail(channel) \in Seq(Tenant)
    BY <1>4, HeadTailProperties DEF TakeMessage
  <2>2. channel' = Tail(channel) /\ UNCHANGED <<stream, read, acked>>
    BY <1>4 DEF TakeMessage, redis, group
  <2> QED BY <2>1, <2>2
<1>5. CASE ReadEntry \/ LoseEntry
  <2>1. Len(stream) \in Nat /\ read \in Nat /\ read < Len(stream)
    BY <1>5, LenProperties DEF ReadEntry, LoseEntry
  <2>2. read' = read + 1 /\ UNCHANGED <<channel, stream, acked>>
    BY <1>5 DEF ReadEntry, LoseEntry, redis
  <2>3. read + 1 \in 0..Len(stream)
    BY <2>1
  <2>4. 1..read \subseteq 1..(read + 1)
    BY <2>1
  <2> QED BY <2>2, <2>3, <2>4
<1>6. CASE Ack
  <2>1. read \in 1..read
    BY <1>6 DEF Ack, Carried
  <2>2. UNCHANGED <<channel, stream, read>> /\ acked' \in {acked, acked \union {read}}
    BY <1>6 DEF Ack, redis
  <2> QED BY <2>1, <2>2
<1>7. CASE channel' = <<>> /\ UNCHANGED <<stream, read, acked>>
  BY <1>7, EmptySeq
<1>8. ASSUME NEW t \in Tenant, ChangeConfig(t) \/ InitialSync(t)
      PROVE  UNCHANGED <<channel, stream, read, acked>>
  BY <1>8 DEF ChangeConfig, InitialSync, redis, group
<1>9. ASSUME SyncStart \/ ReadConfig \/ ReadConfigFails \/ NoMessage \/ NoEntry
      PROVE  UNCHANGED <<channel, stream, read, acked>>
  BY <1>9 DEF SyncStart, ReadConfig, ReadConfigFails, NoMessage, NoEntry, redis, group
<1>10. ASSUME WriteKeycloak \/ WriteKeycloakFails
       PROVE  UNCHANGED <<channel, stream, read, acked>>
  BY <1>10 DEF WriteKeycloak, WriteKeycloakFails, redis, group
<1>11. ASSUME Subscribe \/ SyncWorkerDies
       PROVE  channel' = <<>> /\ UNCHANGED <<stream, read, acked>>
  BY <1>11 DEF Subscribe, SyncWorkerDies, redis, group
<1> QED BY <1>1, <1>2, <1>3, <1>4, <1>5, <1>6, <1>7, <1>8, <1>9, <1>10, <1>11
        DEF SecurityNext, Work, Writer

\* The worker's loop goes from place to place.
LEMMA PlaceStep ==
  ASSUME Queues, Place, [SecurityNext]_securityVars
  PROVE  Place'
<1> USE DEF Place
<1>1. CASE UNCHANGED securityVars
  BY <1>1 DEF securityVars
<1>2. CASE SyncStart \/ SyncWorkerDies
  BY <1>2 DEF SyncStart, SyncWorkerDies, redis
<1>3. ASSUME NEW t \in Tenant, ChangeConfig(t) \/ Announce(t) PROVE Place'
  BY <1>3 DEF ChangeConfig, Announce, locals
<1>4. CASE Work
  <2>1. ASSUME NEW t \in Tenant, InitialSync(t) PROVE Place'
    BY <2>1 DEF InitialSync, StartJob, redis
  <2>2. CASE ReadConfig \/ ReadConfigFails \/ Subscribe
    BY <2>2 DEF ReadConfig, ReadConfigFails, Subscribe, redis
  <2>3. CASE WriteKeycloak \/ WriteKeycloakFails
    BY <2>3 DEF WriteKeycloak, WriteKeycloakFails, EndJob, redis
  <2>4. CASE TakeMessage
    <3>1. Head(channel) \in Tenant
      BY <2>4, HeadTailProperties DEF TakeMessage, Queues
    <3> QED BY <2>4, <3>1 DEF TakeMessage, StartJob, redis
  <2>5. CASE ReadEntry
    <3>1. Len(stream) \in Nat /\ read + 1 \in 1..Len(stream)
      BY <2>5, LenProperties DEF ReadEntry, Queues
    <3>2. stream[read + 1] \in [tenant : Tenant, version : 0..MaxVersion]
      BY <3>1, ElementOfSeq DEF Queues
    <3>3. stream[read + 1].tenant \in Tenant
      BY <3>2
    <3> QED BY <2>5, <3>3 DEF ReadEntry, StartJob, redis
  <2>6. CASE NoMessage \/ NoEntry \/ LoseEntry \/ Ack
    BY <2>6 DEF NoMessage, NoEntry, LoseEntry, Ack, redis
  <2> QED BY <1>4, <2>1, <2>2, <2>3, <2>4, <2>5, <2>6 DEF Work
<1> QED BY <1>1, <1>2, <1>3, <1>4 DEF SecurityNext, Writer

\* What the worker holds, and what it has acknowledged.
LEMMA CarriedStep ==
  ASSUME SyncInv, SecurityTypeOK', [SecurityNext]_securityVars
  PROVE  Carried' /\ AckedIsApplied'
<1>n. /\ \A t \in Tenant : config[t] \in Nat /\ keycloak[t] \in Nat
      /\ seen \in Nat /\ syncFaults \in Nat /\ read \in Nat /\ Len(stream) \in Nat
      /\ read <= Len(stream) /\ acked \subseteq 1..read
  <2>1. Numbers /\ Queues
    BY DEF SyncInv, SecurityTypeOK, Numbers, Queues
  <2>2. /\ \A t \in Tenant : config[t] \in Nat /\ keycloak[t] \in Nat
        /\ seen \in Nat /\ syncFaults \in Nat
    BY <2>1, SyncAssumption DEF Numbers
  <2>3. Len(stream) \in Nat
    BY <2>1, LenProperties DEF Queues
  <2> QED BY <2>1, <2>2, <2>3 DEF Queues
<1>e. \A i \in 1..Len(stream) : stream[i].tenant \in Tenant /\ stream[i].version \in Nat
  <2>1. \A i \in 1..Len(stream) : stream[i] \in [tenant : Tenant, version : 0..MaxVersion]
    BY ElementOfSeq DEF SyncInv, SecurityTypeOK
  <2> QED BY <2>1, SyncAssumption
<1>j. job \in Tenant \union {NoTenant} /\ phase \in {"down", "boot", "channel", "stream", "ack", "read", "write"}
  BY DEF SyncInv, SecurityTypeOK
<1>b. back \notin {"read", "write"}
  BY DEF SyncInv, SecurityTypeOK
<1>a. \A i \in acked : i \in 1..Len(stream)
  BY <1>n
<1>t. read > 0 => Taken.tenant \in Tenant /\ Taken.version \in Nat /\ Taken.version <= config[Taken.tenant]
  <2>1. read > 0 => read \in 1..Len(stream)
    BY <1>n
  <2> QED BY <1>e, <2>1 DEF Taken, SyncInv, Carried
<1> USE DEF SyncInv, Carried, AckedIsApplied
<1>1. CASE UNCHANGED securityVars
  BY <1>1 DEF securityVars, Taken
<1>2. CASE SyncStart \/ SyncWorkerDies \/ Subscribe
  <2>1. phase' \notin {"read", "write", "ack"}
    BY <1>2 DEF SyncStart, SyncWorkerDies, Subscribe
  <2>2. UNCHANGED <<config, stream, read, acked, keycloak>>
    BY <1>2 DEF SyncStart, SyncWorkerDies, Subscribe, redis, group
  <2>3. syncFaults' = 0 => syncFaults = 0
    BY <1>n, <1>2 DEF SyncStart, SyncWorkerDies, Subscribe, SyncFault
  <2> QED BY <2>1, <2>2, <2>3
<1>3. ASSUME NEW t \in Tenant, ChangeConfig(t) PROVE Carried' /\ AckedIsApplied'
  <2>1. \A u \in Tenant : config'[u] \in Nat /\ config[u] <= config'[u]
    <3>1. config' = [config EXCEPT ![t] = config[t] + 1] /\ config \in [Tenant -> 0..MaxVersion]
      BY <1>3 DEF ChangeConfig, SecurityTypeOK
    <3>2. \A u \in Tenant : config'[u] = IF u = t THEN config[u] + 1 ELSE config[u]
      BY <3>1
    <3> QED BY <1>n, <3>2
  <2>2. UNCHANGED <<stream, read, acked, keycloak, phase, job, seen, back, syncFaults>>
    BY <1>3 DEF ChangeConfig, group, locals
  <2>3. \A i \in 1..Len(stream) : stream[i].version <= config'[stream[i].tenant]
    BY <1>e, <1>n, <2>1
  <2>4. \A u \in Tenant : keycloak[u] <= config'[u]
    BY <1>n, <2>1
  <2>5. phase = "write" => seen <= config'[job]
    BY <1>n, <2>1
  <2> QED BY <2>2, <2>3, <2>4, <2>5 DEF Taken
<1>4. ASSUME NEW t \in Tenant, Announce(t) PROVE Carried' /\ AckedIsApplied'
  <2>1. stream' = Append(stream, [tenant |-> t, version |-> config[t]])
    BY <1>4 DEF Announce
  <2>2. stream \in Seq([tenant : Tenant, version : 0..MaxVersion])
        /\ [tenant |-> t, version |-> config[t]] \in [tenant : Tenant, version : 0..MaxVersion]
    BY DEF SecurityTypeOK
  <2>3. /\ Len(stream') = Len(stream) + 1
        /\ stream'[Len(stream) + 1] = [tenant |-> t, version |-> config[t]]
        /\ \A i \in 1..Len(stream) : stream'[i] = stream[i]
    BY <2>1, <2>2, Appended
  <2>4. UNCHANGED <<config, read, acked, keycloak, phase, job, seen, back, syncFaults>>
    BY <1>4 DEF Announce, group, locals
  <2>5. ASSUME NEW i \in 1..Len(stream') PROVE stream'[i].version <= config[stream'[i].tenant]
    <3>1. CASE i = Len(stream) + 1
      BY <1>n, <2>3, <3>1
    <3>2. CASE i # Len(stream) + 1
      <4>1. i \in 1..Len(stream)
        BY <1>n, <2>3, <3>2
      <4> QED BY <2>3, <4>1
    <3> QED BY <3>1, <3>2
  <2>6. read > 0 => Taken' = Taken
    <3>1. read > 0 => read \in 1..Len(stream)
      BY <1>n
    <3> QED BY <2>3, <2>4, <3>1 DEF Taken
  <2>7. \A i \in acked : stream'[i] = stream[i]
    BY <1>a, <2>3
  <2> QED BY <2>4, <2>5, <2>6, <2>7
<1>5. CASE Work
  <2> USE DEF redis, group
  <2>1. ASSUME NEW t \in Tenant, InitialSync(t) PROVE Carried' /\ AckedIsApplied'
    BY <2>1 DEF InitialSync, StartJob, Taken
  <2>2. CASE ReadConfig
    <3>1. job \in Tenant /\ keycloak[job] <= config[job] /\ config[job] \in Nat
      BY <1>n, <2>2 DEF ReadConfig
    <3>2. back = "ack" => Taken.version <= config[job]
      BY <1>t, <2>2 DEF ReadConfig
    <3>3. seen' = config[job] /\ phase = "read" /\ phase' = "write"
          /\ UNCHANGED <<config, stream, read, acked, keycloak, job, back, syncFaults>>
      BY <2>2 DEF ReadConfig
    <3> QED BY <3>1, <3>2, <3>3 DEF Taken
  <2>3. CASE ReadConfigFails
    <3>1. syncFaults' # 0 /\ phase' \notin {"read", "write", "ack"}
      BY <1>n, <2>3 DEF ReadConfigFails, SyncFault, SecurityTypeOK
    <3> QED BY <2>3, <3>1 DEF ReadConfigFails
  <2>4. CASE WriteKeycloak
    <3>1. phase = "write" /\ job \in Tenant /\ keycloak[job] <= seen /\ seen <= config[job]
      BY <2>4 DEF WriteKeycloak
    <3>2. keycloak' = [keycloak EXCEPT ![job] = seen] /\ phase' = back /\ back' = back
          /\ UNCHANGED <<config, stream, read, acked, syncFaults>>
      BY <2>4 DEF WriteKeycloak, EndJob
    <3>3. \A u \in Tenant : keycloak'[u] = IF u = job THEN seen ELSE keycloak[u]
      BY <3>2 DEF SecurityTypeOK
    <3>4. \A u \in Tenant : keycloak[u] <= keycloak'[u] /\ keycloak'[u] <= config[u]
                            /\ keycloak'[u] \in Nat
      BY <1>n, <3>1, <3>3
    <3>5. phase' \notin {"read", "write"}
      BY <1>b, <3>2, Zenon
    <3>6. back = "ack" => Taken.version <= keycloak'[Taken.tenant]
      BY <3>1, <3>3
    <3>7. AckedIsApplied'
      <4>1. ASSUME NEW i \in acked, syncFaults = 0
            PROVE  stream[i].version <= keycloak'[stream[i].tenant]
        <5>1. stream[i].tenant \in Tenant /\ stream[i].version \in Nat
          BY <1>a, <1>e
        <5>2. stream[i].version <= keycloak[stream[i].tenant]
          BY <4>1
        <5> QED BY <1>n, <3>4, <5>1, <5>2
      <4> QED BY <3>2, <4>1
    <3> QED BY <3>1, <3>2, <3>4, <3>5, <3>6, <3>7 DEF Taken
  <2>5. CASE WriteKeycloakFails
    <3>1. syncFaults' # 0 /\ phase' = back /\ phase' \notin {"read", "write"}
      BY <1>b, <1>n, <2>5 DEF WriteKeycloakFails, EndJob, SyncFault
    <3> QED BY <2>5, <3>1 DEF WriteKeycloakFails, EndJob
  <2>6. CASE TakeMessage
    <3>1. Head(channel) \in Tenant
      BY <2>6, HeadTailProperties DEF TakeMessage, SecurityTypeOK
    <3> QED BY <2>6, <3>1 DEF TakeMessage, StartJob
  <2>7. CASE NoMessage \/ NoEntry
    BY <2>7 DEF NoMessage, NoEntry
  <2>8. CASE ReadEntry
    <3>1. /\ read' = read + 1 /\ read + 1 \in 1..Len(stream) /\ phase' = "read"
          /\ job' = stream[read + 1].tenant /\ back' = "ack"
          /\ UNCHANGED <<config, stream, acked, keycloak, syncFaults>>
      BY <1>n, <2>8 DEF ReadEntry, StartJob
    <3>2. job' \in Tenant /\ job' = Taken'.tenant /\ read' > 0
      BY <1>n, <1>e, <3>1 DEF Taken
    <3> QED BY <3>1, <3>2
  <2>9. CASE LoseEntry
    <3>1. syncFaults' # 0 /\ phase' = "channel"
      BY <1>n, <2>9 DEF LoseEntry, SyncFault
    <3> QED BY <2>9, <3>1 DEF LoseEntry
  <2>10. CASE Ack
    <3>1. phase = "ack" /\ phase' = "channel"
          /\ UNCHANGED <<config, stream, read, keycloak, job, seen, back>>
      BY <2>10 DEF Ack
    <3>2. CASE acked' = acked \union {read} /\ syncFaults' = syncFaults
      BY <3>1, <3>2 DEF Taken
    <3>3. CASE syncFaults' # 0 /\ acked' = acked
      BY <3>1, <3>3
    <3> QED BY <1>n, <2>10, <3>2, <3>3 DEF Ack, SyncFault
  <2> QED BY <1>5, <1>2, <2>1, <2>2, <2>3, <2>4, <2>5, <2>6, <2>7, <2>8, <2>9, <2>10 DEF Work
<1> QED BY <1>1, <1>2, <1>3, <1>4, <1>5 DEF SecurityNext, Writer

\* The invariant of the settings' way.
LEMMA SyncHolds == SecuritySpec => []SyncInv
<1>1. SecurityInit => SyncInv
  <2> SUFFICES ASSUME SecurityInit PROVE SyncInv
    OBVIOUS
  <2>1. SecurityTypeOK
    BY SyncAssumption, EmptySeq DEF SecurityInit, SecurityTypeOK
  <2>2. Carried /\ AckedIsApplied
    BY DEF SecurityInit, Carried, AckedIsApplied
  <2> QED BY <2>1, <2>2 DEF SyncInv
<1>2. SyncInv /\ [SecurityNext]_securityVars => SyncInv'
  <2> SUFFICES ASSUME SyncInv, [SecurityNext]_securityVars PROVE SyncInv'
    OBVIOUS
  <2>0. Numbers /\ Queues /\ Place /\ Carried
    BY DEF SyncInv, SecurityTypeOK, Numbers, Queues, Place
  <2>a. Numbers' /\ Queues' /\ Place'
    BY <2>0, NumbersStep, QueuesStep, PlaceStep
  <2>1. SecurityTypeOK'
    BY <2>a DEF SecurityTypeOK, Numbers, Queues, Place
  <2> QED BY <2>1, CarriedStep DEF SyncInv
<1> QED BY <1>1, <1>2, PTL DEF SecuritySpec

\* Every reachable state of the settings' way to Keycloak is well typed.
THEOREM SecurityTypeCorrect == SecuritySpec => []SecurityTypeOK
<1>1. SyncInv => SecurityTypeOK
  BY DEF SyncInv
<1> QED BY <1>1, SyncHolds, PTL

\* What the worker acknowledged is in Keycloak, it or something newer, as long as
\* no call has failed, for any number of tenants, changes and deaths.
THEOREM AckedApplied == SecuritySpec => []AckedIsApplied
<1>1. SyncInv => AckedIsApplied
  BY DEF SyncInv
<1> QED BY <1>1, SyncHolds, PTL

\* What will still bring tenant t up to date: an announcement to come, the worker's
\* next start, its initial synchronisation, an entry it has not read, or its job.
Unread(t) == \E i \in 1..Len(stream) : i > read /\ stream[i].tenant = t
InJob(t)  == job = t /\ (phase = "read" \/ (phase = "write" /\ seen = config[t]))
Owed(t)   == t \in unsaid \/ phase = "down" \/ t \in boot \/ Unread(t) \/ InJob(t)

Booting  == phase = "boot" \/ (phase \in {"read", "write"} /\ back = "boot")

\* Every tenant is up to date or owed, and the initial synchronisation is over when
\* the loop begins.
OwedInv ==
  /\ boot # {} => Booting
  /\ syncFaults = 0 => \A t \in Tenant : keycloak[t] = config[t] \/ Owed(t)

\* A job that is written leaves nothing owed to its tenant, and nothing else
\* that is owed is given up.
LEMMA OwedStep ==
  ASSUME SecurityTypeOK, Carried, OwedInv, [SecurityNext]_securityVars
  PROVE  OwedInv'
<1>n. /\ read \in Nat /\ Len(stream) \in Nat /\ syncFaults \in Nat
      /\ config \in [Tenant -> 0..MaxVersion] /\ keycloak \in [Tenant -> 0..MaxVersion]
  <2>1. Numbers /\ Queues
    BY DEF SecurityTypeOK, Numbers, Queues
  <2>2. Len(stream) \in Nat
    BY <2>1, LenProperties DEF Queues
  <2> QED BY <2>1, <2>2, SyncAssumption DEF Numbers, Queues
<1>b. back \in {"down", "boot", "channel", "stream", "ack"}
  BY DEF SecurityTypeOK
<1> DEFINE Waits(t) == keycloak[t] = config[t] \/ Owed(t)
<1> DEFINE Kept ==
      /\ boot' # {} => Booting'
      /\ syncFaults' = 0 => \A t \in Tenant : Waits(t)'
<1> SUFFICES Kept
  BY DEF OwedInv
<1>z. syncFaults' = 0 => syncFaults = 0
  <2>1. SyncFault => syncFaults' # 0
    BY <1>n DEF SyncFault
  <2> QED BY <2>1 DEF SecurityNext, SyncStart, Work, Writer, SyncWorkerDies, Subscribe,
            InitialSync, ReadConfig, ReadConfigFails, WriteKeycloak, WriteKeycloakFails,
            TakeMessage, NoMessage, ReadEntry, LoseEntry, NoEntry, Ack, ChangeConfig,
            Announce, securityVars
<1>w. syncFaults' = 0 => \A t \in Tenant : Waits(t)
  BY <1>z DEF OwedInv
<1>c. boot # {} => Booting
  BY DEF OwedInv
<1> HIDE DEF Waits
<1>1. CASE UNCHANGED securityVars
  BY <1>1, <1>c, <1>w DEF securityVars, Booting, Waits, Owed, Unread, InJob
<1>2. CASE SyncStart
  <2>1. boot' = Tenant \/ syncFaults' # 0
    BY <1>2, <1>n DEF SyncStart, SyncFault
  <2>2. phase' = "boot"
    BY <1>2 DEF SyncStart
  <2> QED BY <2>1, <2>2 DEF Booting, Waits, Owed
<1>3. CASE SyncWorkerDies
  BY <1>3 DEF SyncWorkerDies, Waits, Owed, Booting
<1>4. ASSUME NEW u \in Tenant, ChangeConfig(u)
      PROVE  Kept
  <2>1. /\ unsaid' = unsaid \union {u}
        /\ UNCHANGED <<stream, read, keycloak, phase, boot, job, seen, back, syncFaults>>
    BY <1>4 DEF ChangeConfig, group, locals
  <2>2. \A t \in Tenant : t # u => config'[t] = config[t]
    BY <1>4, <1>n DEF ChangeConfig
  <2> QED BY <1>c, <1>w, <2>1, <2>2 DEF Booting, Waits, Owed, Unread, InJob
<1>5. ASSUME NEW u \in Tenant, Announce(u)
      PROVE  Kept
  <2>1. /\ unsaid' = unsaid \ {u}
        /\ stream' = Append(stream, [tenant |-> u, version |-> config[u]])
        /\ UNCHANGED <<config, read, keycloak, phase, boot, job, seen, back, syncFaults>>
    BY <1>5 DEF Announce, group, locals
  <2>2. /\ Len(stream') = Len(stream) + 1
        /\ stream'[Len(stream) + 1].tenant = u
        /\ \A i \in 1..Len(stream) : stream'[i] = stream[i]
    <3>1. stream \in Seq([tenant : Tenant, version : 0..MaxVersion])
          /\ [tenant |-> u, version |-> config[u]] \in [tenant : Tenant, version : 0..MaxVersion]
      BY <1>n DEF SecurityTypeOK
    <3> QED BY <2>1, <3>1, Appended
  <2>3. read <= Len(stream)
    BY DEF SecurityTypeOK
  <2>4. Unread(u)'
    BY <1>n, <2>1, <2>2, <2>3 DEF Unread
  <2>5. \A t : Unread(t) => Unread(t)'
    BY <1>n, <2>1, <2>2 DEF Unread
  <2> QED BY <1>c, <1>w, <2>1, <2>4, <2>5 DEF Booting, Waits, Owed, InJob
<1>6. CASE Work
  <2>1. UNCHANGED <<config, unsaid, stream>>
    BY <1>6 DEF Work, Subscribe, InitialSync, ReadConfig, ReadConfigFails, WriteKeycloak,
           WriteKeycloakFails, TakeMessage, NoMessage, ReadEntry, LoseEntry, NoEntry, Ack,
           redis
  <2>2. CASE Subscribe \/ TakeMessage \/ NoMessage \/ NoEntry \/ Ack
    <3>1. phase \in {"boot", "channel", "stream", "ack"} /\ phase' # "boot"
          /\ (phase = "boot" => boot = {})
      BY <2>2 DEF Subscribe, TakeMessage, NoMessage, NoEntry, Ack, StartJob
    <3>2. UNCHANGED <<read, keycloak, boot>>
      BY <2>2 DEF Subscribe, TakeMessage, NoMessage, NoEntry, Ack, group
    <3> QED BY <1>c, <1>w, <2>1, <3>1, <3>2 DEF Booting, Waits, Owed, Unread, InJob
  <2>3. ASSUME NEW u \in Tenant, InitialSync(u)
        PROVE  Kept
    <3>1. phase = "boot" /\ boot' = boot \ {u} /\ phase' = "read" /\ job' = u
          /\ back' = "boot" /\ UNCHANGED <<read, keycloak>>
      BY <2>3 DEF InitialSync, StartJob, group
    <3> QED BY <1>w, <2>1, <3>1 DEF Booting, Waits, Owed, Unread, InJob
  <2>4. CASE ReadConfig
    <3>1. phase = "read" /\ phase' = "write" /\ seen' = config[job]
          /\ UNCHANGED <<read, keycloak, boot, job, back>>
      BY <2>4 DEF ReadConfig, group
    <3> QED BY <1>c, <1>w, <2>1, <3>1 DEF Booting, Waits, Owed, Unread, InJob
  <2>5. CASE ReadConfigFails \/ LoseEntry
    <3>1. syncFaults' # 0
      BY <1>n, <2>5 DEF ReadConfigFails, LoseEntry, SyncFault
    <3>2. boot' = {} \/ (boot' = boot /\ ~Booting)
      BY <2>5 DEF ReadConfigFails, LoseEntry, Booting
    <3> QED BY <1>c, <3>1, <3>2
  <2>6. CASE WriteKeycloak
    <3>1. phase = "write" /\ phase' = back /\ keycloak' = [keycloak EXCEPT ![job] = seen]
          /\ UNCHANGED <<read, boot, back>>
      BY <2>6 DEF WriteKeycloak, EndJob, group
    <3>2. \A t \in Tenant : keycloak'[t] = IF t = job THEN seen ELSE keycloak[t]
      BY <1>n, <3>1
    <3>3. ASSUME syncFaults' = 0, NEW t \in Tenant PROVE Waits(t)'
      <4>1. Waits(t)
        BY <1>w, <3>3
      <4>2. CASE InJob(t)
        BY <2>1, <3>1, <3>2, <4>2 DEF InJob, Waits
      <4>3. CASE t \in unsaid \/ phase = "down" \/ t \in boot \/ Unread(t)
        BY <2>1, <3>1, <4>3 DEF Waits, Owed, Unread
      <4>4. CASE keycloak[t] = config[t] /\ t # job
        BY <2>1, <3>2, <4>4 DEF Waits
      <4>5. CASE keycloak[t] = config[t] /\ t = job /\ ~InJob(t)
        <5>1. keycloak[t] <= seen /\ seen <= config[t] /\ seen \in Nat /\ config[t] \in Nat
          BY <1>n, <3>1, <4>5 DEF Carried, SecurityTypeOK
        <5> QED BY <4>5, <5>1, <3>1 DEF InJob
      <4> QED BY <4>1, <4>2, <4>3, <4>4, <4>5 DEF Waits, Owed
    <3>4. (boot # {} => Booting)'
      BY <1>b, <1>c, <3>1 DEF Booting
    <3> QED BY <3>3, <3>4
  <2>7. CASE WriteKeycloakFails
    <3>1. syncFaults' # 0 /\ phase = "write" /\ phase' = back /\ UNCHANGED <<boot, back>>
      BY <1>n, <2>7 DEF WriteKeycloakFails, EndJob, SyncFault
    <3> QED BY <1>b, <1>c, <3>1 DEF Booting
  <2>8. CASE ReadEntry
    <3>1. read' = read + 1 /\ phase = "stream" /\ phase' = "read"
          /\ job' = stream[read + 1].tenant /\ UNCHANGED <<keycloak, boot>>
      BY <2>8 DEF ReadEntry, StartJob
    <3>2. \A t : Unread(t) => Unread(t)' \/ job' = t
      BY <1>n, <2>1, <3>1 DEF Unread
    <3> QED BY <1>c, <1>w, <2>1, <3>1, <3>2 DEF Booting, Waits, Owed, InJob
  <2> QED BY <1>6, <2>2, <2>3, <2>4, <2>5, <2>6, <2>7, <2>8 DEF Work
<1> QED BY <1>1, <1>2, <1>3, <1>4, <1>5, <1>6 DEF SecurityNext, Writer

\* Until a call fails, a worker at rest leaves nothing announced out of Keycloak.
THEOREM CatchesUp == SecuritySpec => []CaughtUp
<1>1. SecurityInit => OwedInv
  BY DEF SecurityInit, OwedInv
<1>2. SyncInv /\ OwedInv /\ [SecurityNext]_securityVars => OwedInv'
  BY OwedStep DEF SyncInv
<1>3. SyncInv /\ OwedInv => CaughtUp
  <2> SUFFICES ASSUME SyncInv, OwedInv, syncFaults = 0, AtRest, NEW t \in Tenant, t \notin unsaid
               PROVE  keycloak[t] = config[t]
    BY DEF CaughtUp
  <2>1. boot = {} /\ phase \notin {"down", "read", "write"}
    BY DEF OwedInv, AtRest, Booting
  <2>2. ~Unread(t)
    <3>1. Len(stream) \in Nat
      BY LenProperties DEF SyncInv, SecurityTypeOK
    <3> QED BY <3>1 DEF AtRest, Unread
  <2> QED BY <2>1, <2>2 DEF OwedInv, Owed, InJob
<1> QED BY <1>1, <1>2, <1>3, SyncHolds, PTL DEF SecuritySpec

\* Keycloak follows the settings in their order, whatever fails and dies.
THEOREM FollowsInOrder == SecuritySpec => KeycloakFollows
<1>1. SecurityInit => Copy!Init
  BY DEF SecurityInit, Copy!Init
<1>2. SyncInv /\ [SecurityNext]_securityVars => [Copy!Next]_(Copy!replica)
  <2> SUFFICES ASSUME SyncInv, [SecurityNext]_securityVars
               PROVE  Copy!Next \/ UNCHANGED <<config, keycloak>>
    BY DEF Copy!replica
  <2>1. CASE UNCHANGED securityVars
    BY <2>1 DEF securityVars
  <2>2. ASSUME NEW t \in Tenant, ChangeConfig(t) PROVE Copy!Next
    <3>1. Copy!Change(t)
      BY <2>2 DEF ChangeConfig, Copy!Change
    <3> QED BY <3>1 DEF Copy!Next
  <2>3. CASE WriteKeycloak
    <3>1. job \in Tenant /\ keycloak[job] <= seen /\ seen <= config[job]
      BY <2>3 DEF WriteKeycloak, SyncInv, Carried
    <3>2. seen \in keycloak[job]..config[job]
      BY <3>1, SyncAssumption DEF SyncInv, SecurityTypeOK
    <3>3. keycloak' = [keycloak EXCEPT ![job] = seen] /\ UNCHANGED config
      BY <2>3 DEF WriteKeycloak, redis
    <3>4. Copy!Catch(job)
      BY <3>2, <3>3 DEF Copy!Catch
    <3> QED BY <3>1, <3>4 DEF Copy!Next
  <2>4. CASE \/ SyncStart \/ SyncWorkerDies \/ \E t \in Tenant : Announce(t)
             \/ Subscribe \/ \E t \in Tenant : InitialSync(t)
             \/ ReadConfig \/ ReadConfigFails \/ WriteKeycloakFails
             \/ TakeMessage \/ NoMessage \/ ReadEntry \/ LoseEntry \/ NoEntry \/ Ack
    BY <2>4 DEF SyncStart, SyncWorkerDies, Announce, Subscribe, InitialSync, ReadConfig,
           ReadConfigFails, WriteKeycloakFails, TakeMessage, NoMessage, ReadEntry, LoseEntry,
           NoEntry, Ack, redis
  <2> QED BY <2>1, <2>2, <2>3, <2>4 DEF SecurityNext, Work, Writer
<1> QED BY <1>1, <1>2, SyncHolds, PTL DEF SecuritySpec, KeycloakFollows, Copy!Spec

-----------------------------------------------------------------------------
(* Revocations.                                                            *)

\* Where every record up to the consumer's position is.
Accounted ==
  /\ committed <= position
  /\ polling \in {"down", "poll"} => batch = <<>>
  /\ polling = "record" => batch # <<>>
  /\ trouble = "none" => 1..position \subseteq handled \union Pending

KafkaInv == RevocationTypeOK /\ Accounted /\ RevokedStaysBlocked

\* The records in the worker's hands are the first and the others.
LEMMA HeadAndRest ==
  ASSUME NEW S, NEW s \in Seq(S), s # <<>>
  PROVE  {s[i] : i \in 1..Len(s)} = {Head(s)} \union {Tail(s)[i] : i \in 1..Len(Tail(s))}
<1>1. /\ Len(s) \in Nat /\ Len(s) > 0 /\ Len(Tail(s)) = Len(s) - 1
      /\ Head(s) = s[1] /\ \A i \in 1..Len(Tail(s)) : Tail(s)[i] = s[i + 1]
  BY HeadTailProperties, LenProperties, EmptySeq
<1>2. ASSUME NEW i \in 1..Len(s)
      PROVE  s[i] \in {Head(s)} \union {Tail(s)[k] : k \in 1..Len(Tail(s))}
  <2>1. CASE i = 1
    BY <1>1, <2>1
  <2>2. CASE i # 1
    <3>1. i - 1 \in 1..Len(Tail(s)) /\ (i - 1) + 1 = i
      BY <1>1, <2>2
    <3>2. Tail(s)[i - 1] = s[i]
      BY <1>1, <3>1
    <3> QED BY <3>1, <3>2
  <2> QED BY <2>1, <2>2
<1>3. ASSUME NEW i \in 1..Len(Tail(s)) PROVE Tail(s)[i] \in {s[k] : k \in 1..Len(s)}
  <2>1. i + 1 \in 1..Len(s)
    BY <1>1
  <2> QED BY <1>1, <2>1
<1>4. Head(s) \in {s[k] : k \in 1..Len(s)}
  BY <1>1
<1> QED BY <1>2, <1>3, <1>4

\* An entry's life falls short of its token's by less than a second.
LEMMA TtlShort ==
  ASSUME NEW n \in Nat
  PROVE  /\ n - (n % Second) \in 0..n /\ n - (n % Second) + Second > n
         /\ n >= Second => n - (n % Second) > 0
<1>1. Second \in Nat \ {0}
  BY RevocationAssumption
<1>2. n % Second \in 0..(Second - 1)
  BY <1>1
<1>3. n = Second * (n \div Second) + (n % Second) /\ n \div Second \in Nat
  BY <1>1
<1>4. Second * (n \div Second) \in Nat
  BY <1>1, <1>3
<1> QED BY <1>1, <1>2, <1>3, <1>4

\* Handling a revocation, first or again, keeps every handled token out.
LEMMA HandleBlocks ==
  ASSUME RevocationTypeOK, RevokedStaysBlocked, NEW t \in Token, Handle(t)
  PROVE  /\ blocked' \in [Token -> 0..TokenLife]
         /\ life[t] >= Second => blocked'[t] + Second > life[t]
         /\ \A i \in handled : life[topic[i]] >= Second => blocked'[topic[i]] + Second > life[topic[i]]
<1>1. life[t] \in Nat /\ life[t] \in 0..TokenLife /\ TokenLife \in Nat /\ Second \in Nat \ {0}
      /\ blocked \in [Token -> 0..TokenLife]
  BY RevocationAssumption DEF RevocationTypeOK
<1>2. Ttl(t) \in 0..TokenLife /\ Ttl(t) + Second > life[t] /\ (life[t] >= Second => Ttl(t) > 0)
  <2>1. /\ Ttl(t) \in 0..life[t] /\ Ttl(t) + Second > life[t]
        /\ life[t] >= Second => Ttl(t) > 0
    BY <1>1, TtlShort DEF Ttl
  <2> QED BY <1>1, <2>1
<1>3. /\ blocked'[t] = IF Ttl(t) > 0 THEN Ttl(t) ELSE blocked[t]
      /\ \A u \in Token \ {t} : blocked'[u] = blocked[u]
      /\ blocked' \in [Token -> 0..TokenLife]
  BY <1>1, <1>2 DEF Handle
<1>4. life[t] >= Second => blocked'[t] + Second > life[t]
  BY <1>2, <1>3
<1>5. \A i \in handled : topic[i] \in Token
  BY ElementOfSeq DEF RevocationTypeOK
<1>6. ASSUME NEW i \in handled, life[topic[i]] >= Second
      PROVE  blocked'[topic[i]] + Second > life[topic[i]]
  <2>1. CASE topic[i] = t
    BY <1>4, <1>6, <2>1
  <2>2. CASE topic[i] # t
    BY <1>3, <1>5, <1>6, <2>2 DEF RevokedStaysBlocked
  <2> QED BY <2>1, <2>2
<1> QED BY <1>3, <1>4, <1>6

\* Records move from the topic through the worker's hands into the blacklist.
LEMMA KafkaStep ==
  ASSUME KafkaInv, [RevocationNext]_revocationVars
  PROVE  KafkaInv'
<1>n. /\ Len(topic) \in Nat /\ committed \in Nat /\ position \in Nat
      /\ committed <= Len(topic) /\ position <= Len(topic)
      /\ kafkaFaults \in Nat /\ crashes \in Nat
      /\ MaxKafkaFaults \in Nat /\ MaxCrashes \in Nat /\ TokenLife \in Nat /\ Second \in Nat \ {0}
  BY RevocationAssumption, LenProperties DEF KafkaInv, RevocationTypeOK
<1>h. \A i \in handled : topic[i] \in Token
  BY ElementOfSeq DEF KafkaInv, RevocationTypeOK
<1> USE DEF KafkaInv, Accounted
<1>1. CASE UNCHANGED revocationVars
  BY <1>1 DEF revocationVars, RevocationTypeOK, RevokedStaysBlocked, Pending
<1>2. CASE Start
  <2>1. RevocationTypeOK' /\ RevokedStaysBlocked'
    BY <1>2 DEF Start, RevocationTypeOK, RevokedStaysBlocked
  <2>2. 1..committed \subseteq 1..position
    BY <1>n
  <2>3. Accounted'
    <3>1. /\ polling = "down" /\ polling' = "poll" /\ position' = committed
          /\ UNCHANGED <<committed, batch, handled, trouble>>
      BY <1>2 DEF Start
    <3>2. trouble = "none" => 1..committed \subseteq handled \union Pending
      BY <2>2
    <3>3. Pending' = Pending
      BY <3>1 DEF Pending
    <3>4. committed <= committed
      BY <1>n
    <3> QED BY <3>1, <3>2, <3>3, <3>4
  <2> QED BY <2>1, <2>3
<1>3. CASE Poll
  <2>1. DOMAIN batch' = 1..(Len(topic) - position) /\ Len(topic) - position \in Nat
        /\ \A i \in 1..(Len(topic) - position) : batch'[i] = position + i
    BY <1>n, <1>3 DEF Poll
  <2>2. batch' \in Seq(1..Len(topic)) /\ Len(batch') = Len(topic) - position
    BY <1>n, <1>3, <2>1 DEF Poll
  <2>3. batch' # <<>>
    <3>1. Len(topic) - position # 0
      BY <1>n, <1>3 DEF Poll
    <3>2. Len(<<>>) = 0
      BY EmptySeq
    <3> QED BY <2>2, <3>1, <3>2
  <2>4. Pending = {}
    BY <1>3, EmptySeq DEF Poll, Pending
  <2>5. Pending' = (position + 1)..Len(topic)
    <3>1. ASSUME NEW k \in (position + 1)..Len(topic) PROVE k \in Pending'
      <4>1. k - position \in 1..(Len(topic) - position) /\ position + (k - position) = k
        BY <1>n
      <4> QED BY <2>1, <2>2, <4>1 DEF Pending
    <3>2. ASSUME NEW k \in Pending' PROVE k \in (position + 1)..Len(topic)
      <4>1. PICK i \in 1..(Len(topic) - position) : k = position + i
        BY <2>1, <2>2, <3>2 DEF Pending
      <4> QED BY <1>n, <4>1
    <3> QED BY <3>1, <3>2
  <2>6. \A k \in 1..Len(topic) : k \in 1..position \/ k \in (position + 1)..Len(topic)
    BY <1>n
  <2>7. Accounted'
    BY <1>n, <1>3, <2>3, <2>4, <2>5, <2>6 DEF Poll
  <2>8. RevocationTypeOK' /\ RevokedStaysBlocked'
    BY <1>n, <1>3, <2>2 DEF Poll, RevocationTypeOK, RevokedStaysBlocked
  <2> QED BY <2>7, <2>8
<1>4. CASE HandleRecord
  <2>1. batch # <<>> /\ batch \in Seq(1..Len(topic))
    BY <1>4 DEF HandleRecord, RevocationTypeOK
  <2>2. Head(batch) \in 1..Len(topic) /\ Tail(batch) \in Seq(1..Len(topic))
    BY <2>1, HeadTailProperties
  <2>3. topic[Head(batch)] \in Token
    BY <2>2, ElementOfSeq DEF RevocationTypeOK
  <2>4. Handle(topic[Head(batch)]) /\ handled' = handled \union {Head(batch)}
        /\ batch' = Tail(batch) /\ polling' = "commit"
        /\ UNCHANGED <<life, topic, committed, position, trouble, kafkaFaults, crashes>>
    BY <1>4 DEF HandleRecord
  <2>5. RevocationTypeOK'
    BY <2>2, <2>3, <2>4, HandleBlocks DEF RevocationTypeOK
  <2>6. RevokedStaysBlocked'
    BY <2>3, <2>4, HandleBlocks DEF RevokedStaysBlocked
  <2>7. handled \union Pending = handled' \union Pending'
    <3>1. Pending = {Head(batch)} \union {Tail(batch)[k] : k \in 1..Len(Tail(batch))}
      BY <2>1, HeadAndRest DEF Pending
    <3>2. Pending' = {Tail(batch)[k] : k \in 1..Len(Tail(batch))}
      BY <2>4 DEF Pending
    <3> QED BY <2>4, <3>1, <3>2, Zenon
  <2> QED BY <2>4, <2>5, <2>6, <2>7
<1>5. CASE CommitOffset
  <2>1. RevocationTypeOK' /\ RevokedStaysBlocked'
    BY <1>5 DEF CommitOffset, RevocationTypeOK, RevokedStaysBlocked
  <2>2. Accounted'
    BY <1>n, <1>5 DEF CommitOffset, Pending
  <2> QED BY <2>1, <2>2
<1>6. CASE CutBatch \/ Crash
  <2>1. batch' = <<>> /\ polling' \in {"down", "poll"} /\ trouble' \in {trouble, "cut"}
        /\ (trouble' = "none" => batch = <<>>)
        /\ UNCHANGED <<life, blocked, topic, committed, position, handled>>
    BY <1>6 DEF CutBatch, Crash, RevocationTypeOK
  <2>2. kafkaFaults' \in 0..MaxKafkaFaults /\ crashes' \in 0..MaxCrashes
    BY <1>n, <1>6 DEF CutBatch, Crash, KafkaFault, RevocationTypeOK
  <2>3. RevocationTypeOK' /\ RevokedStaysBlocked'
    BY <2>1, <2>2, EmptySeq DEF RevocationTypeOK, RevokedStaysBlocked
  <2>4. trouble' = "none" => trouble = "none" /\ Pending' = Pending
    BY <2>1 DEF Pending
  <2> QED BY <2>1, <2>3, <2>4
<1>7. CASE TokenTick
  <2>1. \A t \in Token : /\ life[t] \in 0..TokenLife /\ blocked[t] \in 0..TokenLife
                         /\ life'[t] = Dec(life[t]) /\ blocked'[t] = Dec(blocked[t])
    BY <1>7 DEF TokenTick, RevocationTypeOK
  <2>2. \A n \in 0..TokenLife : Dec(n) \in 0..TokenLife
    BY <1>n DEF Dec
  <2>3. RevocationTypeOK'
    BY <1>7, <2>1, <2>2 DEF TokenTick, RevocationTypeOK
  <2>4. \A a, b \in 0..TokenLife :
          (a >= Second => b + Second > a) => (Dec(a) >= Second => Dec(b) + Second > Dec(a))
    BY <1>n DEF Dec
  <2>5. RevokedStaysBlocked'
    <3>1. ASSUME NEW i \in handled, life'[topic[i]] >= Second
          PROVE  blocked'[topic[i]] + Second > life'[topic[i]]
      <4>1. topic[i] \in Token
        BY <1>h
      <4>2. life[topic[i]] >= Second => blocked[topic[i]] + Second > life[topic[i]]
        BY DEF RevokedStaysBlocked
      <4> QED BY <2>1, <2>4, <3>1, <4>1, <4>2
    <3> QED BY <1>7, <3>1 DEF TokenTick, RevokedStaysBlocked
  <2>6. UNCHANGED <<committed, position, polling, batch, trouble, handled>>
    BY <1>7 DEF TokenTick
  <2> QED BY <2>3, <2>5, <2>6 DEF Pending
<1>8. ASSUME NEW t \in Token, Revoke(t) PROVE KafkaInv'
  <2>1. /\ topic' \in Seq(Token) /\ Len(topic') = Len(topic) + 1
        /\ \A i \in 1..Len(topic) : topic'[i] = topic[i]
    BY <1>8, Appended DEF Revoke, RevocationTypeOK
  <2>2. UNCHANGED <<life, blocked, committed, position, batch, polling, handled, trouble,
                    kafkaFaults, crashes>>
    BY <1>8 DEF Revoke
  <2>3. batch \in Seq(1..Len(topic'))
    <3>1. 1..Len(topic) \subseteq 1..Len(topic')
      BY <1>n, <2>1
    <3>2. \A i \in 1..Len(batch) : batch[i] \in 1..Len(topic')
      BY <3>1, ElementOfSeq DEF RevocationTypeOK
    <3>3. batch \in [1..Len(batch) -> 1..Len(topic')] /\ Len(batch) \in Nat
      BY <3>2, LenProperties DEF RevocationTypeOK
    <3> QED BY <3>3
  <2>k. committed \in 0..Len(topic') /\ position \in 0..Len(topic') /\ handled \subseteq 1..Len(topic')
    <3>1. 1..Len(topic) \subseteq 1..Len(topic')
      BY <1>n, <2>1
    <3>2. handled \subseteq 1..Len(topic')
      BY <3>1 DEF RevocationTypeOK
    <3> QED BY <1>n, <2>1, <3>2
  <2>4. RevocationTypeOK'
    BY <2>1, <2>2, <2>3, <2>k DEF RevocationTypeOK
  <2>5. \A i \in handled : topic'[i] = topic[i]
    BY <2>1 DEF RevocationTypeOK
  <2>6. RevokedStaysBlocked'
    BY <2>2, <2>5 DEF RevokedStaysBlocked
  <2> QED BY <2>2, <2>4, <2>6 DEF Pending
<1>9. ASSUME NEW t \in Token, ChannelMessage(t) PROVE KafkaInv'
  <2>1. Handle(t) /\ UNCHANGED <<life, topic, committed, position, batch, polling, handled,
                                 trouble, kafkaFaults, crashes>>
    BY <1>9 DEF ChannelMessage
  <2>2. RevocationTypeOK'
    BY <2>1, HandleBlocks DEF RevocationTypeOK
  <2>3. RevokedStaysBlocked'
    BY <2>1, HandleBlocks DEF RevokedStaysBlocked
  <2> QED BY <2>1, <2>2, <2>3 DEF Pending
<1> QED BY <1>1, <1>2, <1>3, <1>4, <1>5, <1>6, <1>7, <1>8, <1>9 DEF RevocationNext

\* The invariant of the revocations' way.
LEMMA KafkaHolds == RevocationSpec => []KafkaInv
<1>1. RevocationInit => KafkaInv
  <2> SUFFICES ASSUME RevocationInit PROVE KafkaInv
    OBVIOUS
  <2>1. RevocationTypeOK
    BY RevocationAssumption, EmptySeq DEF RevocationInit, RevocationTypeOK
  <2>2. Accounted /\ RevokedStaysBlocked
    BY DEF RevocationInit, Accounted, RevokedStaysBlocked
  <2> QED BY <2>1, <2>2 DEF KafkaInv
<1> QED BY <1>1, KafkaStep, PTL DEF RevocationSpec

\* A committed revocation was handled or is in the worker's hands until a batch is
\* cut short, and a handled one is in force as long as its token lives, for any
\* number of tokens, faults and crashes.
THEOREM RevocationsInForce == RevocationSpec => []RevocationsHold
<1>1. KafkaInv => RevocationsHold
  <2> SUFFICES ASSUME KafkaInv PROVE RevocationsHold
    OBVIOUS
  <2>1. 1..committed \subseteq 1..position
    BY DEF KafkaInv, Accounted, RevocationTypeOK
  <2> QED BY <2>1 DEF KafkaInv, Accounted, RevocationsHold, SkippedOnlyAfterTrouble
<1> QED BY <1>1, KafkaHolds, PTL

-----------------------------------------------------------------------------
(* Identity events.                                                        *)

EventTypes ==
  /\ EventTypeOK /\ Len(events) <= MaxEvents
  /\ \A i \in 1..MaxEvents : i \notin Event => uses[i] = 0

\* An event that the worker has taken over before those that wait.
Ahead(i) == \A k \in 1..Len(pubsub) : i < pubsub[k]

\* The worker forwards in order: what waits comes after what it carries, and that
\* after what is in the topic or has been applied.
InOrder ==
  /\ \A k, l \in 1..Len(pubsub) : k < l => pubsub[k] < pubsub[l]
  /\ carried = NoEvent <=> leg = "wait"
  /\ Ahead(carried)
  /\ \A i \in Event : i \in records \union overdue \/ uses[i] > 0
       => Ahead(i) /\ (carried # NoEvent => i <= carried)

Somewhere(i) ==
  (\E k \in 1..Len(pubsub) : pubsub[k] = i) \/ i = carried \/ i \in records

Counted ==
  /\ \A i \in Event : Somewhere(i) \/ uses[i] > 0 \/ i \in dropped
  /\ \A i \in overdue : i \in again /\ ((i = carried /\ leg = "http") \/ uses[i] > 0 \/ i \in dropped)

\* An event that has been neither sent nor delivered twice is in one place.
Fresh ==
  \A i \in Event \ again :
    /\ uses[i] <= 1
    /\ i = carried => uses[i] = 0 /\ i \notin records
    /\ i \in records => uses[i] = 0

\* The newest event applied, unless the order is broken.
Newest(m) ==
  /\ uses[m] > 0 /\ person = StatusAfter[events[m]]
  /\ \A i \in Event : uses[i] > 0 => i <= m
  /\ \A i \in records \union overdue : m <= i
  /\ carried # NoEvent => m <= carried

InForce ==
  dropped = {} /\ ~shuffled /\ (\E i \in Event : uses[i] > 0)
    => \E m \in Event : Newest(m)

EventInv == EventTypes /\ InOrder /\ Counted /\ Fresh /\ InForce

\* The three kinds of events have a status each.
LEMMA Statuses ==
  \A kind \in DOMAIN StatusAfter : StatusAfter[kind] \in {"ACTIVE", "SUSPENDED", "DELETED"}
BY DEF StatusAfter

\* Where the events are found.
LEMMA Indices ==
  ASSUME EventTypes
  PROVE  /\ Len(events) \in Nat /\ Len(pubsub) \in Nat /\ MaxEvents \in Nat
         /\ Event \subseteq 1..MaxEvents /\ Event \subseteq Nat
         /\ \A i \in Event : events[i] \in DOMAIN StatusAfter
         /\ \A k \in 1..Len(pubsub) : pubsub[k] \in Event
         /\ records \subseteq Event /\ overdue \subseteq Event /\ dropped \subseteq Event
         /\ again \subseteq Event
         /\ uses \in [1..MaxEvents -> Nat]
         /\ carried \in Nat /\ (carried # NoEvent => carried \in Event)
<1>1. Len(events) \in Nat /\ Len(pubsub) \in Nat /\ MaxEvents \in Nat
  BY ForwardingAssumption, LenProperties DEF EventTypes, EventTypeOK
<1>2. \A i \in Event : events[i] \in DOMAIN StatusAfter
  BY ElementOfSeq DEF EventTypes, EventTypeOK, Event
<1>3. \A k \in 1..Len(pubsub) : pubsub[k] \in Event
  BY ElementOfSeq DEF EventTypes, EventTypeOK
<1> QED BY <1>1, <1>2, <1>3 DEF EventTypes, EventTypeOK, Event, NoEvent

\* Keycloak does something, and tells the worker or nobody.
LEMMA HappensKeeps ==
  ASSUME EventInv, NEW kind \in DOMAIN StatusAfter, Happens(kind)
  PROVE  EventInv'
<1> PICK n \in Nat : n = Len(events) + 1
  BY Indices DEF EventInv
<1>1. /\ Len(events) \in Nat /\ Len(pubsub) \in Nat /\ MaxEvents \in Nat
      /\ Event \subseteq 1..MaxEvents
      /\ \A k \in 1..Len(pubsub) : pubsub[k] \in Event
      /\ carried \in Nat /\ (carried # NoEvent => carried \in Event)
      /\ uses \in [1..MaxEvents -> Nat]
  BY Indices DEF EventInv
<1>2. /\ events' \in Seq(DOMAIN StatusAfter) /\ Len(events') = n /\ n \in Nat
      /\ \A i \in Event : events'[i] = events[i]
      /\ Event' = Event \union {n} /\ n \notin Event /\ n <= MaxEvents
  <2>1. events' = Append(events, kind) /\ Len(events) < MaxEvents
    BY DEF Happens
  <2>2. /\ events' \in Seq(DOMAIN StatusAfter) /\ Len(events') = n
        /\ \A i \in 1..Len(events) : events'[i] = events[i]
    BY <2>1, Appended DEF EventInv, EventTypes, EventTypeOK
  <2> QED BY <1>1, <2>1, <2>2 DEF Event
<1>3. /\ UNCHANGED <<carried, leg, overdue, records, person, uses, again, shuffled>>
      /\ \/ pubsub' = Append(pubsub, n) /\ UNCHANGED <<dropped, troubles>>
         \/ Trouble /\ dropped' = dropped \union {n} /\ UNCHANGED pubsub
  BY <1>2 DEF Happens
<1>4. pubsub \in Seq(Event')
  <2>1. \A k \in 1..Len(pubsub) : pubsub[k] \in Event'
    BY <1>1, <1>2
  <2>2. \A k \in DOMAIN pubsub : pubsub[k] \in Event'
    BY <2>1, LenProperties DEF EventInv, EventTypes, EventTypeOK
  <2> QED BY <2>2, SeqDef, LenProperties DEF EventInv, EventTypes, EventTypeOK
<1>5. /\ pubsub' \in Seq(Event') /\ Len(pubsub') \in Nat
      /\ \A k \in 1..Len(pubsub) : k \in 1..Len(pubsub') /\ pubsub'[k] = pubsub[k]
      /\ \A k \in 1..Len(pubsub') : k \in 1..Len(pubsub) \/ (pubsub'[k] = n /\ k = Len(pubsub) + 1)
      /\ n \in dropped' \/ (\E k \in 1..Len(pubsub') : pubsub'[k] = n)
  <2>1. CASE pubsub' = Append(pubsub, n)
    <3>1. /\ pubsub' \in Seq(Event') /\ Len(pubsub') = Len(pubsub) + 1
          /\ pubsub'[Len(pubsub) + 1] = n
          /\ \A k \in 1..Len(pubsub) : pubsub'[k] = pubsub[k]
      BY <1>2, <1>4, <2>1, Appended
    <3>2. /\ Len(pubsub') \in Nat
          /\ \A k \in 1..Len(pubsub) : k \in 1..Len(pubsub')
          /\ \A k \in 1..Len(pubsub') : k \in 1..Len(pubsub) \/ k = Len(pubsub) + 1
          /\ Len(pubsub) + 1 \in 1..Len(pubsub')
      BY <1>1, <3>1
    <3>3. /\ \A k \in 1..Len(pubsub) : k \in 1..Len(pubsub') /\ pubsub'[k] = pubsub[k]
          /\ \A k \in 1..Len(pubsub') :
                k \in 1..Len(pubsub) \/ (pubsub'[k] = n /\ k = Len(pubsub) + 1)
      BY <3>1, <3>2
    <3>4. \E k \in 1..Len(pubsub') : pubsub'[k] = n
      BY <3>1, <3>2
    <3> QED BY <3>1, <3>2, <3>3, <3>4
  <2>2. CASE UNCHANGED pubsub /\ n \in dropped'
    <3>1. pubsub' = pubsub /\ n \in dropped'
      BY <2>2
    <3>2. pubsub' \in Seq(Event') /\ Len(pubsub') = Len(pubsub)
      BY <1>4, <3>1
    <3>3. /\ Len(pubsub') \in Nat
          /\ \A k \in 1..Len(pubsub) : k \in 1..Len(pubsub') /\ pubsub'[k] = pubsub[k]
          /\ \A k \in 1..Len(pubsub') :
                k \in 1..Len(pubsub) \/ (pubsub'[k] = n /\ k = Len(pubsub) + 1)
      BY <1>1, <3>1
    <3> QED BY <3>1, <3>2, <3>3
  <2> QED BY <1>3, <2>1, <2>2
<1>6. EventTypes'
  <2> USE DEF EventInv, EventTypes, EventTypeOK
  <2>1. troubles' \in 0..MaxTroubles
    BY <1>3, ForwardingAssumption DEF Trouble
  <2>2. n \in Event' /\ Event \subseteq Event'
    BY <1>2
  <2>3. carried' \in Event' \union {NoEvent} /\ overdue' \subseteq Event'
        /\ records' \subseteq Event' /\ again' \subseteq Event' /\ dropped' \subseteq Event'
    BY <1>3, <2>2
  <2>4. \A i \in 1..MaxEvents : i \notin Event' => uses'[i] = 0
    BY <1>3, <2>2
  <2> QED BY <1>2, <1>3, <1>5, <2>1, <2>3, <2>4
<1>7. InOrder'
  <2> USE DEF EventInv, InOrder, Ahead, NoEvent
  <2>1. \A i \in Event : i < n /\ i \in Nat
    BY <1>1 DEF Event
  <2>2. ASSUME NEW k \in 1..Len(pubsub'), NEW l \in 1..Len(pubsub'), k < l
        PROVE  pubsub'[k] < pubsub'[l]
    <3>1. k \in 1..Len(pubsub) /\ pubsub'[k] = pubsub[k]
      BY <1>1, <1>5, <2>2
    <3>2. CASE l \in 1..Len(pubsub)
      BY <1>5, <2>2, <3>1, <3>2
    <3>3. CASE pubsub'[l] = n
      BY <1>1, <2>1, <3>1, <3>3
    <3> QED BY <1>5, <3>2, <3>3
  <2>3. ASSUME NEW i \in Nat, i < n, Ahead(i) PROVE Ahead(i)'
    BY <1>5, <2>3
  <2>4. carried < n
    BY <1>1, <2>1
  <2>5. uses[n] = 0 /\ n \notin records \union overdue
    BY <1>1, <1>2 DEF EventTypes, EventTypeOK
  <2>6. Ahead(carried)'
    BY <1>1, <1>3, <1>5, <2>4
  <2>7. ASSUME NEW i \in Event', i \in records' \union overdue' \/ uses'[i] > 0
        PROVE  Ahead(i)' /\ (carried' # NoEvent => i <= carried')
    <3>1. i \in Event
      BY <1>2, <1>3, <2>5, <2>7
    <3> QED BY <1>3, <2>1, <2>3, <2>7, <3>1
  <2> QED BY <1>3, <2>2, <2>6, <2>7
<1>8. Counted'
  <2>1. ASSUME NEW i \in Event PROVE Somewhere(i)' \/ uses'[i] > 0 \/ i \in dropped'
    BY <1>3, <1>5 DEF EventInv, Counted, Somewhere
  <2>2. Somewhere(n)' \/ n \in dropped'
    BY <1>5 DEF Somewhere
  <2>3. dropped \subseteq dropped'
    BY <1>3
  <2> QED BY <1>2, <1>3, <2>1, <2>2, <2>3 DEF EventInv, Counted
<1>9. Fresh' /\ InForce'
  <2>1. n \notin again /\ n # carried /\ n \notin records /\ n \notin overdue
    BY <1>1, <1>2 DEF EventInv, EventTypes, EventTypeOK, NoEvent
  <2>2. uses[n] = 0
    BY <1>2 DEF EventInv, EventTypes
  <2> QED BY <1>2, <1>3, <2>1, <2>2 DEF EventInv, Fresh, InForce, Newest
<1> QED BY <1>6, <1>7, <1>8, <1>9 DEF EventInv

\* The worker takes the event that has waited longest.
LEMMA TakeKeeps ==
  ASSUME EventInv, TakeEvent
  PROVE  EventInv'
<1>1. /\ Len(pubsub) \in Nat
      /\ \A k \in 1..Len(pubsub) : pubsub[k] \in Event
      /\ Event \subseteq Nat
      /\ Event \subseteq 1..MaxEvents /\ uses \in [1..MaxEvents -> Nat]
  BY Indices DEF EventInv
<1>2. /\ pubsub \in Seq(Event) /\ pubsub # <<>>
      /\ carried = NoEvent /\ carried' = Head(pubsub) /\ pubsub' = Tail(pubsub)
      /\ leg' = "kafka"
      /\ UNCHANGED <<events, overdue, records, person, uses, dropped, again, shuffled, troubles>>
  BY DEF EventInv, EventTypes, EventTypeOK, InOrder, TakeEvent
<1>3. /\ Len(pubsub) > 0 /\ carried' = pubsub[1]
      /\ pubsub' \in Seq(Event) /\ Len(pubsub') = Len(pubsub) - 1
      /\ \A k \in 1..Len(pubsub') : pubsub'[k] = pubsub[k + 1]
  BY <1>1, <1>2, HeadTailProperties, LenProperties, EmptySeq
<1>4. /\ \A k \in 1..Len(pubsub') : k + 1 \in 1..Len(pubsub)
      /\ 1 \in 1..Len(pubsub)
  BY <1>1, <1>3
<1>5. EventTypes'
  BY <1>1, <1>2, <1>3, <1>4 DEF EventInv, EventTypes, EventTypeOK, Event
<1>6. carried' \in Event /\ carried' # NoEvent /\ carried' \in Nat
  BY <1>1, <1>3, <1>4 DEF Event, NoEvent
<1>7. InOrder'
  <2> USE DEF EventInv, InOrder, Ahead
  <2>1. ASSUME NEW k \in 1..Len(pubsub'), NEW l \in 1..Len(pubsub'), k < l
        PROVE  pubsub'[k] < pubsub'[l]
    BY <1>3, <1>4, <2>1
  <2>2. Ahead(carried)'
    <3>1. ASSUME NEW k \in 1..Len(pubsub') PROVE carried' < pubsub'[k]
      <4>1. 1 < k + 1
        BY <1>1
      <4> QED BY <1>3, <1>4, <4>1
    <3> QED BY <3>1
  <2>3. ASSUME NEW i \in Event, i \in records \union overdue \/ uses[i] > 0
        PROVE  Ahead(i)' /\ i <= carried'
    <3>1. \A k \in 1..Len(pubsub) : i < pubsub[k]
      BY <2>3
    <3>2. \A k \in 1..Len(pubsub') : i < pubsub'[k]
      BY <1>3, <1>4, <3>1
    <3>3. i < pubsub[1] /\ i \in Nat /\ pubsub[1] \in Nat
      BY <1>1, <1>4, <3>1
    <3>4. i <= carried'
      BY <1>3, <3>3
    <3> QED BY <3>2, <3>4
  <2> QED BY <1>2, <1>6, <2>1, <2>2, <2>3 DEF Event
<1>8. Counted'
  <2>1. ASSUME NEW i \in Event PROVE Somewhere(i)' \/ uses[i] > 0 \/ i \in dropped
    <3>1. CASE \E k \in 1..Len(pubsub) : pubsub[k] = i
      <4>1. PICK k \in 1..Len(pubsub) : pubsub[k] = i
        BY <3>1
      <4>2. CASE k = 1
        BY <1>3, <4>1, <4>2 DEF Somewhere
      <4>3. CASE k # 1
        <5>1. k - 1 \in 1..Len(pubsub') /\ (k - 1) + 1 = k
          BY <1>1, <1>3, <4>3
        <5> QED BY <1>3, <4>1, <5>1 DEF Somewhere
      <4> QED BY <4>2, <4>3
    <3>2. i # carried
      BY <1>1, <1>2 DEF NoEvent, Event
    <3> QED BY <1>2, <3>1, <3>2 DEF EventInv, Counted, Somewhere
  <2>2. \A i \in overdue : i # carried
    BY <1>2 DEF EventInv, EventTypes, EventTypeOK, NoEvent, Event
  <2> QED BY <1>2, <2>1, <2>2 DEF EventInv, Counted, Event
<1>9. carried' \notin records \union overdue /\ uses[carried'] = 0
  <2>1. ~Ahead(carried')
    BY <1>1, <1>3, <1>4, <1>6 DEF Ahead
  <2> QED BY <1>1, <1>6, <2>1 DEF EventInv, InOrder
<1>10. Fresh'
  BY <1>2, <1>6, <1>9 DEF EventInv, Fresh, Event
<1>11. InForce'
  <2>1. ASSUME NEW m \in Event, Newest(m) PROVE Newest(m)'
    <3>1. m < carried'
      BY <1>3, <1>4, <2>1 DEF EventInv, InOrder, Ahead, Newest
    <3> QED BY <1>1, <1>2, <1>6, <2>1, <3>1 DEF Newest, Event
  <2> QED BY <1>2, <2>1 DEF EventInv, InForce, Event
<1> QED BY <1>5, <1>7, <1>8, <1>10, <1>11 DEF EventInv

\* The event leaves the worker's hands, or is in the topic, or is lost.
LEMMA MovesKeep ==
  ASSUME EventInv,
         \/ KafkaTakes \/ KafkaFails \/ WebhookFails
         \/ \E i \in Event : LateSend(i) \/ ConsumeThrows(i)
  PROVE  EventInv'
<1> USE DEF EventInv, EventTypes, EventTypeOK, InOrder, Ahead, Counted, Somewhere, Fresh, Event,
            Forwarded, NoEvent
<1>0. /\ Len(pubsub) \in Nat /\ Len(events) \in Nat
      /\ uses \in [1..MaxEvents -> Nat]
      /\ carried \in Nat /\ (carried # NoEvent => carried \in Event)
      /\ \A k \in 1..Len(pubsub) : pubsub[k] \in Event
  BY Indices
<1>i. ASSUME UNCHANGED <<events, person, uses, shuffled>>, dropped \subseteq dropped',
             \A i \in records' \union overdue' : 
                i \in records \union overdue \/ (i = carried /\ carried # NoEvent),
             carried' \in {carried, NoEvent}, carried \in Nat
      PROVE  InForce'
  <2>1. ASSUME dropped = {}, NEW m \in Event, Newest(m) PROVE Newest(m)'
    BY <1>i, <2>1 DEF Newest
  <2> QED BY <1>i, <2>1 DEF InForce
<1>t. Trouble => troubles' \in 0..MaxTroubles
  BY ForwardingAssumption DEF Trouble
<1>1. CASE KafkaTakes
  <2>1. InForce' BY <1>0, <1>1, <1>i DEF KafkaTakes
  <2>2. EventTypes' BY <1>0, <1>1 DEF KafkaTakes
  <2>3. InOrder' BY <1>0, <1>1 DEF KafkaTakes
  <2>4. Counted' BY <1>0, <1>1 DEF KafkaTakes
  <2>5. Fresh' BY <1>0, <1>1 DEF KafkaTakes
  <2> QED BY <2>1, <2>2, <2>3, <2>4, <2>5
<1>2. CASE KafkaFails
  <2>1. InForce' BY <1>0, <1>2, <1>i DEF KafkaFails, FallBack
  <2>2. EventTypes' BY <1>0, <1>t, <1>2 DEF KafkaFails, FallBack
  <2>3. InOrder' BY <1>0, <1>2 DEF KafkaFails, FallBack
  <2>4. Counted' BY <1>0, <1>2 DEF KafkaFails, FallBack
  <2>5. Fresh' BY <1>0, <1>2 DEF KafkaFails, FallBack
  <2> QED BY <2>1, <2>2, <2>3, <2>4, <2>5
<1>3. CASE WebhookFails
  <2>1. InForce' BY <1>0, <1>3, <1>i DEF WebhookFails
  <2> QED BY <1>0, <1>t, <1>3, <2>1 DEF WebhookFails
<1>4. ASSUME NEW i \in Event, LateSend(i) PROVE EventInv'
  <2>1. InForce' BY <1>0, <1>4, <1>i DEF LateSend
  <2> QED BY <1>0, <1>4, <2>1 DEF LateSend
<1>5. ASSUME NEW i \in Event, ConsumeThrows(i) PROVE EventInv'
  <2>1. InForce' BY <1>0, <1>5, <1>i DEF ConsumeThrows
  <2> QED BY <1>0, <1>t, <1>5, <2>1 DEF ConsumeThrows
<1> QED BY <1>1, <1>2, <1>3, <1>4, <1>5

\* The handler applies an event, from the webhook or from the topic.
LEMMA AppliedKeeps ==
  ASSUME EventInv, NEW i \in Event, Applied(i),
         \/ WebhookTakes /\ i = carried
         \/ Consumes(i) \/ ConsumesAgain(i)
  PROVE  EventInv'
<1>0. /\ Len(pubsub) \in Nat /\ Len(events) \in Nat
      /\ Event \subseteq 1..MaxEvents /\ uses \in [1..MaxEvents -> Nat]
      /\ carried \in Nat /\ (carried # NoEvent => carried \in Event)
      /\ \A k \in 1..Len(pubsub) : pubsub[k] \in Event
      /\ events[i] \in DOMAIN StatusAfter
      /\ records \subseteq Event /\ overdue \subseteq Event
  BY Indices DEF EventInv
<1>1. /\ uses' \in [1..MaxEvents -> Nat] /\ uses'[i] = uses[i] + 1
      /\ \A j \in 1..MaxEvents \ {i} : uses'[j] = uses[j]
      /\ person' = StatusAfter[events[i]]
      /\ shuffled' = (shuffled \/ \E j \in records \union overdue : j < i)
      /\ uses'[i] > 0
  BY <1>0 DEF Applied
<1>2. /\ UNCHANGED <<events, pubsub, overdue, dropped>>
      /\ records' \subseteq records
      /\ \/ carried' = NoEvent /\ leg' = "wait" /\ i = carried /\ leg = "http"
            /\ UNCHANGED <<records, again, troubles>>
         \/ /\ i \in records /\ UNCHANGED <<carried, leg>>
            /\ \/ records' = records \ {i} /\ UNCHANGED <<again, troubles>>
               \/ UNCHANGED records /\ again' = again \union {i} /\ Trouble
  BY DEF WebhookTakes, Consumes, ConsumesAgain, Forwarded
<1>3. EventTypes'
  <2> USE DEF EventInv, EventTypes, EventTypeOK, Event
  <2>1. person' \in {"PENDING", "ACTIVE", "SUSPENDED", "DELETED"}
    BY <1>0, <1>1, Statuses
  <2>2. troubles' \in 0..MaxTroubles
    BY <1>2, ForwardingAssumption DEF Trouble
  <2>3. shuffled' \in BOOLEAN
    BY <1>1
  <2>4. \A j \in 1..MaxEvents : j \notin Event' => uses'[j] = 0
    BY <1>1, <1>2
  <2> QED BY <1>1, <1>2, <2>1, <2>2, <2>3, <2>4
<1>4. Ahead(i) /\ (carried # NoEvent => i <= carried)
  BY <1>0, <1>2 DEF EventInv, InOrder
<1>5. InOrder'
  <2> USE DEF EventInv, InOrder, Ahead
  <2>1. /\ carried' = NoEvent <=> leg' = "wait"
        /\ Ahead(carried)'
    <3>1. \A k \in 1..Len(pubsub) : NoEvent < pubsub[k]
      BY <1>0 DEF Event, NoEvent
    <3> QED BY <1>2, <3>1
  <2>2. ASSUME NEW j \in Event, j \in records' \union overdue' \/ uses'[j] > 0
        PROVE  Ahead(j)' /\ (carried' # NoEvent => j <= carried')
    <3>1. Ahead(j) /\ (carried # NoEvent => j <= carried)
      BY <1>0, <1>1, <1>2, <1>4, <2>2
    <3> QED BY <1>2, <3>1
  <2> QED BY <1>2, <2>1, <2>2 DEF Event
<1>6. Counted'
  BY <1>0, <1>1, <1>2 DEF EventInv, Counted, Somewhere, Event, NoEvent
<1>7. Fresh'
  <2> SUFFICES ASSUME NEW j \in Event, j \notin again'
               PROVE  /\ uses'[j] <= 1
                      /\ j = carried' => uses'[j] = 0 /\ j \notin records'
                      /\ j \in records' => uses'[j] = 0
    BY <1>2 DEF Fresh, Event
  <2>1. /\ uses[j] \in Nat /\ uses[j] <= 1
        /\ j = carried => uses[j] = 0 /\ j \notin records
        /\ j \in records => uses[j] = 0
    BY <1>0, <1>2 DEF EventInv, Fresh
  <2>e. j \in 1..MaxEvents /\ j # NoEvent
    BY <1>0 DEF Event, NoEvent
  <2>2. j \in records' => j \in records
    BY <1>2
  <2>3. CASE j = i
    <3>1. uses'[j] = uses[j] + 1
      BY <1>1, <2>3
    <3>2. CASE carried' = NoEvent /\ i = carried
      BY <2>1, <2>2, <2>3, <2>e, <3>1, <3>2
    <3>3. CASE i \in records /\ carried' = carried /\ records' = records \ {i}
      BY <2>1, <2>3, <3>1, <3>3
    <3> QED BY <1>2, <2>3, <3>2, <3>3
  <2>4. CASE j # i
    <3>1. uses'[j] = uses[j]
      BY <1>1, <2>4, <2>e
    <3>2. j = carried' => j = carried
      BY <1>2, <2>e
    <3> QED BY <2>1, <2>2, <3>1, <3>2
  <2> QED BY <2>3, <2>4
<1>8. InForce'
  <2>1. ASSUME dropped = {}, ~shuffled' PROVE Newest(i)'
    <3>1. ASSUME NEW j \in records \union overdue PROVE i <= j
      <4>1. j \in Nat /\ i \in Nat
        <5>1. j \in Event
          BY <1>0
        <5> QED BY <5>1, Indices DEF EventInv
      <4>2. ~(j < i)
        BY <1>1, <2>1, Zenon
      <4> QED BY <4>1, <4>2
    <3>2. ASSUME NEW j \in Event, uses[j] > 0 PROVE j <= i
      <4>1. PICK m \in Event : Newest(m)
        BY <1>1, <2>1, <3>2 DEF EventInv, InForce
      <4>2. j <= m /\ m <= i
        BY <1>0, <1>2, <3>2, <4>1 DEF Newest, NoEvent, Event
      <4> QED BY <4>2 DEF Event
    <3>3. /\ \A j \in Event' : uses'[j] > 0 => j <= i
          /\ i \in Nat
      <4>1. \A j \in Event \ {i} : uses'[j] = uses[j]
        BY <1>0, <1>1
      <4> QED BY <1>2, <3>2, <4>1 DEF Event
    <3>4. carried' # NoEvent => i <= carried'
      BY <1>2, <1>4
    <3> QED BY <1>1, <1>2, <3>1, <3>3, <3>4 DEF Newest
  <2> QED BY <1>2, <2>1 DEF InForce, Event
<1> QED BY <1>3, <1>5, <1>6, <1>7, <1>8 DEF EventInv

\* What the worker had dies with it.
LEMMA DeathKeeps ==
  ASSUME EventInv, WorkerDies
  PROVE  EventInv'
<1>0. /\ Len(pubsub) \in Nat /\ Len(events) \in Nat
      /\ Event \subseteq 1..MaxEvents /\ uses \in [1..MaxEvents -> Nat]
      /\ carried \in Nat /\ (carried # NoEvent => carried \in Event)
      /\ \A k \in 1..Len(pubsub) : pubsub[k] \in Event
  BY Indices DEF EventInv
<1>1. /\ pubsub' = <<>> /\ overdue' = {} /\ carried' = NoEvent /\ leg' = "wait"
      /\ UNCHANGED <<events, records, person, uses, again, shuffled>>
      /\ Trouble
      /\ \A k \in 1..Len(pubsub) : pubsub[k] \in dropped'
      /\ carried # NoEvent => carried \in dropped'
      /\ dropped \subseteq dropped' /\ dropped' \subseteq Event
  <2>1. DOMAIN pubsub = 1..Len(pubsub)
    BY LenProperties DEF EventInv, EventTypes, EventTypeOK
  <2> QED BY <1>0, <2>1 DEF WorkerDies, Forwarded, InHand, EventInv, EventTypes, EventTypeOK
<1>2. Len(pubsub') = 0 /\ pubsub' \in Seq(Event)
  BY <1>1, EmptySeq
<1>3. EventTypes'
  <2>1. troubles' \in 0..MaxTroubles
    BY <1>1, ForwardingAssumption DEF Trouble, EventInv, EventTypes, EventTypeOK
  <2> QED BY <1>1, <1>2, <2>1 DEF EventInv, EventTypes, EventTypeOK, Event
<1>4. InOrder'
  BY <1>1, <1>2 DEF EventInv, InOrder, Ahead, Event
<1>5. Counted'
  BY <1>0, <1>1, <1>2 DEF EventInv, Counted, Somewhere, Event, NoEvent
<1>6. Fresh'
  BY <1>0, <1>1 DEF EventInv, Fresh, Event, NoEvent
<1>7. InForce'
  <2>1. ASSUME dropped = {}, NEW m \in Event, Newest(m) PROVE Newest(m)'
    BY <1>1, <2>1 DEF Newest, Event
  <2> QED BY <1>1, <2>1 DEF EventInv, InForce, Event
<1> QED BY <1>3, <1>4, <1>5, <1>6, <1>7 DEF EventInv

\* The invariant of the identity events.
LEMMA EventsHold == EventSpec => []EventInv
<1>1. EventInit => EventInv
  <2> SUFFICES ASSUME EventInit PROVE EventInv
    OBVIOUS
  <2> USE ForwardingAssumption DEF EventInit
  <2>1. events = <<>> /\ pubsub = <<>> /\ Len(events) = 0 /\ Len(pubsub) = 0 /\ Event = {}
        /\ events \in Seq(DOMAIN StatusAfter) /\ pubsub \in Seq(Event)
    BY EmptySeq DEF Event
  <2>2. /\ uses \in [1..MaxEvents -> Nat] /\ \A i \in 1..MaxEvents : uses[i] = 0
        /\ 0 <= MaxEvents /\ troubles \in 0..MaxTroubles
    OBVIOUS
  <2>3. EventTypes
    BY <2>1, <2>2 DEF EventTypes, EventTypeOK
  <2> QED BY <2>1, <2>3 DEF EventInv, InOrder, Ahead, Counted, Fresh, InForce
<1>2. EventInv /\ [EventNext]_eventVars => EventInv'
  <2> SUFFICES ASSUME EventInv, [EventNext]_eventVars PROVE EventInv'
    OBVIOUS
  <2>1. CASE UNCHANGED eventVars
    BY <2>1 DEF eventVars, EventInv, EventTypes, EventTypeOK, InOrder, Ahead, Counted,
                Somewhere, Fresh, InForce, Newest, Event
  <2>2. CASE WebhookTakes
    <3>1. carried \in Event
      BY <2>2 DEF WebhookTakes, EventInv, EventTypes, EventTypeOK, InOrder
    <3> QED BY <2>2, <3>1, AppliedKeeps DEF WebhookTakes
  <2>3. ASSUME NEW i \in Event, Consumes(i) \/ ConsumesAgain(i) PROVE EventInv'
    BY <2>3, AppliedKeeps DEF Consumes, ConsumesAgain
  <2> QED BY <2>1, <2>2, <2>3, HappensKeeps, TakeKeeps, MovesKeep, DeathKeeps DEF EventNext
<1> QED BY <1>1, <1>2, PTL DEF EventSpec

\* What is applied twice or not at all has a cause, for any number of events and
\* failures.
THEOREM EventsDelivered == EventSpec => []DeliveredOnce
<1>1. EventInv => DeliveredOnce
  <2> SUFFICES ASSUME EventInv PROVE DeliveredOnce
    OBVIOUS
  <2>1. AppliedOnce
    BY Indices DEF AppliedOnce, EventInv, Fresh
  <2>2. DroppedForCause
    <3> SUFFICES ASSUME EventsAtRest, NEW i \in Event PROVE uses[i] > 0 \/ i \in dropped
      BY DEF DroppedForCause
    <3>1. Len(pubsub) = 0 /\ i # carried /\ i \notin records
      BY EmptySeq DEF EventsAtRest, Event, NoEvent
    <3> QED BY <3>1 DEF EventInv, Counted, Somewhere
  <2> QED BY <2>1, <2>2 DEF DeliveredOnce
<1> QED BY <1>1, EventsHold, PTL

\* In whatever order they arrive, the last event has the last word unless one was
\* lost or overtook another.
THEOREM LastEventRules == EventSpec => []LastEventWins
<1>1. EventInv => LastEventWins
  <2> SUFFICES ASSUME EventInv, EventsAtRest, dropped = {}, ~shuffled, events # <<>>
               PROVE  person = StatusAfter[events[Len(events)]]
    BY DEF LastEventWins
  <2>1. Len(events) \in Event /\ Len(events) \in Nat
    BY EmptySeq, LenProperties DEF EventInv, EventTypes, EventTypeOK, Event
  <2>2. \A i \in Event : uses[i] > 0
    <3> SUFFICES ASSUME NEW i \in Event PROVE uses[i] > 0
      OBVIOUS
    <3>1. Len(pubsub) = 0 /\ i # carried /\ i \notin records
      BY EmptySeq DEF EventsAtRest, Event, NoEvent
    <3> QED BY <3>1 DEF EventInv, Counted, Somewhere
  <2>3. PICK m \in Event : Newest(m)
    BY <2>1, <2>2 DEF EventInv, InForce
  <2>4. m = Len(events)
    BY <2>1, <2>2, <2>3 DEF Newest, Event
  <2> QED BY <2>3, <2>4 DEF Newest
<1> QED BY <1>1, EventsHold, PTL

-----------------------------------------------------------------------------
(* Provisioning.                                                           *)

\* While runs come one at a time, what a run that has come so far can rely on.
Alone == \A p, q \in Running : p = q

Reached ==
  \A p \in Script :
    /\ line[p] = "template" => realm = "none"
    /\ line[p] = "organization" => org = NoOrg
    /\ line[p] \in {"delete", "user", "member", "role"} => org = mine[p]
    /\ line[p] \in {"member", "role"} => admin
    /\ line[p] = "role" => orgMember = org

\* And while none has been cut short, what it leaves.
Finished ==
  /\ realm = "bare" => \E p \in Script : line[p] = "scopes"
  /\ \A p \in Script : line[p] \notin {"end", "realm", "template", "scopes"} => realm # "none"
  /\ org # NoOrg => Provisioned \/ \E p \in Script : line[p] \in {"user", "member", "role"}

ProvInv ==
  /\ ProvTypeOK
  /\ ~together => Alone /\ Reached
  /\ ~together /\ ~aborted => Finished

\* Every step of the script keeps the types.
LEMMA ProvTypeStep ==
  ASSUME ProvTypeOK, [ProvNext]_provVars
  PROVE  ProvTypeOK'
<1> USE ProvisioningAssumption DEF ProvTypeOK, keycloakVars, Onto, Exits, NoOrg
<1>1. CASE UNCHANGED provVars
  BY <1>1 DEF provVars
<1>2. ASSUME NEW p \in Script, ScriptStep(p) PROVE ProvTypeOK'
  <2>1. ASSUME NEW forced \in BOOLEAN, Launch(p, forced) PROVE ProvTypeOK'
    BY <2>1 DEF Launch
  <2>2. CASE RealmExists(p) BY <2>2 DEF RealmExists
  <2>3. CASE RealmMissing(p) BY <2>3 DEF RealmMissing
  <2>4. CASE CreateRealm(p) BY <2>4 DEF CreateRealm
  <2>5. CASE ConfigureRealm(p) BY <2>5 DEF ConfigureRealm
  <2>6. CASE OrgExists(p) BY <2>6 DEF OrgExists, Skips
  <2>7. CASE OrgMissing(p) BY <2>7 DEF OrgMissing
  <2>8. CASE DeleteOrg(p) BY <2>8 DEF DeleteOrg
  <2>9. CASE CreateOrg(p) BY <2>9 DEF CreateOrg
  <2>10. CASE CreateAdmin(p) BY <2>10 DEF CreateAdmin
  <2>11. CASE AddMember(p) BY <2>11 DEF AddMember
  <2>12. CASE AssignRole(p) BY <2>12 DEF AssignRole
  <2>13. CASE RunFails(p) BY <2>13 DEF RunFails
  <2> QED BY <1>2, <2>1, <2>2, <2>3, <2>4, <2>5, <2>6, <2>7, <2>8, <2>9, <2>10, <2>11,
             <2>12, <2>13 DEF ScriptStep
<1> QED BY <1>1, <1>2 DEF ProvNext

\* One step of the only run.
LEMMA RunStep ==
  ASSUME ProvInv, NEW p \in Script, ScriptStep(p), ~together'
  PROVE  (Alone /\ Reached)' /\ (~aborted' => Finished')
<1> USE ProvisioningAssumption
    DEF ProvInv, ProvTypeOK, Alone, Running, Reached, Finished, Provisioned, keycloakVars,
        Onto, Exits, NoOrg
<1>1. ASSUME NEW forced \in BOOLEAN, Launch(p, forced)
      PROVE  (Alone /\ Reached)' /\ (~aborted' => Finished')
  <2>1. ~together /\ Running = {}
    BY <1>1, Zenon DEF Launch
  <2>2. \A q \in Script : line[q] = "end"
    BY <2>1
  <2>3. /\ \A q \in Script : line'[q] = IF q = p THEN "realm" ELSE "end"
        /\ UNCHANGED <<keycloakVars, mine, aborted>>
    BY <1>1, <2>2 DEF Launch
  <2> QED BY <2>1, <2>2, <2>3
<1>2. CASE RealmExists(p) BY <1>2 DEF RealmExists
<1>3. CASE RealmMissing(p) BY <1>3 DEF RealmMissing
<1>4. CASE CreateRealm(p) BY <1>4 DEF CreateRealm
<1>5. CASE ConfigureRealm(p) BY <1>5 DEF ConfigureRealm
<1>6. CASE OrgExists(p) BY <1>6 DEF OrgExists, Skips
<1>7. CASE OrgMissing(p) BY <1>7 DEF OrgMissing
<1>8. CASE DeleteOrg(p) BY <1>8 DEF DeleteOrg
<1>9. CASE CreateOrg(p) BY <1>9 DEF CreateOrg
<1>10. CASE CreateAdmin(p) BY <1>10 DEF CreateAdmin
<1>11. CASE AddMember(p) BY <1>11 DEF AddMember
<1>12. CASE AssignRole(p) BY <1>12 DEF AssignRole
<1>13. CASE RunFails(p) BY <1>13 DEF RunFails
<1> QED BY <1>1, <1>2, <1>3, <1>4, <1>5, <1>6, <1>7, <1>8, <1>9, <1>10, <1>11, <1>12, <1>13
        DEF ScriptStep

\* The invariant of provisioning.
LEMMA ProvHolds == ProvSpec => []ProvInv
<1>1. ProvInit => ProvInv
  <2> SUFFICES ASSUME ProvInit PROVE ProvInv
    OBVIOUS
  <2> USE ProvisioningAssumption DEF ProvInit, NoOrg
  <2>1. ProvTypeOK
    <3>1. MaxOrg \in Nat /\ 0 \in 0..MaxOrg
      OBVIOUS
    <3>2. \A p \in Script : mine[p] = NoOrg /\ line[p] = "end"
      OBVIOUS
    <3>3. /\ line \in [Script -> {"end"}] /\ result \in [Script -> {"running"}]
          /\ force \in [Script -> BOOLEAN] /\ mine \in [Script -> 0..MaxOrg]
      BY <3>1
    <3> QED BY <3>1, <3>2, <3>3 DEF ProvTypeOK
  <2>2. Alone /\ Reached /\ Finished
    BY DEF Alone, Running, Reached, Finished
  <2> QED BY <2>1, <2>2 DEF ProvInv
<1>2. ProvInv /\ [ProvNext]_provVars => ProvInv'
  <2> SUFFICES ASSUME ProvInv, [ProvNext]_provVars PROVE ProvInv'
    OBVIOUS
  <2>1. CASE UNCHANGED provVars
    BY <2>1, ProvTypeStep
    DEF provVars, ProvInv, Alone, Running, Reached, Finished, Provisioned
  <2>2. CASE ProvNext
    <3>1. (~together' => (Alone /\ Reached)') /\ (~together' /\ ~aborted' => Finished')
      BY <2>2, RunStep DEF ProvNext
    <3> QED BY <3>1, ProvTypeStep DEF ProvInv
  <2> QED BY <2>1, <2>2
<1> QED BY <1>1, <1>2, PTL DEF ProvSpec

\* As long as runs do not overlap, the script's exit code tells the truth: of
\* success always, of a skipped tenant unless a run was cut short before.
THEOREM SuccessMeansProvisioned == ProvSpec => EndsProvisioned
<1>1. ProvInv /\ [ProvNext]_provVars =>
        [\A p \in Script :
           /\ result'[p] = "success" /\ result[p] # "success" /\ ~together
                => Provisioned' /\ (~aborted => realm' = "configured")
           /\ result'[p] = "skipped" /\ result[p] # "skipped" /\ ~together /\ ~aborted
                => Provisioned]_provVars
  <2> SUFFICES ASSUME ProvInv, ProvNext, NEW p \in Script,
                      result[p] # result'[p], ~together, result'[p] \in {"success", "skipped"}
               PROVE  /\ result'[p] = "success" =>
                           Provisioned' /\ (~aborted => realm' = "configured")
                      /\ result'[p] = "skipped" /\ ~aborted => Provisioned
    OBVIOUS
  <2>1. PICK q \in Script : ScriptStep(q)
    BY DEF ProvNext
  <2>2. (AssignRole(p) /\ result'[p] = "success") \/ (OrgExists(p) /\ result'[p] = "skipped")
    BY <2>1 DEF ScriptStep, Launch, RealmExists, RealmMissing, CreateRealm, ConfigureRealm,
                OrgExists, Skips, OrgMissing, DeleteOrg, CreateOrg, CreateAdmin, AddMember,
                AssignRole, RunFails, keycloakVars, Exits, ProvInv, ProvTypeOK
  <2>3. CASE AssignRole(p) /\ result'[p] = "success"
    BY <2>3 DEF AssignRole, ProvInv, ProvTypeOK, Reached, Finished, Alone, Running,
                Provisioned, NoOrg
  <2>4. CASE OrgExists(p) /\ result'[p] = "skipped"
    BY <2>4 DEF OrgExists, ProvInv, ProvTypeOK, Finished, Alone, Running, Provisioned
  <2> QED BY <2>2, <2>3, <2>4
<1> QED BY <1>1, ProvHolds, PTL DEF ProvSpec, EndsProvisioned
=============================================================================
