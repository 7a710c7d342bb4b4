----------------------- MODULE ServiceRegistryProofs -----------------------
(***************************************************************************)
(* Proofs about ServiceRegistry, for every set of nodes, every key         *)
(* lifetime and every number of faults, and for both registry clients.     *)
(*                                                                         *)
(* None of the properties is inductive.  Each gets a strengthening:        *)
(* LeaseInv accounts for the periods a key has lost, CycleInv for where    *)
(* the daemon keeps the steady nodes during a cycle, TargetInv for what it *)
(* still has to add and to remove, GoodbyeInv for what a node has already  *)
(* removed while it shuts down.                                            *)
(***************************************************************************)
EXTENDS MCRecovery, TLAPS

LateBeat(n) == IF beat[n] = "due" THEN 1 ELSE 0

LeaseInv ==
  \A n \in Node :
    IF Beating(n) THEN ttl[n] + missed[n] + LateBeat(n) >= TTL
                  ELSE missed[n] = TTL /\ beat[n] = "rest"

CycleInv ==
  /\ \A n \in steady : Healthy(n)
  /\ dpc # "apply" => toRemove = {}
  /\ dpc # "exists" => doomed = {}
  /\ dpc = "exists" => /\ steady \subseteq todo \union active \union blind
                       /\ doomed \intersect steady \subseteq blind
  /\ dpc = "apply" => toRemove \intersect steady \subseteq blind

TargetInv ==
  /\ dpc = "apply" => steady \subseteq active \union blind
  /\ faults = 0 =>
       /\ blind = {}
       /\ dpc = "apply" => toAdd = active \ kong /\ toRemove = kong \ active

GoodbyeInv ==
  ~Nest => \A n \in Node :
    /\ proc[n] = "unleasing" => n \notin members
    /\ proc[n] = "stopped" /\ faults = 0 => n \notin members /\ ttl[n] = 0

\* Every variable stays in its type, whatever fails.
THEOREM TypeCorrect == Spec => []TypeOK
<1>1. Init => TypeOK
  BY RegistryAssumption DEF Init, TypeOK
<1>2. TypeOK /\ [Next]_vars => TypeOK'
  <2> SUFFICES ASSUME TypeOK, [Next]_vars PROVE TypeOK'
    OBVIOUS
  <2> USE RegistryAssumption DEF TypeOK
  <2>1. CASE Tick /\ TrackSteady
    BY <2>1 DEF Tick, TrackSteady, Age, Beating, daemon
  <2>2. CASE DaemonStep /\ TrackSteady
    <3> USE <2>2 DEF TrackSteady, Ok, Fault, procVars, redis, plan
    <3>1. CASE StartCycle BY <3>1 DEF StartCycle
    <3>2. CASE SweepMember BY <3>2 DEF SweepMember
    <3>3. CASE FetchTargets BY <3>3 DEF FetchTargets
    <3>4. CASE EndCycle BY <3>4 DEF EndCycle
    <3>5. CASE DaemonRestart BY <3>5 DEF DaemonRestart
    <3>6. ASSUME NEW m \in Node, CheckMember(m) PROVE TypeOK'
      BY <3>6 DEF CheckMember
    <3>7. ASSUME NEW m \in Node, AddTarget(m) PROVE TypeOK'
      BY <3>7 DEF AddTarget
    <3>8. ASSUME NEW m \in Node, RemoveTarget(m) PROVE TypeOK'
      BY <3>8 DEF RemoveTarget
    <3> QED BY <3>1, <3>2, <3>3, <3>4, <3>5, <3>6, <3>7, <3>8 DEF DaemonStep
  <2>3. ASSUME NEW n \in Node, NodeStep(n), TrackSteady PROVE TypeOK'
    <3> USE <2>3 DEF TrackSteady, Ok, Fault, redis, daemon, Lease
    <3>1. CASE Start(n) BY <3>1 DEF Start
    <3>2. CASE Shutdown(n) BY <3>2 DEF Shutdown
    <3>3. CASE Crash(n) BY <3>3 DEF Crash
    <3>4. CASE RegisterSadd(n) BY <3>4 DEF RegisterSadd
    <3>5. CASE RegisterSetex(n) BY <3>5 DEF RegisterSetex
    <3>6. CASE HeartbeatSetex(n) BY <3>6 DEF HeartbeatSetex
    <3>7. CASE HeartbeatSadd(n) BY <3>7 DEF HeartbeatSadd
    <3>8. CASE DeregisterSrem(n) BY <3>8 DEF DeregisterSrem
    <3>9. CASE DeregisterDel(n) BY <3>9 DEF DeregisterDel
    <3> QED BY <3>1, <3>2, <3>3, <3>4, <3>5, <3>6, <3>7, <3>8, <3>9 DEF NodeStep
  <2>4. CASE UNCHANGED vars
    BY <2>4 DEF vars
  <2> QED BY <2>1, <2>2, <2>3, <2>4 DEF Next
<1> QED BY <1>1, <1>2, PTL DEF Spec

\* A key loses one unit per period and a running loop wins it back or counts it
\* as missed.
LEMMA LeaseStep == TypeOK /\ LeaseInv /\ [Next]_vars => LeaseInv'
<1> SUFFICES ASSUME TypeOK, LeaseInv, [Next]_vars PROVE LeaseInv'
  OBVIOUS
<1> USE RegistryAssumption DEF TypeOK, LeaseInv, Beating, LateBeat, Nest
<1>1. CASE Tick /\ TrackSteady
  BY <1>1 DEF Tick, TrackSteady, Age, daemon
<1>2. CASE DaemonStep /\ TrackSteady
  <2> USE <1>2 DEF TrackSteady, Ok, Fault, procVars, redis, plan, KeyAlive
  <2>1. CASE StartCycle BY <2>1 DEF StartCycle
  <2>2. CASE SweepMember BY <2>2 DEF SweepMember
  <2>3. CASE FetchTargets BY <2>3 DEF FetchTargets
  <2>4. CASE EndCycle BY <2>4 DEF EndCycle
  <2>5. CASE DaemonRestart BY <2>5 DEF DaemonRestart
  <2>6. ASSUME NEW m \in Node, CheckMember(m) PROVE LeaseInv'
      BY <2>6 DEF CheckMember
  <2>7. ASSUME NEW m \in Node, AddTarget(m) PROVE LeaseInv'
      BY <2>7 DEF AddTarget
  <2>8. ASSUME NEW m \in Node, RemoveTarget(m) PROVE LeaseInv'
      BY <2>8 DEF RemoveTarget
  <2> QED BY <2>1, <2>2, <2>3, <2>4, <2>5, <2>6, <2>7, <2>8 DEF DaemonStep
<1>3. ASSUME NEW n \in Node, NodeStep(n), TrackSteady PROVE LeaseInv'
  <2> USE <1>3 DEF TrackSteady, Ok, Fault, redis, daemon, Lease, Gone
  <2>1. CASE Start(n) BY <2>1 DEF Start
  <2>2. CASE Shutdown(n) BY <2>2 DEF Shutdown
  <2>3. CASE Crash(n) BY <2>3 DEF Crash
  <2>4. CASE RegisterSadd(n) BY <2>4 DEF RegisterSadd
  <2>5. CASE RegisterSetex(n) BY <2>5 DEF RegisterSetex
  <2>6. CASE HeartbeatSetex(n) BY <2>6 DEF HeartbeatSetex
  <2>7. CASE HeartbeatSadd(n) BY <2>7 DEF HeartbeatSadd
  <2>8. CASE DeregisterSrem(n) BY <2>8 DEF DeregisterSrem
  <2>9. CASE DeregisterDel(n) BY <2>9 DEF DeregisterDel
  <2> QED BY <2>1, <2>2, <2>3, <2>4, <2>5, <2>6, <2>7, <2>8, <2>9 DEF NodeStep
<1>4. CASE UNCHANGED vars
  BY <1>4 DEF vars
<1> QED BY <1>1, <1>2, <1>3, <1>4 DEF Next

\* During a cycle a steady node is unchecked, found active, or its EXISTS failed.
LEMMA CycleStep == TypeOK /\ CycleInv /\ [Next]_vars => CycleInv'
<1> SUFFICES ASSUME TypeOK, CycleInv, [Next]_vars PROVE CycleInv'
  OBVIOUS
<1> USE RegistryAssumption DEF TypeOK, CycleInv, Beating, Healthy, TrackSteady, Nest
<1>1. CASE Tick /\ TrackSteady
  BY <1>1 DEF Tick, Age, daemon
<1>2. CASE DaemonStep /\ TrackSteady
  <2> USE <1>2 DEF TrackSteady, Ok, Fault, procVars, redis, plan, KeyAlive
  <2>1. CASE StartCycle BY <2>1 DEF StartCycle
  <2>2. CASE SweepMember BY <2>2 DEF SweepMember
  <2>3. CASE FetchTargets BY <2>3 DEF FetchTargets
  <2>4. CASE EndCycle BY <2>4 DEF EndCycle
  <2>5. CASE DaemonRestart BY <2>5 DEF DaemonRestart
  <2>6. ASSUME NEW m \in Node, CheckMember(m) PROVE CycleInv'
      BY <2>6 DEF CheckMember
  <2>7. ASSUME NEW m \in Node, AddTarget(m) PROVE CycleInv'
      BY <2>7 DEF AddTarget
  <2>8. ASSUME NEW m \in Node, RemoveTarget(m) PROVE CycleInv'
      BY <2>8 DEF RemoveTarget
  <2> QED BY <2>1, <2>2, <2>3, <2>4, <2>5, <2>6, <2>7, <2>8 DEF DaemonStep
<1>3. ASSUME NEW n \in Node, NodeStep(n), TrackSteady PROVE CycleInv'
  <2> USE <1>3 DEF TrackSteady, Ok, Fault, redis, daemon, Lease, Gone
  <2>1. CASE Start(n) BY <2>1 DEF Start
  <2>2. CASE Shutdown(n) BY <2>2 DEF Shutdown
  <2>3. CASE Crash(n) BY <2>3 DEF Crash
  <2>4. CASE RegisterSadd(n) BY <2>4 DEF RegisterSadd
  <2>5. CASE RegisterSetex(n) BY <2>5 DEF RegisterSetex
  <2>6. CASE HeartbeatSetex(n) BY <2>6 DEF HeartbeatSetex
  <2>7. CASE HeartbeatSadd(n) BY <2>7 DEF HeartbeatSadd
  <2>8. CASE DeregisterSrem(n) BY <2>8 DEF DeregisterSrem
  <2>9. CASE DeregisterDel(n) BY <2>9 DEF DeregisterDel
  <2> QED BY <2>1, <2>2, <2>3, <2>4, <2>5, <2>6, <2>7, <2>8, <2>9 DEF NodeStep
<1>4. CASE UNCHANGED vars
  BY <1>4 DEF vars
<1> QED BY <1>1, <1>2, <1>3, <1>4 DEF Next

\* Until a call fails, what is left to add and to remove is all that tells Kong's
\* targets from the nodes found alive.
LEMMA TargetStep == TypeOK /\ CycleInv /\ TargetInv /\ [Next]_vars => TargetInv'
<1> SUFFICES ASSUME TypeOK, CycleInv, TargetInv, [Next]_vars PROVE TargetInv'
  OBVIOUS
<1>f. /\ faults \in Nat /\ (Fault => faults' # 0)
      /\ \A n \in Node : NodeStep(n) => faults' = faults \/ faults' # 0
  <2>1. faults \in Nat /\ (Fault => faults' # 0)
    BY RegistryAssumption DEF TypeOK, Fault
  <2> QED
    BY <2>1 DEF NodeStep, Start, Shutdown, Crash, RegisterSadd, RegisterSetex, HeartbeatSetex,
            HeartbeatSadd, DeregisterSrem, DeregisterDel, Ok
<1>1. CASE UNCHANGED vars
  BY <1>1 DEF vars, TargetInv
<1>2. CASE (Tick \/ \E n \in Node : NodeStep(n)) /\ TrackSteady
  <2>1. UNCHANGED <<kong, dpc, todo, active, doomed, toAdd, toRemove, blind>>
    BY <1>2 DEF Tick, NodeStep, Start, Shutdown, Crash, RegisterSadd, RegisterSetex,
           HeartbeatSetex, HeartbeatSadd, DeregisterSrem, DeregisterDel, daemon
  <2>2. faults' = faults \/ faults' # 0
    BY <1>f, <1>2 DEF Tick
  <2>3. steady' \subseteq steady
    BY <1>2, <2>1 DEF TrackSteady
  <2> QED BY <2>1, <2>2, <2>3 DEF TargetInv
<1>3. CASE DaemonStep /\ TrackSteady
  <2>1. dpc' # "exists" \/ dpc = "exists" => steady' \subseteq steady
    BY <1>3 DEF TrackSteady
  <2> USE <1>f DEF TargetInv, Ok, procVars, redis, plan
  <2>2. CASE StartCycle
    BY <2>2 DEF StartCycle
  <2>3. CASE SweepMember
    BY <2>1, <2>3 DEF SweepMember, CycleInv
  <2>4. CASE FetchTargets
    BY <2>1, <2>4 DEF FetchTargets, CycleInv
  <2>5. CASE EndCycle BY <2>5 DEF EndCycle
  <2>6. CASE DaemonRestart BY <2>6 DEF DaemonRestart
  <2>7. ASSUME NEW m \in Node, CheckMember(m) PROVE TargetInv'
    BY <2>7 DEF CheckMember
  <2>8. ASSUME NEW m \in Node, AddTarget(m) PROVE TargetInv'
    <3>1. dpc = "apply" /\ m \in toAdd /\ toAdd' = toAdd \ {m}
          /\ UNCHANGED <<dpc, active, toRemove, blind>>
      BY <2>8 DEF AddTarget
    <3>2. (faults' = faults /\ kong' = kong \union {m}) \/ faults' # 0
      BY <2>8 DEF AddTarget
    <3>3. steady' \subseteq active' \union blind'
      BY <2>1, <3>1
    <3> QED BY <3>1, <3>2, <3>3
  <2>9. ASSUME NEW m \in Node, RemoveTarget(m) PROVE TargetInv'
    <3>1. dpc = "apply" /\ m \in toRemove /\ toRemove' = toRemove \ {m}
          /\ UNCHANGED <<dpc, active, toAdd, blind>>
      BY <2>9 DEF RemoveTarget
    <3>2. (faults' = faults /\ kong' = kong \ {m}) \/ faults' # 0
      BY <2>9 DEF RemoveTarget
    <3>3. steady' \subseteq active' \union blind'
      BY <2>1, <3>1
    <3> QED BY <3>1, <3>2, <3>3
  <2> QED BY <1>3, <2>2, <2>3, <2>4, <2>5, <2>6, <2>7, <2>8, <2>9 DEF DaemonStep
<1> QED BY <1>1, <1>2, <1>3 DEF Next

\* Nobody writes for a node that has begun to say goodbye.
LEMMA GoodbyeStep == TypeOK /\ LeaseInv /\ GoodbyeInv /\ [Next]_vars => GoodbyeInv'
<1> SUFFICES ASSUME TypeOK, LeaseInv, GoodbyeInv, [Next]_vars PROVE GoodbyeInv'
  OBVIOUS
<1> USE RegistryAssumption DEF TypeOK, LeaseInv, GoodbyeInv, Beating, Nest
<1>1. CASE Tick /\ TrackSteady
  BY <1>1 DEF Tick, TrackSteady, Age, daemon
<1>2. CASE DaemonStep /\ TrackSteady
  <2> USE <1>2 DEF TrackSteady, Ok, Fault, procVars, redis, plan, KeyAlive
  <2>1. CASE StartCycle BY <2>1 DEF StartCycle
  <2>2. CASE SweepMember BY <2>2 DEF SweepMember
  <2>3. CASE FetchTargets BY <2>3 DEF FetchTargets
  <2>4. CASE EndCycle BY <2>4 DEF EndCycle
  <2>5. CASE DaemonRestart BY <2>5 DEF DaemonRestart
  <2>6. ASSUME NEW m \in Node, CheckMember(m) PROVE GoodbyeInv'
      BY <2>6 DEF CheckMember
  <2>7. ASSUME NEW m \in Node, AddTarget(m) PROVE GoodbyeInv'
      BY <2>7 DEF AddTarget
  <2>8. ASSUME NEW m \in Node, RemoveTarget(m) PROVE GoodbyeInv'
      BY <2>8 DEF RemoveTarget
  <2> QED BY <2>1, <2>2, <2>3, <2>4, <2>5, <2>6, <2>7, <2>8 DEF DaemonStep
<1>3. ASSUME NEW n \in Node, NodeStep(n), TrackSteady PROVE GoodbyeInv'
  <2> USE <1>3 DEF TrackSteady, Ok, Fault, redis, daemon, Lease, Gone
  <2>1. CASE Start(n) BY <2>1 DEF Start
  <2>2. CASE Shutdown(n) BY <2>2 DEF Shutdown
  <2>3. CASE Crash(n) BY <2>3 DEF Crash
  <2>4. CASE RegisterSadd(n) BY <2>4 DEF RegisterSadd
  <2>5. CASE RegisterSetex(n) BY <2>5 DEF RegisterSetex
  <2>6. CASE HeartbeatSetex(n) BY <2>6 DEF HeartbeatSetex
  <2>7. CASE HeartbeatSadd(n) BY <2>7 DEF HeartbeatSadd
  <2>8. CASE DeregisterSrem(n) BY <2>8 DEF DeregisterSrem
  <2>9. CASE DeregisterDel(n) BY <2>9 DEF DeregisterDel
  <2> QED BY <2>1, <2>2, <2>3, <2>4, <2>5, <2>6, <2>7, <2>8, <2>9 DEF NodeStep
<1>4. CASE UNCHANGED vars
  BY <1>4 DEF vars
<1> QED BY <1>1, <1>2, <1>3, <1>4 DEF Next

-----------------------------------------------------------------------------
\* The strengthening holds throughout.
LEMMA Strengthening == Spec => [](LeaseInv /\ CycleInv /\ TargetInv /\ GoodbyeInv)
<1>1. Init => LeaseInv /\ CycleInv /\ TargetInv /\ GoodbyeInv
  BY RegistryAssumption
  DEF Init, LeaseInv, CycleInv, TargetInv, GoodbyeInv, Beating, LateBeat, Nest
<1>2. TypeOK /\ (LeaseInv /\ CycleInv /\ TargetInv /\ GoodbyeInv) /\ [Next]_vars
        => (LeaseInv /\ CycleInv /\ TargetInv /\ GoodbyeInv)'
  BY LeaseStep, CycleStep, TargetStep, GoodbyeStep
<1> QED BY <1>1, <1>2, TypeCorrect, PTL DEF Spec

\* A running heartbeat loop keeps its key alive through TTL - 2 consecutive
\* failures, for every key lifetime.
THEOREM LeaseHeld == Spec => []NoPrematureExpiry
<1>1. TypeOK /\ LeaseInv => NoPrematureExpiry
  BY RegistryAssumption DEF TypeOK, LeaseInv, NoPrematureExpiry, LateBeat
<1> QED BY <1>1, TypeCorrect, Strengthening, PTL

\* The daemon never deletes the target of a node that was registered and alive
\* throughout its cycle, unless it could not read that node's key.
THEOREM StableKept == Spec => []StableTargetsKept
<1>1. CycleInv => StableTargetsKept
  BY DEF CycleInv, StableTargetsKept
<1> QED BY <1>1, Strengthening, PTL

\* A cycle without failures leaves in Kong the nodes it found alive, and so every
\* node that was there throughout.
THEOREM TargetsFollow == Spec => []TargetsUpToDate
<1>1. TargetInv => TargetsUpToDate
  <2> SUFFICES ASSUME TargetInv, faults = 0, dpc = "apply", toAdd = {}, toRemove = {}
               PROVE  kong = active /\ steady \subseteq kong
    BY DEF TargetsUpToDate
  <2>1. kong = active
    BY DEF TargetInv
  <2> QED BY <2>1 DEF TargetInv
<1> QED BY <1>1, Strengthening, PTL

\* With ai-core's client, a shutdown without failures leaves nothing in Redis.
THEOREM GoodbyeClean == Spec => []CleanShutdown
<1>1. GoodbyeInv => CleanShutdown
  BY DEF GoodbyeInv, CleanShutdown
<1> QED BY <1>1, Strengthening, PTL

\* A node that runs keeps its key through missed heartbeats and its target through
\* the daemon's cycles, which bring the targets up to date, whichever client it has.
THEOREM NodesKept == Spec => []LiveNodesKept
<1>1. NoPrematureExpiry /\ StableTargetsKept /\ TargetsUpToDate => LiveNodesKept
  BY DEF LiveNodesKept
<1> QED BY <1>1, LeaseHeld, StableKept, TargetsFollow, PTL

-----------------------------------------------------------------------------
(* The registry beside the calls of the recovery run.                      *)

\* There the registry behaves as it does alone: where nodes come and go for ever,
\* a live one keeps its key and its target, and a clean shutdown leaves nothing.
THEOREM RegistryRecovers == RecoverySpec => [](TypeOK /\ LiveNodesKept /\ CleanShutdown)
<1>1. RecoveryInit => Init
  BY DEF RecoveryInit
<1>2. [RecoveryNext]_<<vars, callVars, part>> => [Next]_vars
  BY DEF RecoveryNext, In
<1>3. RecoverySpec => Spec
  BY <1>1, <1>2, PTL DEF RecoverySpec, Spec
<1> QED BY <1>3, TypeCorrect, NodesKept, GoodbyeClean, PTL
=============================================================================
