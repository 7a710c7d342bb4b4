SPECIFICATION RecoverySpec
CONSTANTS
  Node = {n1}
  TTL = 3
  MaxFaults = 3
  Provider = {p1, p2}
  Tool = {t1}
  Route <- OnePrimary
  Task = {k1, k2}
  FailMax = 2
  Timeout = 1
INVARIANTS CallTypeOK OpenForCause
PROPERTIES
  RoutesFollowNodes KeepsPromise ProvidersHeal
