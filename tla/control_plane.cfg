SPECIFICATION ControlSpec
CONSTANTS
  Req = {r1, r2}
  Life = 3
  RealmIsTenant = TRUE
  Tenant = {t1, t2}
  MaxVersion = 2
  MaxSyncFaults = 1
  MaxDeaths = 1
  Token = {j1, j2}
  TokenLife = 4
  Second = 2
  MaxKafkaFaults = 1
  MaxCrashes = 1
  Background = {"agent"}
  MaxWanted = 3
  MaxTries = 2
  MaxLosses = 2
  MaxEvents = 3
  MaxTroubles = 2
  Invite = {i1, i2, i3}
  Script = {p1, p2, p3}
  MaxOrg = 3
INVARIANTS
  TypesOK SuspensionAgreed  RevocationsHold
  DeliveredOnce LastEventWins InvitationsAccounted
PROPERTIES
  SuspensionSticks Converges   EndsProvisioned
CHECK_DEADLOCK FALSE
