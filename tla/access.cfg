SPECIFICATION Spec
CONSTANTS
  g1 = g1 g2 = g2 l1st = l1st l2nd = l2nd
  Request = {q1, q2}
  Role = {a1, a2}
  MinuteLimit = 1
  HourLimit = 1
  HourLength = 2
  LastMinute = 1
  Gateway = {g1, g2}
  Resolve = {l1st, l2nd}
  NodeOf <- Apart
  L1Life = 1
  L2Life = 2
  MaxChange = 2
SYMMETRY Symmetry
INVARIANTS TypesOK BlacklistedStopped  GrantsBounded
