SPECIFICATION Spec
CONSTANTS
  w1 = w1 w2 = w2 l1 = l1 l2 = l2
  Worker = {w1, w2}
  Lookup = {l1, l2}
  Home <- Apart
  RedisTtl = 2
  LocalTtl = 1
  MaxVersion = 1
  SyncOnly = TRUE
INVARIANTS ReloadInvalidates
