SPECIFICATION CompletionSpec
CONSTANTS
  w1 = w1 w2 = w2 l1 = l1 l2 = l2
  Worker = {w1, w2}
  Lookup = {l1, l2}
  Home <- Apart
  RedisTtl = 3
  LocalTtl = 2
  MaxVersion = 2
  SyncOnly = FALSE
  McpCall = {m1, m2}
  Conn = {s1, s2, s3}
  CopyLife = 2
  MaxListing = 2
  MaxHiccups = 2
SYMMETRY Symmetry
INVARIANTS TypesOK AgesBounded RemovedServerRefused 
