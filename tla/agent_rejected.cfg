SPECIFICATION Spec
CONSTANTS
  Destructive = {"create_schedule"}
  Plain = {}
  MaxBatch = 1
  MaxIter = 2
  MaxRetries = 2
  Budget = 2
  Costs = {1, 3}
  MaxRequests = 2
CHECK_DEADLOCK FALSE
INVARIANTS RejectedNeverServed
