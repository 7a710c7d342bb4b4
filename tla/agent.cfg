SPECIFICATION LoopSpec
CONSTANTS
  Destructive = {"create_schedule"}
  Plain = {}
  MaxBatch = 3
  MaxIter = 2
  MaxRetries = 1
  Budget = 2
  Costs = {1, 3}
  MaxRequests = 2
CHECK_DEADLOCK FALSE
INVARIANTS TypeOK SearchesBounded ActionsConfirmed BudgetStops 
PROPERTIES Returns
