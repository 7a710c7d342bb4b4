SPECIFICATION CostSpec
CONSTANTS
  Prompt = {r1, r2}
  Kind = {"complete", "embed"}
  Limit = 1
  AlertAt = 1
  CostLife = 1
  MaxLogged = 2
  MaxDelay = 1
SYMMETRY Symmetry
INVARIANTS CostTypeOK AlertRaised
 
