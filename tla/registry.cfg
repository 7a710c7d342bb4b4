SPECIFICATION Spec
CONSTANTS
  Node = {n1, n2}
  TTL = 3
  MaxFaults = 1
SYMMETRY Symmetry
INVARIANTS TypeOK LiveNodesKept 
