CONSTANTS
  Node = {n1,n2}
  LfuNode = {n2}
  Key = {k1,k2,k3}
  MaxFailovers = 1
  MaxSize = 2
  MaxRequests = 4
SPECIFICATION ScenarioSpec
SYMMETRY Symmetry
INVARIANTS TypeOK NoStaleHit
PROPERTIES ImplementsMonotoneReads
CHECK_DEADLOCK FALSE
