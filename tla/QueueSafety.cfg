CONSTANTS
  Node = {n1,n2}
  Message = {m1,m2}
  Consumer = {w1,w2}
  None = None
  Key = {k1,k2}
  MaxFailovers = 1
  MaxSize = 1
  MaxRequests = 4
  MaxFailures = 0
  KeyOf <- OwnKeys
SPECIFICATION ScenarioSpec
SYMMETRY Symmetry
INVARIANTS TypeOK OnePlace NothingLost ReplicasAgree
PROPERTIES NeverBack ImplementsMailbox
CHECK_DEADLOCK FALSE
