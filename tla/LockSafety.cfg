CONSTANTS
  Node = {n1,n2}
  Client = {c1,c2}
  Key = {k1}
  None = None
  Vertex = {v1,v2,v3}
  Request = {r1,r2}
  MaxFailovers = 1
  MaxRequests = 3
  MaxFaults = 1
SPECIFICATION ScenarioSpec
SYMMETRY Symmetry
INVARIANTS TypeOK HoldersCompatible GrantsKept NoGhostWaiter HasCycleRight
PROPERTIES LocksGuarded DeadlocksBroken
CHECK_DEADLOCK FALSE
