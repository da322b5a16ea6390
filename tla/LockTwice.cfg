CONSTANTS
  Node = {n1}
  Client = {c1,c2}
  Key = {k1}
  None = None
  Vertex = {v1,v2,v3}
  Request = {r1,r2}
  MaxFailovers = 0
  MaxRequests = 4
  MaxFaults = 0
SPECIFICATION SequentialSpec
SYMMETRY Symmetry
INVARIANTS ClientsCompatible
CHECK_DEADLOCK FALSE
