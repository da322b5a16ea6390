CONSTANTS
  Heartbeat = Heartbeat
  None = None
  Node = {n1,n2,n3}
  Command = {}
  MaxTerm = 1
  MaxStray = 0
  MaxRestarts = 1
SPECIFICATION RestartSpec
SYMMETRY RestartSymmetry
INVARIANT ElectionSafety
CHECK_DEADLOCK FALSE
