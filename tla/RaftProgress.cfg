CONSTANTS
  Heartbeat = Heartbeat
  None = None
  Node = {n1,n2,n3}
  Command = {c1}
  MaxTerm = 1
  MaxStray = 0
  MaxRounds = 2
  MaxPerNode = 1
  First = n1
  Second = n1
SPECIFICATION FairScenarioSpec
PROPERTIES EventuallyApplied
CHECK_DEADLOCK FALSE
