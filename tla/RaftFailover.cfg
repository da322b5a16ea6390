CONSTANTS
  Heartbeat = Heartbeat
  None = None
  Node = {n1,n2,n3}
  Command = {c1,c2}
  MaxTerm = 2
  MaxStray = 0
  MaxRounds = 1
  MaxPerNode = 1
  First = n1
  Second = n2
SPECIFICATION ScenarioSpec
SYMMETRY ScenarioSymmetry
INVARIANTS LogMatching LeaderCanSend

CHECK_DEADLOCK FALSE
