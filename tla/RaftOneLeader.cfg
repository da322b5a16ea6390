CONSTANTS
  Heartbeat = Heartbeat
  None = None
  Node = {n1,n2,n3}
  Command = {c1,c2}
  MaxTerm = 1
  MaxStray = 0
  MaxRounds = 2
  MaxPerNode = 2
  First = n1
  Second = n1
SPECIFICATION ScenarioSpec
SYMMETRY ScenarioSymmetry
INVARIANTS StateMachineSafety AppliedIsLogPrefix CommittedByMajority
PROPERTIES ImplementsReplicatedLog ImplementsCommittedLog
CHECK_DEADLOCK FALSE
