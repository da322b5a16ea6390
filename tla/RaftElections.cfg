CONSTANTS
  Heartbeat = Heartbeat
  None = None
  Node = {n1,n2,n3}
  Command = {}
  MaxTerm = 2
  MaxStray = 0
  MaxRounds = 9
  MaxPerNode = 2
  First = n1
  Second = n1
SPECIFICATION Spec
SYMMETRY Symmetry
INVARIANTS TypeOK ElectionSafety VoteCastOnce LeaderHintWon
PROPERTIES ImplementsElections
CHECK_DEADLOCK FALSE
