CONSTANTS
  Node = {n1,n2}
  Message = {m1}
  Consumer = {w1}
  None = None
  Key = {k1}
  MaxFailovers = 1
  MaxSize = 1
  MaxRequests = 3
  MaxFailures = 1
  KeyOf <- AllOneKey
SPECIFICATION FairScenarioSpec
PROPERTIES Redelivered
CHECK_DEADLOCK FALSE
