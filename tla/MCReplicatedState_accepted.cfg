CONSTANTS
  n1 = n1
  n2 = n2
  t1 = t1
  Nodes <- MCNodes
  Tasks <- MCTasks
  Peers <- MCPeers
  Skew <- MCSkew
  MaxAttempts = 2
  MaxOperations = 20
  MaxMessages = 3
  MaxFaults = 0
SPECIFICATION ClusterSpec
INVARIANT AcceptedTaskIsKept
CHECK_DEADLOCK TRUE
