CONSTANTS
  n1 = n1
  n2 = n2
  t1 = t1
  Nodes <- MCNodes
  Tasks <- MCTasks
  Peers <- MCPeers
  Skew <- MCSkew
  MaxAttempts = 2
  MaxOperations = 20
  MaxMessages = 3
  MaxFaults = 1
SPECIFICATION ClusterSpec
 
PROPERTY ClusterConverges
CHECK_DEADLOCK TRUE
