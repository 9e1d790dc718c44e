SPECIFICATION MCSpec
CONSTANTS
  Procs = {"p1", "p2"}
  Version = 2
  MaxCalls = 3
  MaxDamage = 2
  MaxFaults = 1
  n1 = n1
  n2 = n2
  Nodes = {n1, n2}
  Clusters = {"default"}
  ClusterSize = 1
  SuspensionTime = 0
  DecayPeriod = 2
  Events <- MCEvents
  StartXP <- MCXP
  MaxNow = 2
  MaxReports = 2
  Conns = {"c1", "c2"}
  Peers = {"p1"}
  MaxSessions = 2
  MaxSequence = 2
  TrustPeers = {"p1"}
  MaxAge = 0
  RateWindow = 0
  RateLimit = 2
  ReattestAfter = 1
  ActiveWithin = 1
  ChallengeTTL = 1
  ReportWindow = 1
  ReportLimit = 2
  MaxPending = 3
  TrustMaxTime = 3
  MaxSequences = 2
  MaxReviews = 2
  MaxChallenges = 2
  Artifact <- MCArtifact
  Uploads = {"u1"}
  Putters = {"k1", "k2"}
  ChunkData <- MCChunkData
  MaxTries = 2
INVARIANTS LockMatchesCalls  DamageCostsOneUpdate MembershipAgrees SessionsAgree  
 
CHECK_DEADLOCK FALSE
