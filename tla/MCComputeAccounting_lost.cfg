CONSTANTS
    t1 = t1
    t2 = t2
    w1 = w1
    c1 = c1
    c2 = c2
    None = None
    Tasks <- MCTasks
    Workers <- OneWorker
    Connections <- MCConnections
    Features = {}
    TaskSpec <- MCTaskSpec
    Availability <- Poll
    Capabilities <- Report
    LeaseSeconds = 1
    MaxAttempts = 2
    Legacy = {}
    MaxSaveFaults = 0
SPECIFICATION AccountingSpec
INVARIANTS
    AcknowledgedIsDurable
