CONSTANTS
    t1 = t1
    t2 = t2
    w1 = w1
    w2 = w2
    None = None
    Tasks <- MCTasks
    Workers <- MCWorkers
    Features <- MCFeatures
    TaskSpec <- MCTaskSpec
    Availability <- FullPoll
    Capabilities <- LargeReport
    LeaseSeconds = 2
    MaxAttempts = 2
    Legacy <- OneLegacy
    MaxSaveFaults = 0
SPECIFICATION FairSpec
PROPERTIES
    EveryTaskRetires
