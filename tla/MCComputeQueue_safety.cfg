CONSTANTS
    t1 = t1
    t2 = t2
    w1 = w1
    w2 = w2
    None = None
    Tasks <- MCTasks
    Workers <- MCWorkers
    Features <- MCFeatures
    TaskSpec <- MCTaskSpec
    Availability <- FullPoll
    Capabilities <- BothReports
    LeaseSeconds = 2
    MaxAttempts = 2
    Legacy <- OneLegacy
    MaxSaveFaults = 1
SPECIFICATION Spec
SYMMETRY WorkerSymmetry
INVARIANTS
    TypeOK
    OnePlace
    GrantsBounded
    AcknowledgedIsDurable
    NewestLeaseAnswers
    CrashLosesNothing
PROPERTIES
    ReservationsFit
    ImplementsLifecycle
