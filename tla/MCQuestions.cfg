SPECIFICATION Spec
CONSTANTS
    r1 = r1
    r2 = r2
    old = old
    new = new
    idle1 = idle1
    idle2 = idle2
    idle3 = idle3
    worker1 = worker1
    worker2 = worker2
    Requests <- MCRequests
    Threads <- MCThreads
    OpenThreads <- MCOpenThreads
    Idle <- MCIdle
    MaxThreads = 4
    Profiles <- MCProfiles
    PoolThreads <- MCPoolThreads
    NoWorker = NoWorker
    HybridWorkers = 2
    MaxClears = 1
    MaxFaults = 1
INVARIANTS
    AnswersComeFromTheChosenSource
    PermittedSourcesOnly
    TelemetryIsOwnOrOfFailures
    MemoryIsBounded
    StreamsEndInOneDone
PROPERTIES
    ResolvedTurnsAreKept
SYMMETRY MCSymmetry
