SPECIFICATION FairSpec
CONSTANTS
    j1 = j1
    j2 = j2
    j3 = j3
    t1 = t1
    t2 = t2
    d1 = d1
    d2 = d2
    c1 = c1
    c2 = c2
    None = None
    Orphaned = Orphaned
    Jobs <- TwoJobs
    Tenants <- OneTenant
    Docs <- TwoDocs
    Contents <- TwoContents
    MaxVersion = 4
    MaxFaults = 1
    MaxRetries = 2
    UseRedis = TRUE
    SkipDuplicateHash = TRUE
INVARIANTS
    VersionsContiguous
    ActiveIsStored
    SuccessIsInstalled
    SupersededSourceGone
    InstallInvariant
PROPERTIES
    RevisionsImmutable
    ImplementsHistory
    EveryJobEnds
CHECK_DEADLOCK FALSE
