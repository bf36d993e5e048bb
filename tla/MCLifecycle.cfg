SPECIFICATION LifecycleSpec
CONSTANTS
    j1 = j1
    j2 = j2
    t1 = t1
    t2 = t2
    d1 = d1
    c1 = c1
    c2 = c2
    None = None
    Orphaned = Orphaned
    Jobs <- TwoJobs
    Tenants <- OneTenant
    Docs <- OneDoc
    Contents <- TwoContents
    MaxVersion = 3
    MaxFaults = 1
    MaxRetries = 2
    UseRedis = FALSE
    SkipDuplicateHash = TRUE
    MaxDeletes = 1
    MaxSweeps = 1
SYMMETRY JobSymmetry
INVARIANTS
    OneActiveUnlessRaced
    ContentFollowsStatus
PROPERTIES
    SweepReclaimsUnknown
    DeleteLeavesNoTrace
    SweepSparesActive
CHECK_DEADLOCK FALSE
