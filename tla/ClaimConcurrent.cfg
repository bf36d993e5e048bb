SPECIFICATION Spec
CONSTANTS
    j1 = j1
    j2 = j2
    j3 = j3
    t1 = t1
    t2 = t2
    d1 = d1
    d2 = d2
    c1 = c1
    c2 = c2
    c3 = c3
    None = None
    Orphaned = Orphaned
    Jobs <- TwoJobs
    Tenants <- OneTenant
    Docs <- OneDoc
    Contents <- TwoContents
    MaxVersion = 3
    MaxFaults = 0
    MaxRetries = 2
    UseRedis = TRUE
    SkipDuplicateHash = TRUE
INVARIANTS
    ConcurrentUploadsAreFine
CHECK_DEADLOCK FALSE
