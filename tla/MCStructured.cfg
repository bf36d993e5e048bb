SPECIFICATION FairSpec
CONSTANTS
    r1 = r1
    r2 = r2
    Requests <- MCRequests
    Asked <- MCAsked
    Graphs <- MCGraphs
    Generated <- MCGenerated
    Plans <- MCPlans
    Exempt <- MCExempt
    NoQuery = NoQuery
    NoQuestion = NoQuestion
    None = None
    Unlabelled = Unlabelled
    MultiTenancy = TRUE
    MaxAttempts = 2
    SqlRetries = 1
    EmptyRetries = 1
    StepAttempts = 2
    EmptyFallback = TRUE
    VerifyEnabled = TRUE
    MaxFaults = 1
INVARIANTS
    ExecutedQueriesAreScoped
    CacheForgetsOldGraph
PROPERTIES
    StructuredQuestionsEnd
CHECK_DEADLOCK FALSE
