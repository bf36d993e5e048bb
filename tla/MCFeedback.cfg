SPECIFICATION FairSpec
CONSTANTS
    p1 = p1
    p2 = p2
    Processes <- MCProcesses
    Routers <- MCRouters
    Policies <- MCPolicies
    Votes <- MCVotes
    Answered <- MCAnswered
    Order <- MCOrder
    None = None
    MinSamples = 1
    MinMargin = 15
    CacheTicks = 1
    DayTicks = 1
    RetainDays = 1
    MaxTicks = 1
    MaxLabels = 2
    MaxFaults = 1
INVARIANTS
    LabelsAreAccountedFor
    HintsAreNoOlderThanTheySay
PROPERTIES
    QueuesDrain
CHECK_DEADLOCK FALSE
