SPECIFICATION FairSpec
CONSTANTS
    f1 = f1
    f2 = f2
    f3 = f3
    f4 = f4
    c1 = c1
    c2 = c2
    stem1 = stem1
    stem2 = stem2
    schema = schema
    create = create
    JobIds <- MCJobIds
    NoJob = NoJob
    NoContent = NoContent
    IndexMax = 3
    Uploads <- MCUploads
    Corpora <- MCCorpora
    Scripts <- MCScripts
    SchemaStatements <- MCSchemaStatements
    Insane <- MCInsane
    Stem <- MCStem
    Content <- MCContent
    CorpusMaxFiles = 3
    SaveEvery = 2
    MaxRetries = 1
    MaxRequests = 2
    MaxFaults = 1
INVARIANTS
    SourceFilesKept
    ChildrenAreNamed
    CompletedJobsAreDone
    ListingIsRecent
PROPERTIES
    JobsComeToRest
CHECK_DEADLOCK FALSE
