SPECIFICATION Spec
CONSTANTS
  Nodes <- MCNodes
  Edges <- MCEdges
  Similarity <- MCSimilarity
  Backend = "qdrant"
  MultiTenant = FALSE
  MultiLingual = FALSE
  DefaultLanguage = "en"
  SeedLimit = 2
  FulltextLimit = 2
  ScopeLimit = 2
  QuantityLimit = 2
  SiblingLimit = 5
  MergeCap = 3
  RowLimit = 2
  FinalLimit = 3
  SynthesisLimit = 4
  EnumerationLimit = 4
  ExhaustiveLimit = 6
  Documents <- MCDocuments
  Doc <- MCDoc
  ProbeSize = 4
  SimilarityFloor = 420
  CandidateLimit = 2
  FewestDocuments = 2
  GenericPercent = 100
  Threads = {t1, t2}
  Asks <- MCAsks
  Changing = {"d2"}
  Strategy = "graph_rag_vector_first"
  StoreStates = {TRUE, FALSE}
  CacheLimit = 1
  AmbiguousLead = 80
  MaxAsks = 2
  MaxChanges = 1
INVARIANTS
  EvidenceIsOfTheScope
SYMMETRY ThreadSymmetry
CHECK_DEADLOCK FALSE
