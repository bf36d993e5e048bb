SPECIFICATION Spec
CONSTANTS
  Nodes <- MCNodes
  Kind <- MCKind
  Units <- MCUnits
  NodeOf <- MCNodeOf
  Answers <- MCAnswers
  Grounded <- MCGrounded
  Base <- MCBase
  Alike <- MCAlike
  Letters <- MCLetters
  Initials <- MCInitials
  Width <- MCWidth
  NoLetters = "none"
  EntityTypes = {"PERSON", "ORG", "LOCATION", "PRODUCT", "CONCEPT", "METRIC", "DATE", "OTHER"}
  NonTopicalTypes = {"DATE"}
  NonTopicalTexts = {"asia"}
  MaxDf <- MCMaxDf
  MinEntityNodes = 3
  MinSharable = 3
  SameTypeCap = 1
  DegreeCap = 1
  BatchSize = 2
  NerThreads = 2
  MaxEntities = 3
  Similarity <- MCSimilarity
  Closeness <- MCCloseness
  Clusterings <- MCClusterings
  Noise = "noise"
  Faint = {}
  Similar = 75
  Contradicting = 85
  CategoryFloor = 35
  Pairs = 3
  PairThreads = 2
  Relations = {"ELABORATES"}
  GroundEdges = TRUE
  Holds <- MCHolds
INVARIANTS
  LinksAreSound
PROPERTIES
  MergingLosesNothing
