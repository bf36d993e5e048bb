SPECIFICATION Spec
CONSTANTS
  UsePdfplumber = TRUE
  UseOcr = TRUE
  LowTextChars = 2
  MaxBlocks = 4
  Documents <- MCDocuments
INVARIANTS
  SectionsReadLikeTheDocument
  SectionsAreFoundUnderTheirNumber
  ChaptersFollowOneAnother
CHECK_DEADLOCK FALSE
