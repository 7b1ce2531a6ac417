SPECIFICATION FairSpec
CONSTANTS
  LdM = 2
  AsmLen = 2
  FrameLen = 3
  Threshold = 2
  Streams = {0, 1}
  StreamLen = 24
  MaxRead = 8
  Word = 64
  MatchSets <- PeriodicMatches
  TagSets <- SomeTags
INVARIANTS
  TypeOK
  FramesWhole
  FrameTimeFromLastTag
PROPERTIES
  WorkReturns
  ScannerSpec
CHECK_DEADLOCK FALSE
