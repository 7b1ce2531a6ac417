SPECIFICATION Spec
CONSTANTS
  LdM = 2
  AsmLen = 2
  FrameLen = 3
  Threshold = 2
  Streams = {0, 1}
  StreamLen = 24
  MaxRead = 8
  Word = 64
  MatchSets <- PeriodicMatches
  TagSets <- TwoTags
INVARIANT FrameTimeRight
CHECK_DEADLOCK FALSE
