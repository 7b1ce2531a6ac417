\* Blocks of six symbols with a marker of three: the first full buffer is enough
CONSTANTS
  BlockLen = 6
  AsmLen = 3
  NumHistoryFrames = 2
  HeadSymbols = 2
  MaxSymbols = 100
  MaxRead = 7
SPECIFICATION BufferSpec
INVARIANT CorrelationAvailable
CHECK_DEADLOCK FALSE
