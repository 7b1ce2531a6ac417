\* One frame before and after, one ASM symbol and one further symbol with the payload
CONSTANTS
  BlockLen = 3
  AsmLen = 2
  NumHistoryFrames = 1
  HeadSymbols = 1
  TailSymbols = 1
  FramesAfter = 1
  Ambiguities = {0, 1}
  AdditionalAsm <- TwoPositions
  MaxSymbols = 18
  MaxRead = 4
SPECIFICATION Spec
INVARIANTS
  SignalInPlace
  CorrelationInPlace
  SnrTagsInStep
  AbsoluteReads
  NoFrameTwice
  FrameContents
  NothingOverdue
  FramesDelivered
  AssertionsUntilStop
CHECK_DEADLOCK FALSE
