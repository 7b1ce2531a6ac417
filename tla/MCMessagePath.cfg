\* A path of soft bits or one of bytes: two frames, messages of somebody else, a thread that ends early
CONSTANTS
  d_POLY <- Poly
  d_SEED <- Seed
  d_TRUNK_LEN = 8
  d_FRAME_LEN = 24
  d_BLANC_BITS = 4
  d_MSG_LEN = 2
  d_POSITIONS <- Second
  d_ASM <- Asm
  ASM_FRAME_LEN = 2
  Subscribers <- Connections
  Paths <- BothPaths
  SINK_LEN <- SinkLen
  SINK_TYPE <- SinkType
  Item <- InputItem
  BLOB_LEN = 3
  Posts <- PostedMessages
  FeedSizes <- Feeds
  WorkSizes = {1, 4}
  MaxInput <- InputLen
  MaxPosts <- PostLimit
  Interruptible <- SoftBlocks
  MaxInterrupts = 2
SPECIFICATION FairSpec
INVARIANTS
  FramesArrive
  EofLast
  StreamWhole
  HeadersInStep
PROPERTY EofTravels
CHECK_DEADLOCK FALSE
