\* Streams of five items with up to three tags, two of which may be at one item
CONSTANTS
  LookAhead = 2
  MaxItems = 5
  MaxWrite = 3
  MaxTags = 3
SPECIFICATION StorageSpec
INVARIANTS
  EveryTagOnce
  TagsInStreamOrder
  FinishedAtEof
CHECK_DEADLOCK FALSE
