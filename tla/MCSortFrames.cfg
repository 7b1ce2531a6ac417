\* Four configurations of the block
CONSTANTS
  Window = 3
  Options <- FourOptions
  Scores = {1, 2}
  MaxNumber = 5
  MaxArrivals = 4
SPECIFICATION FairSpec
INVARIANTS
  SlotsHoldOwnNumber
  NothingTwice
  BestIsKept
  NothingLeftAtEof
PROPERTY EofPassedOn
CHECK_DEADLOCK FALSE
