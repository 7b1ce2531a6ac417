SPECIFICATION StartFairSpec
CONSTANTS
  s1 = s1
  s2 = s2
  w1 = w1
  w2 = w2
  None = None
  Starters = {s1, s2}
  Waiters = {w1, w2}
  MaxStarts = 2
  MaxCalls = 2
INVARIANTS
  NoLostWakeup
PROPERTIES
  WaitersReturn
CHECK_DEADLOCK FALSE
