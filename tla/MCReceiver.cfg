CONSTANTS
  None = None
  Absent = Absent
  CommandLines <- MCCommandLines
  Files <- MCFiles
  frame_syms = 20
  PARITY_BITS = 6
  COUNTER = 5
  MaxQueue = 2
  MaxSent = 18
  MaxShort = 1
SPECIFICATION Spec
INVARIANTS
  PipelineBits
  LossAccount
  LockEarned
CHECK_DEADLOCK FALSE
