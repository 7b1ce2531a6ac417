SPECIFICATION Spec
CONSTANTS
  d_I = 3
  d_k = 2
  E = 1
  Noise = Noise
  Wrong = Wrong
  Junk = Junk
  None = None
  Excess <- OneByte
  MaxFrames = 2
  MaxBurst = 5
INVARIANTS
  FramesRestored
  DamageConfined
  NothingStale
CHECK_DEADLOCK FALSE
