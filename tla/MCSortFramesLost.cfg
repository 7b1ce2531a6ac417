\* All duplicates are forwarded
CONSTANTS
  Window = 3
  Options <- AllForwarded
  Scores = {1}
  MaxNumber = 7
  MaxArrivals = 5
SPECIFICATION Spec
INVARIANT AcceptedFramesSent
CHECK_DEADLOCK FALSE
