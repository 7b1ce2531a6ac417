SPECIFICATION Spec
CONSTANTS
  PolyC1 = 121
  PolyC2 = 219
  MaxOffered = 2
  MaxRoom = 2
  Asm <- MCAsm
  BlockLen = 8
  Data <- MCData
  Cuts = {"exact", "padded", "uneven"}
  MaxBytes = 9
INVARIANTS TypeOK OneStream AlignedFramesDecoded
PROPERTIES CallsProduce
CHECK_DEADLOCK FALSE
