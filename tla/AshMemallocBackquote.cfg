SPECIFICATION Spec
CONSTANTS
  Unit = 2
  MINSIZE = 2
  Extra = 1
  HereSize = 6
  Kinds = {"backquote"}
  MayFail = {"malloc"}
  MaxBlocks = 3
  MaxSize = 6
  MaxFrames = 3
  MaxAllocs = 2
INVARIANTS
  InSpace
CHECK_DEADLOCK FALSE
