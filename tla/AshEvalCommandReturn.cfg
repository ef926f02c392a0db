SPECIFICATION Spec
CONSTANTS
  ResetBlocks = TRUE
  FuncLimit = 2
  Kinds = {"eval", "func"}
  WithErrors = TRUE
  WithCommand = TRUE
  WithBadRedirs = FALSE
  MaxDepth = 4
  MaxCmds = 7
  MaxInts = 0
  MaxTraps = 0
INVARIANTS
  ReturnNoOp
CHECK_DEADLOCK FALSE
