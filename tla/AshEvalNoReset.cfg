SPECIFICATION Spec
CONSTANTS
  ResetBlocks = FALSE
  FuncLimit = 2
  Kinds = {"func"}
  WithErrors = TRUE
  WithCommand = FALSE
  WithBadRedirs = FALSE
  MaxDepth = 4
  MaxCmds = 4
  MaxInts = 0
  MaxTraps = 0
INVARIANTS
  ReturnNoOp
CHECK_DEADLOCK FALSE
