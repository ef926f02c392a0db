SPECIFICATION Spec
CONSTANTS
  ResetBlocks = TRUE
  FuncLimit = 2
  Kinds = {"func"}
  WithErrors = FALSE
  WithCommand = FALSE
  WithBadRedirs = FALSE
  MaxDepth = 4
  MaxCmds = 7
  MaxInts = 1
  MaxTraps = 0
INVARIANTS
  ParamsExact
CHECK_DEADLOCK FALSE
