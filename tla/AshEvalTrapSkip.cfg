SPECIFICATION Spec
CONSTANTS
  ResetBlocks = TRUE
  FuncLimit = 2
  Kinds = {"loop"}
  WithErrors = FALSE
  WithCommand = FALSE
  WithBadRedirs = FALSE
  MaxDepth = 4
  MaxCmds = 7
  MaxInts = 0
  MaxTraps = 1
INVARIANTS
  TrapRunsWhole
CHECK_DEADLOCK FALSE
