SPECIFICATION Spec
CONSTANTS
  ResetBlocks = TRUE
  FuncLimit = 1
  Kinds = {"loop", "func", "redir", "eval", "dot"}
  WithErrors = TRUE
  WithCommand = TRUE
  WithBadRedirs = TRUE
  MaxDepth = 3
  MaxCmds = 4
  MaxInts = 1
  MaxTraps = 1
INVARIANTS
  HandlerLive
CHECK_DEADLOCK FALSE
