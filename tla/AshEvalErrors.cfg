SPECIFICATION Spec
CONSTANTS
  ResetBlocks = TRUE
  FuncLimit = 2
  Kinds = {"loop", "func", "redir", "eval", "dot"}
  WithErrors = TRUE
  WithCommand = FALSE
  WithBadRedirs = FALSE
  MaxDepth = 4
  MaxCmds = 7
  MaxInts = 0
  MaxTraps = 0
INVARIANTS
  CountersExact
  StateRestored
  SkipInScope
PROPERTIES
  SkipLands
