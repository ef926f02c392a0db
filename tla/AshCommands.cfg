SPECIFICATION Spec
CONSTANTS
  Commands = {"foo", "bar"}
  Builtins = {"bar"}
  Files <- MCFiles
  MaxFuncs = 2
  MaxTexts = 8
  Vars = {"PATH", "x"}
  Paths <- MCPaths
  Values <- MCValues
  Dirs = {"/h", "/a"}
  Defined = {"foo"}
  Attributes = {"VEXPORT", "VREADONLY", "VNOEXPORT"}
  PathAttributes = {"VEXPORT"}
  WithCommand = FALSE
  MaxFrames = 2
  MaxLocals = 2
  MaxPathChanges = 2
  MaxChanges = 3
  FarPlace = 9999
INVARIANTS
  HashedRight
  NothingDangling
PROPERTIES
  ImplementsScopes
