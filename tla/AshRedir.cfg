SPECIFICATION Spec
CONSTANTS
  LastStd = 1
  LowFd = 3
  Bases = {3, 5}
  MaxFd = 5
  UserFds = {0, 2}
  Open0 = {0}
  Owners = {"script"}
  Nested = TRUE
  posix = FALSE
  MaxScopes = 2
  MaxList = 2
  MaxStdin = 2
INVARIANTS
  ShellFdsSafe
  NothingLeft
PROPERTIES
  RedirectionsUndone
CHECK_DEADLOCK FALSE
