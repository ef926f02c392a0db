SPECIFICATION Spec
CONSTANTS
  LastStd = 1
  LowFd = 3
  Bases = {3, 5}
  MaxFd = 6
  UserFds = {0, 1, 2}
  Open0 = {0, 1}
  Owners = {"tty"}
  Nested = TRUE
  posix = FALSE
  MaxScopes = 2
  MaxList = 2
  MaxStdin = 2
INVARIANTS
  ShellFdsSafe
CHECK_DEADLOCK FALSE
