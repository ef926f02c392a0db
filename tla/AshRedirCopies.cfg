SPECIFICATION Spec
CONSTANTS
  LastStd = 1
  LowFd = 3
  Bases = {3, 5}
  MaxFd = 6
  UserFds = {0, 3}
  Open0 = {0}
  Owners = {"tty"}
  Nested = FALSE
  posix = FALSE
  MaxScopes = 2
  MaxList = 2
  MaxStdin = 2
PROPERTIES
  RedirectionsUndone
CHECK_DEADLOCK FALSE
