SPECIFICATION Spec
CONSTANTS
  LastStd = 1
  LowFd = 3
  Bases = {3, 5}
  MaxFd = 7
  UserFds = {0, 1, 2}
  Open0 = {0, 1}
  Owners = {"tty", "script"}
  Nested = TRUE
  posix = TRUE
  MaxScopes = 2
  MaxList = 2
  MaxStdin = 2
PROPERTIES
  PassedOn
CHECK_DEADLOCK FALSE
