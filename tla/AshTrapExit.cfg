SPECIFICATION Spec
CONSTANTS
  NSIG = 3
  SIGINT = 1
  SIGQUIT = 91
  SIGTERM = 92
  SIGTSTP = 93
  SIGTTOU = 94
  ScriptMode = FALSE
  IflagInit = TRUE
  MflagInit = FALSE
  EntryIgnored = {}
  Conditions = {2}
  ForkModes = {}
  WithErrors = FALSE
  WithOptions = FALSE
  MaxSignals = 2
  MaxTrapCmds = 2
  MaxForks = 1
INVARIANTS
  ExitUsesLastStatus
CHECK_DEADLOCK FALSE
