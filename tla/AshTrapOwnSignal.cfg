SPECIFICATION Spec
CONSTANTS
  NSIG = 3
  SIGINT = 1
  SIGQUIT = 91
  SIGTERM = 92
  SIGTSTP = 93
  SIGTTOU = 94
  ScriptMode = TRUE
  IflagInit = FALSE
  MflagInit = FALSE
  EntryIgnored = {}
  Conditions = {2}
  ForkModes = {"FG"}
  WithErrors = FALSE
  WithOptions = FALSE
  MaxSignals = 2
  MaxTrapCmds = 2
  MaxForks = 1
INVARIANTS
  OwnSignals
CHECK_DEADLOCK FALSE
