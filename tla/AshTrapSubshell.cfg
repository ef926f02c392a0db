SPECIFICATION Spec
CONSTANTS
  NSIG = 3
  SIGINT = 1
  SIGQUIT = 91
  SIGTERM = 92
  SIGTSTP = 93
  SIGTTOU = 94
  ScriptMode = FALSE
  IflagInit = TRUE
  MflagInit = FALSE
  EntryIgnored = {}
  Conditions = {1}
  ForkModes = {"FG", "BG"}
  WithErrors = FALSE
  WithOptions = FALSE
  MaxSignals = 0
  MaxTrapCmds = 2
  MaxForks = 1
INVARIANTS
  SubshellKeepsIgnored
CHECK_DEADLOCK FALSE
