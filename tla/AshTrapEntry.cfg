SPECIFICATION Spec
CONSTANTS
  NSIG = 3
  SIGINT = 1
  SIGQUIT = 91
  SIGTERM = 92
  SIGTSTP = 93
  SIGTTOU = 94
  ScriptMode = TRUE
  IflagInit = FALSE
  MflagInit = FALSE
  EntryIgnored = {2}
  Conditions = {2}
  ForkModes = {"FG", "BG"}
  WithErrors = FALSE
  WithOptions = FALSE
  MaxSignals = 0
  MaxTrapCmds = 2
  MaxForks = 1
INVARIANTS
  EntryIgnoredStays
CHECK_DEADLOCK FALSE
