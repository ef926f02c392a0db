SPECIFICATION FairSpec
CONSTANTS
  NSIG = 3
  SIGINT = 1
  SIGQUIT = 91
  SIGTERM = 92
  SIGTSTP = 93
  SIGTTOU = 94
  ScriptMode = FALSE
  IflagInit = TRUE
  MflagInit = FALSE
  EntryIgnored = {}
  Conditions = {1, 2}
  ForkModes = {}
  WithErrors = TRUE
  WithOptions = FALSE
  MaxSignals = 2
  MaxTrapCmds = 2
  MaxForks = 1
PROPERTIES
  TrapsRun
CHECK_DEADLOCK FALSE
