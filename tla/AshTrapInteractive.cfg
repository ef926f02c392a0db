SPECIFICATION Spec
CONSTANTS
  NSIG = 4
  SIGINT = 1
  SIGQUIT = 91
  SIGTERM = 2
  SIGTSTP = 3
  SIGTTOU = 94
  ScriptMode = FALSE
  IflagInit = TRUE
  MflagInit = TRUE
  EntryIgnored = {}
  Conditions = {1, 2, 3}
  ForkModes = {}
  WithErrors = TRUE
  WithOptions = TRUE
  MaxSignals = 2
  MaxTrapCmds = 2
  MaxForks = 0
INVARIANTS
  NoTrapForgotten
  TrapTableGuarded
  RootDispositions
CHECK_DEADLOCK FALSE
