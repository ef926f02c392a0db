SPECIFICATION FairSpec
CONSTANTS
  NSIG = 3
  SIGINT = 1
  SIGQUIT = 91
  SIGTERM = 92
  SIGTSTP = 93
  SIGTTOU = 94
  ScriptMode = TRUE
  IflagInit = FALSE
  MflagInit = FALSE
  EntryIgnored = {}
  Conditions = {0, 1, 2}
  ForkModes = {"BG"}
  WithErrors = FALSE
  WithOptions = FALSE
  MaxSignals = 2
  MaxTrapCmds = 2
  MaxForks = 1
INVARIANTS
  TypeOK
  OwnActions
  ChildDispositions
  ExitActionOnce
PROPERTIES
  TrapsRun
  InterruptsTaken
CHECK_DEADLOCK FALSE
