SPECIFICATION FairSpec
CONSTANTS
  Interactive = TRUE
  MaxJobs = 2
  MaxProcs = 3
  MaxStops = 2
  MaxModes = 1
  MaxForks = 1
INVARIANTS
  ListSound
  StatesAgree
  ChildrenKnown
  ExitWarned
PROPERTIES
  WaitEnds
CHECK_DEADLOCK FALSE
