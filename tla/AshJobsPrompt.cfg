SPECIFICATION Spec
CONSTANTS
  Interactive = TRUE
  MaxJobs = 2
  MaxProcs = 3
  MaxStops = 0
  MaxModes = 0
  MaxForks = 0
INVARIANTS
  PromptCleansUp
CHECK_DEADLOCK FALSE
