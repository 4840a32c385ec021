SPECIFICATION Spec
CONSTANTS
  NumThreads = 1
  NumCallers = 1
  MaxJobs = 1
  WaitsForNoWait = FALSE
PROPERTY EventuallyStopped
CHECK_DEADLOCK FALSE
