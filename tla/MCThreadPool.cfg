SPECIFICATION Spec
CONSTANTS
  NumThreads = 2
  NumCallers = 2
  MaxJobs = 3
  WaitsForNoWait = FALSE
INVARIANTS TypeOK RanOnceWhenWaited WaitAssertion
PROPERTIES EventuallyRun EventuallyReturns
CHECK_DEADLOCK FALSE
