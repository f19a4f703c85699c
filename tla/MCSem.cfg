SPECIFICATION Spec
CONSTANTS
  NPROC = 3
  PRIOHALF = 8
  Prios <- TwoPrios
  MaxKey = 7
  NSEM = 1
  MaxCount = 2
  KillsWaiting = FALSE
INVARIANTS TypeOK ReadySorted StatesMatchQueues IdleMeansNothingReady CountedProcesses
PROPERTIES KeepsPromise ReadyRuns
