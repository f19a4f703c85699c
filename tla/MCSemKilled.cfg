SPECIFICATION Spec
CONSTANTS
  NPROC = 4
  PRIOHALF = 4
  Prios <- OnePrio
  MaxKey = 3
  NSEM = 1
  MaxCount = 1
  KillsWaiting = TRUE
PROPERTIES SignalReleases
