SPECIFICATION RagSpec
CONSTANTS
  NLOCK = 2
  NPROC = 3
  MaxTrail = 5
INVARIANTS StoredOnce
PROPERTIES FirstReportIsCycle SilentMeansAcyclic DetectEnds
CHECK_DEADLOCK FALSE
