SPECIFICATION Spec
CONSTANTS
  NLOCK = 2
  NPROC = 3
  PERIOD = 2
  NCREATED = 1
  Permits <- Free
INVARIANTS TypeOK MutualExclusion RagExact QueuesExact OnlyCurrentIsCurr
PROPERTIES FirstReportIsDeadlock FirstVictimHoldsLock DeadlockIsStable
