SPECIFICATION Spec
CONSTANTS
  NLOCK = 2
  NPROC = 3
  PERIOD = 2
  NCREATED = 2
  Permits <- Tidy
INVARIANTS KilledNeverRuns
