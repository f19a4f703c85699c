SPECIFICATION ClientSpec
CONSTANTS
  NLOCK = 4
  NPROC = 4
  PERIOD = 2
  NCREATED = 4
  Permits <- Tidy
  N = 3
INVARIANTS OnlyTheTextbookDeadlock
PROPERTIES FirstVictimOK WorkersEndOrDeadlock DeadlockIsReported
