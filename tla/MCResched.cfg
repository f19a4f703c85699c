SPECIFICATION Spec
CONSTANTS
  NPROC = 2
  PRIOHALF = 16
  Prios = {2}
  MaxKey = 4
INVARIANT SwitchesToReady
CHECK_DEADLOCK FALSE
