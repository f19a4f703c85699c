SPECIFICATION Spec
CONSTANTS
  W = 64
  HOLESTART = 14
  HOLEEND = 20
  MAXADDR = 32
  NULLSTK = 2
  Ends = {3, 4}
  NPROC = 2
  NSEM = 1
  NBPOOLS = 2
  StackSizes <- SmallAndWrapping
  MINSTK = 2
  ENTRY = 4
  PoolShapes <- Shapes
  NENTRY = 2
  NLOST = 1
INVARIANTS FreeListSound AllComesBack EnoughMemory PoolsSound NobodyOverlooked
PROPERTIES OneOwner
CHECK_DEADLOCK FALSE
