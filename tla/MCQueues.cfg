SPECIFICATION Spec
CONSTANTS
  NPROC = 3
  Queue = {ready, waiting}
  Addr = {a1, a2, a3}
  Keys <- SomeKeys
  MaxKey = 3
SYMMETRY Alike
INVARIANT ListsSound
PROPERTY KeepsOrder
