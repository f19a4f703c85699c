SPECIFICATION Spec
CONSTANTS
  IBUFLEN = 3
  OBUFLEN = 2
  EBUFLEN = 5
  FIFO = 1
  Readers = {"r"}
  Writers = {"w"}
  Rank <- ReaderFirst
  Aged = FALSE
  Keys <- NewlineOnly
  Budgets <- OneLine
  Lengths = {3}
INVARIANT SendsWhatWasWritten
CHECK_DEADLOCK FALSE
