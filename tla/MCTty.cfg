SPECIFICATION Spec
CONSTANTS
  IBUFLEN = 3
  OBUFLEN = 2
  EBUFLEN = 5
  FIFO = 1
  Writers = {"w"}
  Readers = {"r"}
  Rank <- ReaderFirst
  Aged = TRUE
  Keys <- Typist
  Budgets <- TypingOrPrinting
  Lengths = {0, 3}
INVARIANTS GhostsAreLate NoStall
PROPERTIES KeepsText WriterFinishes
CHECK_DEADLOCK FALSE
