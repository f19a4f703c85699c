------------------------------ MODULE Devices ------------------------------
(***************************************************************************)
(* The device switch: the table of conf.c and the calls that go through it *)
(* (open.c ... seek.c).  A call on a descriptor stands for the routine it  *)
(* runs; one on a bad descriptor is an error, as an ioerr entry is.        *)
(***************************************************************************)
EXTENDS Integers

CONSOLE == 0
NOTADEV == 1
NDEVS   == 2

isbaddev(d) == d < 0 \/ d >= NDEVS

ioerr  == "ioerr"      \* the routine returns SYSERR
ionull == "ionull"     \* the routine returns OK and does nothing

devtab ==
  [d \in 0 .. NDEVS - 1 |->
     IF d = CONSOLE
     THEN [open |-> ionull, close |-> ionull, read |-> "ttyRead", write |-> "ttyWrite",
           seek |-> ioerr, getc |-> "ttyGetc", putc |-> "ttyPutc", control |-> "ttyControl"]
     ELSE [open |-> ionull, close |-> ionull, read |-> ionull, write |-> ionull,
           seek |-> ioerr, getc |-> ionull, putc |-> ionull, control |-> ioerr]]

open(d)    == IF isbaddev(d) THEN ioerr ELSE devtab[d].open
close(d)   == IF isbaddev(d) THEN ioerr ELSE devtab[d].close
read(d)    == IF isbaddev(d) THEN ioerr ELSE devtab[d].read
write(d)   == IF isbaddev(d) THEN ioerr ELSE devtab[d].write
seek(d)    == IF isbaddev(d) THEN ioerr ELSE devtab[d].seek
getc(d)    == IF isbaddev(d) THEN ioerr ELSE devtab[d].getc
putc(d)    == IF isbaddev(d) THEN ioerr ELSE devtab[d].putc
control(d) == IF isbaddev(d) THEN ioerr ELSE devtab[d].control
=============================================================================
