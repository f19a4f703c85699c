-------------------------------- MODULE Tty --------------------------------
(***************************************************************************)
(* The console driver (device/tty): processes that read, write and control *)
(* the line through the device switch, and the input and output interrupts *)
(* of the UART.                                                            *)
(*                                                                         *)
(* One processor: the actions of a process are those of the current one. A *)
(* call runs with interrupts disabled from character to character and lets *)
(* others run only when it sleeps on one of the two semaphores; the calls  *)
(* of the C library (fgets, fputs) enable interrupts between two           *)
(* characters. A process in no call computes. Interrupts, the clock's      *)
(* among them, come to a process that has them enabled, or to the null     *)
(* process; resched is part of the action that calls it. The switches that *)
(* ttyInit sets and no control function changes (tyicrlf, tyerase,         *)
(* tyoflow, ...) are always on. Of the output only the number of           *)
(* characters is kept, and of the input what is held.                      *)
(***************************************************************************)
EXTENDS Devices, Sequences, FiniteSets, SequencesExt

CONSTANTS
  IBUFLEN, OBUFLEN, EBUFLEN,   \* sizes of the three rings
  FIFO,                        \* size of the UART's transmit queue
  Readers, Writers,            \* the processes: those that read and set modes, those that write
  Rank,                        \* the keys of the processes on the ready queue
  Aged,                        \* may aging have brought their keys into another order?
  Keys,                        \* the characters that are typed
  Budgets,                     \* bounds on keys typed, calls to read and write, modes set
  Lengths                      \* lengths that calls are made with

ASSUME TtyAssumption ==
  /\ IBUFLEN \in Nat /\ IBUFLEN > 1 /\ EBUFLEN \in Nat \ {0}
  /\ FIFO \in Nat \ {0} /\ OBUFLEN \in Nat /\ FIFO < OBUFLEN
  /\ Readers \cap Writers = {} /\ "none" \notin Readers \union Writers
  /\ IsFiniteSet(Writers)
  /\ Rank \in [Readers \union Writers -> Nat] /\ Aged \in BOOLEAN
  /\ Keys \subseteq {"a", "ctl", "nl", "erase", "kill", "eof", "stop", "start"}
  /\ Budgets \subseteq [keys : Nat, reads : Nat, writes : Nat, modes : Nat]
  /\ Lengths \subseteq Nat

VARIABLES
  ibuf, ihead, itail, icursor, imode, iecho,   \* the input half of ttytab[0]
  isem,                                        \* tyisem: its count and its queue
  oheld, osem,                                 \* the output half
  epend,      \* characters in the echo ring
  uart,       \* output interrupt enabled, output interrupt pending, transmitting
  task,       \* the call each process is in
  woken,      \* processes that a semaphore has released and that have not run since
  current,    \* the current process, or NoProc for the null process
  defer,      \* the input interrupt defers rescheduling: "none", "start" or "attempt"
  stored,     \* characters put in the output ring less those sent from it
  passed,     \* history: output interrupts that sent since a released writer last ran
  quiet,      \* output was resumed without a kick
  fault,      \* the first condition met that the driver does not handle
  budget      \* what is left of the bounds

ivars == <<ibuf, ihead, itail, icursor, imode, iecho>>
ovars == <<oheld, epend, uart, stored, passed, quiet>>
svars == <<current, defer>>
vars  == <<ivars, isem, ovars, osem, task, woken, svars, fault, budget>>

Proc   == Readers \union Writers
NoProc == "none"
Free   == "free"      \* a place of the input ring that is not read again
Spend(k) == budget[k] > 0 /\ budget' = [budget EXCEPT ![k] = @ - 1]

Idle   == [op |-> "none", left |-> 0, first |-> TRUE]

\* The processes that wait on neither semaphore: all of them are ready or current.
Awake(is, os) == Proc \ (ToSet(is.queue) \union ToSet(os.queue))

\* Those resched may take for the next one, when S are ready or current: one of the
\* highest key, and the current process goes behind those of its own key.  Aging may
\* have given any of them the highest.  The null process runs when there is none.
Highest(S) == {p \in S : \A q \in S : Rank[q] <= Rank[p]}

NextOf(S, old) ==
  IF S = {} THEN {NoProc}
  ELSE IF Aged THEN S
  ELSE IF Highest(S) \ {old} # {} THEN Highest(S) \ {old} ELSE Highest(S)

Resched == current' \in NextOf(Awake(isem', osem'), current)

\* ttyInit.
Init ==
  /\ ibuf = [i \in 0 .. IBUFLEN - 1 |-> Free] /\ ihead = 0 /\ itail = 0 /\ icursor = 0
  /\ imode = "cooked" /\ iecho = TRUE
  /\ isem = [count |-> 0, queue |-> <<>>]
  /\ oheld = FALSE /\ stored = 0 /\ epend = 0 /\ passed = [p \in Writers |-> 0]
  /\ osem = [count |-> OBUFLEN, queue |-> <<>>]
  /\ uart = [ier |-> TRUE, thre |-> TRUE, busy |-> FALSE]
  /\ task = [p \in Proc |-> Idle] /\ woken = {} /\ defer = "none"
  /\ current \in NextOf(Proc, NoProc)
  /\ quiet = FALSE /\ fault = "none"
  /\ budget \in Budgets

----------------------------------------------------------------------------
\* wait.c, signal.c, signaln.c over one semaphore, its queue in order of arrival.
Waited(sem, p) == [count |-> sem.count - 1,
                   queue |-> IF sem.count > 0 THEN sem.queue ELSE Append(sem.queue, p)]

LeastOf(a, b) == IF a <= b THEN a ELSE b

Released(sem, n) == {sem.queue[i] : i \in 1 .. LeastOf(n, Len(sem.queue))}

Signalled(sem, n) ==
  [count |-> sem.count + n,
   queue |-> SubSeq(sem.queue, LeastOf(n, Len(sem.queue)) + 1, Len(sem.queue))]

semcount(sem) == sem.count

----------------------------------------------------------------------------
InputOps  == {"getc", "raw", "line", "fgets"}
OutputOps == {"write", "fputs"}
Library   == {"fgets", "fputs"}      \* interrupts are enabled between characters

\* Interrupts are disabled: in the input interrupt, in a call, and in a call of the
\* library from the time wait reschedules until the character is taken or stored.
Masked ==
  \/ defer # "none"
  \/ /\ current # NoProc /\ task[current] # Idle
     /\ task[current].op \notin Library \/ current \in woken

\* The process may take the next step of its call.
MayRun(p) == defer = "none" /\ current = p /\ task[p] # Idle

\* The UART raises an output interrupt when it is idle and the interrupt is enabled.
Kicked(u) == [u EXCEPT !.ier = TRUE, !.thre = @ \/ ~u.busy]

ttyKickOut == uart' = Kicked(uart) /\ quiet' = FALSE

Computes(p) == defer = "none" /\ current = p /\ task[p] = Idle

\* A call begins.  ttyRead looks at the mode first: with a count of zero it reads
\* all there is in raw and cbreak modes, and one character in cooked mode.
Begin(p, op, n) ==
  /\ Computes(p)
  /\ task' = [task EXCEPT ![p] = [op |-> op, left |-> n, first |-> TRUE]]
  /\ Spend(IF op \in OutputOps THEN "writes" ELSE "reads")
  /\ UNCHANGED <<ivars, isem, ovars, osem, woken, svars, fault>>

CallRead(p, count) ==
  /\ read(CONSOLE) = "ttyRead"
  /\ IF imode = "cooked" THEN Begin(p, "line", count)
     ELSE LET n == IF count = 0 THEN semcount(isem) ELSE count
          IN  n > 0 /\ Begin(p, "raw", n)

CallGetc(p) == getc(CONSOLE) = "ttyGetc" /\ Begin(p, "getc", 1)

\* fgets reads at most n - 1 characters.
CallFgets(p, n) == getc(CONSOLE) = "ttyGetc" /\ n > 1 /\ Begin(p, "fgets", n - 1)

CallWrite(p, n) == write(CONSOLE) = "ttyWrite" /\ n > 0 /\ Begin(p, "write", n)

CallFputs(p, n) == putc(CONSOLE) = "ttyPutc" /\ n > 0 /\ Begin(p, "fputs", n)

----------------------------------------------------------------------------
\* ttyGetc answers EOF for the end-of-file character in cooked mode.
IsEOF(c) == c = "eof" /\ imode = "cooked"

\* Does character c end the call?  ttyRead stops at an EOF in first place only.
Ends(t, c) ==
  \/ t.left <= 1
  \/ t.op \in {"line", "fgets"} /\ c = "nl"
  \/ t.op = "line" /\ t.first /\ IsEOF(c)
  \/ t.op = "fgets" /\ IsEOF(c)

\* The call of p goes on to its next character, or is over.
Advance(p, over) ==
  task' = [task EXCEPT ![p] = IF over THEN Idle
                                     ELSE [op |-> @.op, left |-> @.left - 1, first |-> FALSE]]

\* wait finds nothing: another process runs.
Sleep == Resched /\ UNCHANGED <<task, woken>>

\* The rest of ttyGetc, once wait has returned.
Extract(p) ==
  /\ ihead' = (ihead + 1) % IBUFLEN /\ ibuf' = [ibuf EXCEPT ![ihead] = Free]
  /\ Advance(p, Ends(task[p], ibuf[ihead]))
  /\ UNCHANGED <<itail, icursor, imode, iecho>>

ttyGetc(p) ==
  /\ MayRun(p) /\ task[p].op \in InputOps /\ fault \notin {"ring", "kill"}
  /\ \/ /\ p \in woken /\ woken' = woken \ {p}
        /\ Extract(p) /\ UNCHANGED <<isem, current>>
     \/ /\ p \notin woken /\ isem' = Waited(isem, p) /\ UNCHANGED osem
        /\ IF isem.count > 0 THEN Extract(p) /\ UNCHANGED <<woken, current>>
           ELSE Sleep /\ UNCHANGED ivars
  /\ UNCHANGED <<ovars, osem, defer, fault, budget>>

\* Faulty variant: the device is not kicked.
PutQuietly(p) ==
  /\ stored' = stored + 1 /\ passed' = [passed EXCEPT ![p] = 0]
  /\ Advance(p, task[p].left <= 1)
  /\ UNCHANGED <<oheld, epend, uart, quiet>>

\* The rest of ttyPutc, once wait has returned.  A newline counts for two.
Put(p) ==
  /\ stored' = stored + 1 /\ passed' = [passed EXCEPT ![p] = 0]
  /\ ttyKickOut
  /\ Advance(p, task[p].left <= 1)
  /\ UNCHANGED <<oheld, epend>>

ttyPutc(p) ==
  /\ MayRun(p) /\ task[p].op \in OutputOps
  /\ \/ /\ p \in woken /\ woken' = woken \ {p}
        /\ Put(p) /\ UNCHANGED <<osem, current>>
     \/ /\ p \notin woken /\ osem' = Waited(osem, p) /\ UNCHANGED isem
        /\ IF osem.count > 0 THEN Put(p) /\ UNCHANGED <<woken, current>>
           ELSE Sleep /\ UNCHANGED ovars
  /\ UNCHANGED <<ivars, isem, defer, fault, budget>>

----------------------------------------------------------------------------
\* ttyControl.  The modes are set in one step.
SetMode(p, m) ==
  /\ control(CONSOLE) = "ttyControl" /\ Computes(p)
  /\ imode' = m /\ Spend("modes")
  /\ UNCHANGED <<ibuf, ihead, itail, icursor, iecho, isem, ovars, osem, task, woken, svars, fault>>

SetEcho(p, on) ==
  /\ control(CONSOLE) = "ttyControl" /\ Computes(p)
  /\ iecho' = on /\ Spend("modes")
  /\ UNCHANGED <<ibuf, ihead, itail, icursor, imode, isem, ovars, osem, task, woken, svars, fault>>

CallNextc(p) == control(CONSOLE) = "ttyControl" /\ Begin(p, "nextc", 1)

\* TC_NEXTC waits for a character, looks at the ring and gives the character back,
\* perhaps to another reader that waits; signal then reschedules.
Nextc(p) ==
  /\ MayRun(p) /\ task[p].op = "nextc"
  /\ \/ /\ p \in woken \/ isem.count > 0
        /\ LET s == IF p \in woken THEN isem ELSE Waited(isem, p)
           IN  /\ isem' = Signalled(s, 1)
               /\ woken' = (woken \ {p}) \union Released(s, 1) /\ UNCHANGED osem
               /\ IF Released(s, 1) = {} THEN UNCHANGED current ELSE Resched
        /\ Advance(p, TRUE)
     \/ /\ p \notin woken /\ isem.count <= 0
        /\ isem' = Waited(isem, p) /\ UNCHANGED osem /\ Sleep
  /\ UNCHANGED <<ivars, ovars, osem, defer, fault, budget>>

----------------------------------------------------------------------------
\* The input interrupt, ttyInter_in.  Characters that can be taken by wait; those
\* granted to a process that has not run yet are not among them.
avail == IF semcount(isem) < 0 THEN 0 ELSE semcount(isem)

\* Characters that readers own, and characters in the ring.
Unread == avail + Cardinality({p \in woken : task[p].op \in InputOps \union {"nextc"}})
Held   == Unread + icursor

\* eputc, called k times: the echo ring has EBUFLEN places and no check.
Echo(k) == epend' = (epend + k) % EBUFLEN /\ ttyKickOut

\* Nothing is echoed: output that was held until now is not kicked.
NoEcho == UNCHANGED <<epend, uart>> /\ quiet' = (quiet \/ (oheld /\ ~oheld'))

\* echoch: CR and LF for a newline, ^x for a control character.
EchoLength(c) == IF c = "a" THEN 1 ELSE 2

echoch(c) == IF iecho THEN Echo(EchoLength(c)) ELSE NoEcho

\* c is stored at the tail, which then wraps or does not; past the last place it
\* overwrites tyisem.  A character still held may be lost.
Store(c, wraps, otherwise) ==
  IF itail = IBUFLEN THEN fault' = "ring" /\ UNCHANGED <<ibuf, itail>>
  ELSE /\ ibuf' = [ibuf EXCEPT ![itail] = c]
       /\ itail' = IF wraps THEN (itail + 1) % IBUFLEN ELSE itail + 1
       /\ fault' = IF Held >= IBUFLEN THEN "full" ELSE otherwise

SignalInput(n) == isem' = Signalled(isem, n) /\ woken' = woken \union Released(isem, n)

NoSignal == UNCHANGED <<isem, woken>>

\* Raw mode: no editing and no flow control.
Raw(c) ==
  /\ imode = "raw" /\ UNCHANGED <<ihead, icursor, oheld>> /\ NoEcho
  /\ IF avail >= IBUFLEN THEN NoSignal /\ UNCHANGED <<ibuf, itail, fault>>
     ELSE Store(c, FALSE, "none") /\ SignalInput(1)

Start(c) ==
  /\ imode # "raw" /\ c = "start" /\ oheld' = FALSE /\ ttyKickOut
  /\ NoSignal /\ UNCHANGED <<epend, ibuf, ihead, itail, icursor, fault>>

Stop(c) ==
  /\ imode # "raw" /\ c = "stop" /\ oheld' = TRUE
  /\ NoEcho /\ NoSignal /\ UNCHANGED <<ibuf, ihead, itail, icursor, fault>>

\* Any other character lets output go on.  What follows is called with oheld = FALSE
\* and kicks the device only if it echoes.
Resumes(c) == imode # "raw" /\ c \notin {"start", "stop"} /\ oheld' = FALSE

\* Cbreak mode: stored and echoed; no reader is told.
Cbreak(c) ==
  /\ imode = "cbreak" /\ Resumes(c) /\ UNCHANGED <<ihead, icursor>> /\ NoSignal
  /\ IF avail >= IBUFLEN THEN Echo(1) /\ UNCHANGED <<ibuf, itail, fault>>
     ELSE echoch(c) /\ Store(c, TRUE, "unsignalled")

\* Line kill.  The tail is moved back without wrapping, the head is moved instead.
KillLine(c) ==
  /\ imode = "cooked" /\ Resumes(c) /\ c = "kill"
  /\ itail' = itail - icursor /\ icursor' = 0
  /\ IF itail < icursor THEN ihead' = ihead + IBUFLEN /\ fault' = "kill"
     ELSE UNCHANGED <<ihead, fault>>
  /\ ibuf' = [i \in DOMAIN ibuf |-> IF i \in itail - icursor .. itail - 1 THEN Free ELSE ibuf[i]]
  /\ Echo(2) /\ NoSignal

\* erase1: backspace, blank, backspace, and twice that for a control character.
Erase(c) ==
  /\ imode = "cooked" /\ Resumes(c) /\ c = "erase"
  /\ IF icursor = 0 THEN NoEcho /\ UNCHANGED <<ibuf, itail, icursor>>
     ELSE \E t \in {(itail - 1) % IBUFLEN} :
            /\ itail' = t /\ icursor' = icursor - 1 /\ ibuf' = [ibuf EXCEPT ![t] = Free]
            /\ IF iecho THEN Echo(IF ibuf[t] = "a" THEN 3 ELSE 6) ELSE NoEcho
  /\ NoSignal /\ UNCHANGED <<ihead, fault>>

\* Faulty variant: the newline itself is not counted.
NewlineShort(c) ==
  /\ imode = "cooked" /\ Resumes(c) /\ c = "nl"
  /\ echoch(c) /\ Store(c, TRUE, "none") /\ SignalInput(icursor)
  /\ icursor' = 0 /\ UNCHANGED ihead

\* End of line: stored whether there is room or not, and the line is released.
Newline(c) ==
  /\ imode = "cooked" /\ Resumes(c) /\ c = "nl"
  /\ echoch(c) /\ Store(c, TRUE, "none") /\ SignalInput(icursor + 1)
  /\ icursor' = 0 /\ UNCHANGED ihead

Full == avail + icursor >= IBUFLEN - 1

\* No room: a bell.
Bell(c) ==
  /\ imode = "cooked" /\ Resumes(c) /\ c \notin {"kill", "erase", "nl"} /\ Full
  /\ Echo(1) /\ NoSignal /\ UNCHANGED <<ibuf, ihead, itail, icursor, fault>>

\* End of file: ignored inside a line.
EndOfFile(c) ==
  /\ imode = "cooked" /\ Resumes(c) /\ c = "eof" /\ ~Full /\ echoch(c)
  /\ IF icursor # 0 THEN NoSignal /\ UNCHANGED <<ibuf, itail, fault>>
     ELSE Store(c, FALSE, "none") /\ SignalInput(1)
  /\ UNCHANGED <<ihead, icursor>>

Ordinary(c) ==
  /\ imode = "cooked" /\ Resumes(c) /\ c \in {"a", "ctl"} /\ ~Full
  /\ echoch(c) /\ Store(c, TRUE, "none") /\ icursor' = icursor + 1
  /\ NoSignal /\ UNCHANGED ihead

ttyInter_in(c) ==
  \/ Raw(c) \/ Start(c) \/ Stop(c) \/ Cbreak(c) \/ KillLine(c) \/ Erase(c)
  \/ Newline(c) \/ Bell(c) \/ EndOfFile(c) \/ Ordinary(c)

\* Has ttyInter_in tried to reschedule?  signaln does, signal if it releases somebody.
Attempts(c) == woken' # woken \/ (c = "nl" /\ imode = "cooked")

\* A character arrives and is handled; nothing is said of what follows a fault.  The
\* handler goes on while there are more, and makes up for reschedulings at its end.
Arrive(c) ==
  /\ defer # "none" \/ ~Masked
  /\ fault = "none" /\ Spend("keys")
  /\ ttyInter_in(c)
  /\ UNCHANGED <<imode, iecho, osem, stored, passed, task>>
  /\ \E attempt \in {defer = "attempt" \/ Attempts(c)} :
       \/ /\ budget.keys > 1 /\ fault' = "none"
          /\ defer' = (IF attempt THEN "attempt" ELSE "start") /\ UNCHANGED current
       \/ defer' = "none" /\ IF attempt THEN Resched ELSE UNCHANGED current

----------------------------------------------------------------------------
\* The output interrupt, ttyInter_out, when the UART has raised it.
\* Faulty variant: characters to echo are forgotten.
OutOffUnechoed == semcount(osem) >= OBUFLEN

\* Nothing to send: the interrupt is turned off.
OutOff == epend = 0 /\ semcount(osem) >= OBUFLEN

\* How many characters the output ring holds is computed from the semaphore, on which
\* the writers that have not stored theirs count too.
Sendable(room) ==
  LET there == OBUFLEN - semcount(osem) IN IF there < 0 THEN 0 ELSE LeastOf(room, there)

\* Writers that have been released and have not run since.
Owed == woken \cap Writers

\* e characters to echo and o of the ring are sent, and signaln called for n.
SendAnd(e, o, n) ==
  /\ epend' = epend - e /\ stored' = stored - o
  /\ osem' = Signalled(osem, n) /\ woken' = woken \union Released(osem, n)
  /\ passed' = [p \in Writers |-> IF o > 0 /\ p \in Owed THEN passed[p] + 1 ELSE passed[p]]
  /\ uart' = [uart EXCEPT !.thre = FALSE, !.busy = TRUE]
  /\ IF o > 0 THEN Resched ELSE UNCHANGED current

\* Faulty variant: the echoed characters are signalled too.
SendEchoCounted ==
  \E e \in {LeastOf(FIFO, epend)} : \E o \in {Sendable(FIFO - e)} : SendAnd(e, o, e + o)

\* The echo ring goes first.  Nothing defers the rescheduling of signaln.
Send ==
  \E e \in {LeastOf(FIFO, epend)} : \E o \in {Sendable(FIFO - e)} : SendAnd(e, o, o)

\* Only the interrupt is acknowledged.
NothingSent == UNCHANGED <<epend, stored, passed, osem, woken, current>>

ttyInter_out ==
  \/ oheld /\ uart' = [uart EXCEPT !.thre = FALSE] /\ NothingSent
  \/ ~oheld /\ OutOff /\ uart' = [uart EXCEPT !.ier = FALSE, !.thre = FALSE] /\ NothingSent
  \/ ~oheld /\ ~OutOff /\ Send

OutInterrupt ==
  /\ ~Masked /\ uart.thre
  /\ UNCHANGED <<ivars, isem, oheld, quiet, task, defer, fault, budget>>
  /\ ttyInter_out

\* The transmit queue is empty again.
UartDrain ==
  /\ uart.busy /\ uart' = [uart EXCEPT !.busy = FALSE, !.thre = uart.ier]
  /\ UNCHANGED <<ivars, isem, oheld, epend, stored, passed, quiet, osem, task, woken,
                 svars, fault, budget>>

\* The clock interrupt ends the time slice, or the process yields: p runs instead.
Preempt(p) ==
  /\ ~Masked /\ p # current /\ p \in NextOf(Awake(isem, osem), current)
  /\ current' = p
  /\ UNCHANGED <<ivars, isem, ovars, osem, task, woken, defer, fault, budget>>

----------------------------------------------------------------------------
ReaderCall(p) ==
  \/ CallGetc(p) \/ CallNextc(p)
  \/ \E n \in Lengths : CallRead(p, n) \/ CallFgets(p, n)
  \/ \E m \in {"raw", "cooked", "cbreak"} : SetMode(p, m)
  \/ \E on \in BOOLEAN : SetEcho(p, on)

WriterCall(p) == \E n \in Lengths : CallWrite(p, n) \/ CallFputs(p, n)

Goes(p) == ttyGetc(p) \/ ttyPutc(p) \/ Nextc(p)

Next ==
  \/ \E p \in Readers : ReaderCall(p)
  \/ \E p \in Writers : WriterCall(p)
  \/ \E p \in Proc : Goes(p) \/ Preempt(p)
  \/ \E c \in Keys : Arrive(c)
  \/ OutInterrupt \/ UartDrain

\* A process that can be dispatched again and again is (Semaphores!ReadyRuns) and goes
\* on with its call, a pending interrupt is taken when interrupts are enabled, the
\* handler takes the characters there are, and the UART transmits.
Fairness ==
  /\ SF_vars(OutInterrupt) /\ WF_vars(UartDrain)
  /\ WF_vars(defer # "none" /\ \E c \in Keys : Arrive(c))
  /\ \A p \in Proc : SF_vars(Goes(p)) /\ SF_vars(Preempt(p))

Spec == Init /\ [][Next]_vars /\ Fairness
----------------------------------------------------------------------------
\* The characters of the ring from the head on are the text that has arrived and not
\* been read, in the order of arrival, and what the semaphore grants is what has been
\* entered (ttyInter_in.c, ttyGetc.c), until a condition the driver does not handle.
Text == [i \in 1 .. Held |-> ibuf[(ihead + i - 1) % IBUFLEN]]

LineText  == IF fault = "none" THEN Text ELSE <<>>
LineReady == IF fault = "none" THEN Unread ELSE 0
Broken    == fault # "none"

Promise == INSTANCE LineDiscipline WITH
  Char     <- Keys,
  NL       <- "nl",
  Capacity <- IBUFLEN,
  text     <- LineText,
  nready   <- LineReady,
  broken   <- Broken

KeepsText == Promise!LineSpec

\* The output interrupt sends characters that writers have put in the ring, each
\* once, and writers do not overwrite one that has not been sent (comment
\* ttyInter_out.c:54).
SendsWhatWasWritten == stored \in 0 .. OBUFLEN

\* What is true of that under every scheduling.  Writers never overwrite a character
\* that waits; and a place that nobody has filled is sent (the count of the semaphore
\* includes the places of writers that were released, ttyInter_out.c:58) only after
\* every released writer was passed over by the interrupts it takes to send the rest.
GhostsAreLate ==
  /\ stored <= OBUFLEN
  /\ stored < 0 =>
       /\ Owed # {}
       /\ \A p \in Owed : OBUFLEN - Cardinality(Writers) + 1 < FIFO * (passed[p] + 1)

\* Output does not stop by itself: while characters are left and output is not held,
\* the UART transmits or an interrupt is on its way.  The exception is output that
\* resumes after ^S by a character that is not echoed (ttyInter_in.c:71).
NoStall == (stored > 0 \/ epend > 0) /\ ~oheld /\ ~quiet => uart.thre \/ uart.busy

\* A writer returns, unless output is held or has been resumed without a kick.
WriterFinishes ==
  \A p \in Writers : task[p] # Idle ~> (task[p] = Idle \/ oheld \/ quiet)
=============================================================================
