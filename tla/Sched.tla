------------------------------- MODULE Sched -------------------------------
(***************************************************************************)
(* The process table and the scheduler: resched with its deferral          *)
(* (sched_cntl.c) and aging, and the calls that move a process between its *)
(* states (create.c, ready.c, resume.c, suspend.c, yield.c).  kill, which  *)
(* also touches the semaphore table, and the next-state relation are in    *)
(* Semaphores.  The detection that resched runs is in Locks.               *)
(***************************************************************************)
EXTENDS KeyQueue, FiniteSets

CONSTANTS
  NPROC,      \* size of the process table
  PRIOHALF,   \* half the number of priorities (2 ^ 15: they are 16 bits wide)
  Prios,      \* priorities that processes are created with; main's is among them
  MaxKey      \* bound on the keys that aging reaches

\* The range of a priority.
MinPrio == -PRIOHALF
MaxPrio == PRIOHALF - 1

ASSUME SchedAssumption ==
  /\ NPROC \in Nat /\ NPROC > 1
  /\ PRIOHALF \in Nat \ {0}
  /\ Prios # {} /\ Prios \subseteq 1 .. MaxPrio
  /\ MaxKey \in Nat

Pid      == 0 .. (NPROC - 1)
NULLPROC == 0
User     == Pid \ {NULLPROC}

VARIABLES
  prstate, prprio, currpid, prcount, nextpid,   \* the process table
  prsem,                                        \* the semaphore a process waits on
  readyqueue,                                   \* sequence of entries
  Defer,                                        \* deferral of rescheduling
  cpu                                           \* "up", "halted" by xdone, or "wild"

tableVars == <<prcount, nextpid, prsem>>
schedVars == <<prstate, prprio, currpid, readyqueue, Defer, cpu, tableVars>>

NoSem == -1

----------------------------------------------------------------------------
\* The null process has created main, made it ready and rescheduled.
SchedInit ==
  /\ prstate = [p \in Pid |-> IF p = 0 THEN "READY" ELSE IF p = 1 THEN "CURR" ELSE "FREE"]
  /\ \E k \in Prios : prprio = [p \in Pid |-> IF p = 1 THEN k ELSE 0]
  /\ currpid = 1 /\ prcount = 2 /\ nextpid = 2 % NPROC
  /\ prsem = [p \in Pid |-> NoSem]
  /\ readyqueue = <<[pid |-> NULLPROC, key |-> 0]>>
  /\ Defer = [ndefers |-> 0, attempt |-> FALSE]
  /\ cpu = "up"

\* A user process is executing, and no interrupt handler above it.
Caller == cpu = "up" /\ Defer.ndefers = 0 /\ currpid # NULLPROC

----------------------------------------------------------------------------
\* ready: s is the pair of process states and ready queue.  A pid that is out of
\* range or free is refused, any other state is overwritten.
Readied(s, p) ==
  IF p \notin Pid \/ s.st[p] = "FREE" THEN s
  ELSE [st |-> [s.st EXCEPT ![p] = "READY"], rq |-> Enqueue(s.rq, p, prprio[p], NPROC)]

Here(st) == [st |-> st, rq |-> readyqueue]

\* Faulty variant: the process switched out is aged, and no other.
AgesOld(p, old, new) == p = old

\* sched_age passes over the null process, the one switched out and the one
\* switched in.
Ages(p, old, new) == p \notin {NULLPROC, old, new}

\* It raises keys where they are, without moving entries; a key is 32 bits wide.
Aged(q, old, new) ==
  [i \in DOMAIN q |-> IF Ages(q[i].pid, old, new) THEN [q[i] EXCEPT !.key = @ + 1] ELSE q[i]]

\* Arithmetic on a priority, which keeps its low bits.
Wrap(k) == ((k - MinPrio) % (2 * PRIOHALF)) + MinPrio

AgedPrios(q, old, new) ==
  [p \in Pid |-> IF Ages(p, old, new) THEN Wrap(prprio[p] + Occurrences(q, p)) ELSE prprio[p]]

\* The context switch of resched, from process states and ready queue s.  The
\* head may be a process that was killed, or there may be none, once the queues
\* are damaged: the processor then executes from freed memory.
Switch(s) ==
  \E s1 \in {IF s.st[currpid] = "CURR" THEN Readied(s, currpid) ELSE s} :
    IF s1.rq = <<>> THEN
      cpu' = "wild" /\ prstate' = s1.st /\ UNCHANGED <<currpid, prprio, readyqueue>>
    ELSE \E new \in {Head(s1.rq).pid}, rest \in {Tail(s1.rq)} :
      /\ \A i \in DOMAIN rest : rest[i].key < MaxKey
      /\ currpid' = new
      /\ prstate' = [s1.st EXCEPT ![new] = "CURR"]
      /\ readyqueue' = Aged(rest, currpid, new)
      /\ prprio' = AgedPrios(rest, currpid, new)
      /\ cpu' = IF s1.st[new] = "FREE" THEN "wild" ELSE "up"

\* resched: while rescheduling is deferred it only records that it was called.
Resched(s) ==
  \/ /\ Defer.ndefers > 0
     /\ Defer' = [Defer EXCEPT !.attempt = TRUE]
     /\ prstate' = s.st /\ readyqueue' = s.rq
     /\ UNCHANGED <<prprio, currpid, cpu>>
  \/ /\ Defer.ndefers = 0
     /\ Switch(s) /\ UNCHANGED Defer

----------------------------------------------------------------------------
\* The clock interrupt at the end of a time slice, yield, and the loop of the
\* null process.
Preempt ==
  /\ cpu = "up" /\ Defer.ndefers = 0
  /\ Resched(Here(prstate))
  /\ UNCHANGED tableVars

\* newpid takes the first free entry from nextpid on, round the table.
NewPid ==
  LET at(i) == (nextpid + i) % NPROC
      is == {i \in 0 .. NPROC - 1 : prstate[at(i)] = "FREE"}
  IN  at(CHOOSE i \in is : \A j \in is : i <= j)

\* Faulty variant: the process is not counted.
CreateUncounted(k) ==
  /\ Caller /\ \E p \in Pid : prstate[p] = "FREE"
  /\ prstate' = [prstate EXCEPT ![NewPid] = "SUSP"]
  /\ prprio' = [prprio EXCEPT ![NewPid] = k]
  /\ nextpid' = (NewPid + 1) % NPROC
  /\ prsem' = [prsem EXCEPT ![NewPid] = NoSem]
  /\ UNCHANGED <<prcount, currpid, readyqueue, Defer, cpu>>

Create(k) ==
  /\ Caller /\ \E p \in Pid : prstate[p] = "FREE"
  /\ prstate' = [prstate EXCEPT ![NewPid] = "SUSP"]
  /\ prprio' = [prprio EXCEPT ![NewPid] = k]
  /\ nextpid' = (NewPid + 1) % NPROC
  /\ prcount' = prcount + 1
  /\ prsem' = [prsem EXCEPT ![NewPid] = NoSem]
  /\ UNCHANGED <<currpid, readyqueue, Defer, cpu>>

\* ready with RESCHED_NO, as main calls it for the processes it creates.
Ready(p) ==
  /\ Caller /\ prstate[p] = "SUSP"
  /\ prstate' = Readied(Here(prstate), p).st
  /\ readyqueue' = Readied(Here(prstate), p).rq
  /\ UNCHANGED <<prprio, currpid, Defer, cpu, tableVars>>

Resume(p) ==
  /\ Caller /\ prstate[p] = "SUSP"
  /\ Resched(Readied(Here(prstate), p))
  /\ UNCHANGED tableVars

Suspend(p) ==
  /\ Caller /\ p # NULLPROC
  /\ \/ /\ prstate[p] = "READY"
        /\ prstate' = [prstate EXCEPT ![p] = "SUSP"]
        /\ readyqueue' = Removed(readyqueue, p)
        /\ UNCHANGED <<prprio, currpid, Defer, cpu>>
     \/ /\ prstate[p] = "CURR"
        /\ Resched(Here([prstate EXCEPT ![p] = "SUSP"]))
  /\ UNCHANGED tableVars

----------------------------------------------------------------------------
\* An interrupt handler that defers rescheduling (ttyInterrupt.c).
DeferStart ==
  /\ cpu = "up" /\ Defer.ndefers = 0
  /\ Defer' = [ndefers |-> 1, attempt |-> FALSE]
  /\ UNCHANGED <<prstate, prprio, currpid, readyqueue, cpu, tableVars>>

\* Faulty variant: what was missed during the deferral is not made up for.
DeferStopQuiet ==
  /\ cpu = "up" /\ Defer.ndefers > 0
  /\ Defer' = [Defer EXCEPT !.ndefers = @ - 1]
  /\ UNCHANGED <<prstate, prprio, currpid, readyqueue, cpu, tableVars>>

\* Faulty variant: the count goes below zero.
DeferStopUnguarded ==
  /\ cpu = "up"
  /\ Defer' = [Defer EXCEPT !.ndefers = @ - 1]
  /\ UNCHANGED <<prstate, prprio, currpid, readyqueue, cpu, tableVars>>

\* With no deferral outstanding the call is an error and changes nothing.
DeferStop ==
  /\ cpu = "up" /\ Defer.ndefers > 0
  /\ Defer' = [Defer EXCEPT !.ndefers = @ - 1]
  /\ IF Defer.ndefers = 1 /\ Defer.attempt THEN Switch(Here(prstate))
     ELSE UNCHANGED <<prstate, prprio, currpid, readyqueue, cpu>>
  /\ UNCHANGED tableVars

ProcessCall ==
  \/ \E k \in Prios : Create(k)
  \/ \E p \in Pid : Ready(p) \/ Resume(p) \/ Suspend(p)

HandlerStep == DeferStart \/ DeferStop

----------------------------------------------------------------------------
SchedTypeOK ==
  /\ prstate \in [Pid -> {"FREE", "CURR", "READY", "SUSP", "WAIT"}]
  /\ prprio \in [Pid -> MinPrio .. MaxPrio]
  /\ currpid \in Pid /\ prcount \in 0 .. NPROC /\ nextpid \in Pid
  /\ readyqueue \in Seq([pid : Pid, key : Int]) /\ Len(readyqueue) <= NPROC
  /\ Defer \in [ndefers : 0 .. 1, attempt : BOOLEAN]
  /\ cpu \in {"up", "halted", "wild"}
=============================================================================
