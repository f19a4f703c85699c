----------------------------- MODULE Semaphores -----------------------------
(***************************************************************************)
(* The semaphore table (semcreate.c, wait.c, signal.c, signaln.c,          *)
(* semreset.c, semdelete.c) and kill.c, over the scheduler.  Each call     *)
(* runs with interrupts disabled and is one action, the resched in it      *)
(* included.  Processes make any call at any time; interrupt handlers      *)
(* signal, with rescheduling deferred (ttyInterrupt.c, input) or not       *)
(* (output).                                                               *)
(***************************************************************************)
EXTENDS Sched

CONSTANTS
  NSEM,          \* size of the semaphore table
  MaxCount,      \* bound on a semaphore's count
  KillsWaiting   \* do processes kill processes that wait on a semaphore?

ASSUME SemaphoresAssumption ==
  NSEM \in Nat \ {0} /\ MaxCount \in Nat \ {0} /\ KillsWaiting \in BOOLEAN

Sem == 0 .. (NSEM - 1)

VARIABLES
  sstate, scount, squeue,    \* semtab
  nextsem

semVars == <<sstate, scount, squeue, nextsem>>
vars    == <<schedVars, semVars>>

Init ==
  /\ SchedInit
  /\ sstate = [s \in Sem |-> "FREE"] /\ scount = [s \in Sem |-> 0]
  /\ squeue = [s \in Sem |-> <<>>] /\ nextsem = 0

----------------------------------------------------------------------------
\* newsem takes the first free entry from nextsem on, round the table.
NewSem ==
  LET at(i) == (nextsem + i) % NSEM
      is == {i \in 0 .. NSEM - 1 : sstate[at(i)] = "FREE"}
  IN  at(CHOOSE i \in is : \A j \in is : i <= j)

Semcreate(n) ==
  /\ Caller /\ \E s \in Sem : sstate[s] = "FREE"
  /\ sstate' = [sstate EXCEPT ![NewSem] = "USED"]
  /\ scount' = [scount EXCEPT ![NewSem] = n]
  /\ nextsem' = (NewSem + 1) % NSEM
  /\ UNCHANGED <<schedVars, squeue>>

Wait(s) ==
  /\ Caller /\ sstate[s] = "USED"
  /\ scount' = [scount EXCEPT ![s] = @ - 1]
  /\ \/ /\ scount[s] > 0
        /\ UNCHANGED <<schedVars, squeue>>
     \/ /\ scount[s] <= 0
        /\ prsem' = [prsem EXCEPT ![currpid] = s]
        /\ squeue' = [squeue EXCEPT ![s] = Enqueue(@, currpid, 0, NPROC)]
        /\ Resched(Here([prstate EXCEPT ![currpid] = "WAIT"]))
        /\ UNCHANGED <<prcount, nextpid>>
  /\ UNCHANGED <<sstate, nextsem>>

\* The queue of s loses its first n entries, which are made ready in turn.
ReadyFirst(s, n) ==
  LET pids == FirstPids(squeue[s], n)
      after[k \in 0 .. Len(pids)] ==
        IF k = 0 THEN Here(prstate) ELSE Readied(after[k - 1], pids[k])
  IN  after[Len(pids)]

\* ready refuses the pid that the queue gives, and does not reschedule.
Refused(s) == squeue[s] = <<>> \/ prstate[Head(squeue[s]).pid] = "FREE"

\* A process, or an interrupt handler on top of the current one.
Signal(s) ==
  /\ cpu = "up" /\ (currpid # NULLPROC \/ Defer.ndefers > 0)
  /\ sstate[s] = "USED" /\ scount[s] < MaxCount
  /\ scount' = [scount EXCEPT ![s] = @ + 1]
  /\ \/ /\ scount[s] >= 0
        /\ UNCHANGED <<schedVars, squeue>>
     \/ /\ scount[s] < 0
        /\ squeue' = [squeue EXCEPT ![s] = Dropped(@, 1)]
        /\ IF Refused(s) THEN UNCHANGED schedVars
           ELSE Resched(ReadyFirst(s, 1)) /\ UNCHANGED tableVars
  /\ UNCHANGED <<sstate, nextsem>>

\* How many of n signals find the count negative.
Owed(s, n) == IF scount[s] >= 0 THEN 0 ELSE IF n <= -scount[s] THEN n ELSE -scount[s]

Signaln(s, n) ==
  /\ cpu = "up" /\ sstate[s] = "USED" /\ scount[s] + n <= MaxCount
  /\ scount' = [scount EXCEPT ![s] = @ + n]
  /\ squeue' = [squeue EXCEPT ![s] = Dropped(@, Owed(s, n))]
  /\ Resched(ReadyFirst(s, Owed(s, n)))
  /\ UNCHANGED <<tableVars, sstate, nextsem>>

Semreset(s, n) ==
  /\ Caller /\ sstate[s] = "USED"
  /\ squeue' = [squeue EXCEPT ![s] = <<>>]
  /\ scount' = [scount EXCEPT ![s] = n]
  /\ Resched(ReadyFirst(s, Len(squeue[s])))
  /\ UNCHANGED <<tableVars, sstate, nextsem>>

\* The loop stops at the first count that is not negative, having raised it too.
Semdelete(s) ==
  /\ Caller /\ sstate[s] = "USED" /\ scount[s] < MaxCount
  /\ sstate' = [sstate EXCEPT ![s] = "FREE"]
  /\ squeue' = [squeue EXCEPT ![s] = Dropped(@, Owed(s, -scount[s]))]
  /\ scount' = [scount EXCEPT ![s] = (IF @ < 0 THEN 0 ELSE @) + 1]
  /\ Resched(ReadyFirst(s, Owed(s, -scount[s])))
  /\ UNCHANGED <<tableVars, nextsem>>

----------------------------------------------------------------------------
\* kill.  A process that kills itself, or returns from its function, reschedules
\* on a stack it has freed (kill.c:32).  It is dispatched again only if a killed
\* waiter has left it an entry; then nothing is promised of what it executes (cpu
\* is "wild"), the fall-through at kill.c:37 being one of the outcomes.
KillEnd(p, st, rq) ==
  /\ prcount' = prcount - 1
  /\ \/ /\ prcount - 1 <= 1          \* xdone
        /\ cpu' = "halted"
        /\ UNCHANGED <<prstate, prprio, currpid, readyqueue, Defer, scount>>
     \/ /\ prcount - 1 > 1
        /\ \/ /\ st = "CURR"
              /\ Resched(Here([prstate EXCEPT ![p] = "FREE"]))
              /\ UNCHANGED scount
           \/ /\ st # "CURR"
              /\ st = "WAIT" => KillsWaiting /\ scount[prsem[p]] < MaxCount
              /\ prstate' = [prstate EXCEPT ![p] = "FREE"]
              /\ readyqueue' = IF st = "SUSP" THEN readyqueue ELSE rq
              /\ scount' = IF st = "WAIT" THEN [scount EXCEPT ![prsem[p]] = @ + 1] ELSE scount
              /\ UNCHANGED <<prprio, currpid, Defer, cpu>>
  /\ UNCHANGED <<nextpid, prsem, sstate, squeue, nextsem>>

\* Faulty variant: a ready process stays on the ready queue.
KillReadyQueued(p) ==
  /\ Caller /\ p # NULLPROC /\ prstate[p] # "FREE"
  /\ KillEnd(p, prstate[p], readyqueue)

\* A waiting process is taken off the ready queue, on which it is not, and its
\* entry on the semaphore's queue stays.
Kill(p) ==
  /\ Caller /\ p # NULLPROC /\ prstate[p] # "FREE"
  /\ KillEnd(p, prstate[p], Removed(readyqueue, p))

\* The processor is stopped, or executes from freed memory.
Stopped == cpu # "up" /\ UNCHANGED vars

Next ==
  \/ (ProcessCall \/ HandlerStep \/ Preempt) /\ UNCHANGED semVars
  \/ \E n \in 0 .. MaxCount : Semcreate(n) \/ \E s \in Sem : Semreset(s, n)
  \/ \E s \in Sem, n \in 0 .. NPROC : Signaln(s, n)
  \/ \E s \in Sem : Wait(s) \/ Signal(s) \/ Semdelete(s)
  \/ \E p \in Pid : Kill(p)
  \/ Stopped

\* Handlers end; the clock is the interrupt of the highest priority and comes
\* again and again while interrupts are enabled.
Fairness == SF_vars(Preempt /\ UNCHANGED semVars) /\ WF_vars(DeferStop /\ UNCHANGED semVars)

Spec == Init /\ [][Next]_vars /\ Fairness
----------------------------------------------------------------------------
TypeOK ==
  /\ SchedTypeOK
  /\ prsem \in [Pid -> Sem \union {NoSem}]
  /\ sstate \in [Sem -> {"FREE", "USED"}] /\ scount \in [Sem -> -NPROC .. MaxCount]
  /\ \A s \in Sem : squeue[s] \in Seq([pid : Pid, key : {0}]) /\ Len(squeue[s]) <= NPROC
  /\ nextsem \in Sem

\* The ready queue is in descending order of keys (queue.c:57) while priorities are
\* positive, over the places enqueue chooses and over aging, which raises keys in place
\* and passes over the null process and the one that has just been enqueued.
ReadySorted ==
  (\A p \in User : prprio[p] >= 0)
    => \A i, j \in DOMAIN readyqueue : i < j => readyqueue[i].key >= readyqueue[j].key

\* The process states and the queues agree: one process is current, the READY
\* ones are on the ready queue once, and those in WAIT are on the queue of their
\* semaphore once and on no other.  A semaphore in use whose count is -n has n
\* processes on its queue, any other none.
StatesMatchQueues ==
  /\ \A p \in Pid :
       /\ prstate[p] = "CURR" <=> p = currpid /\ cpu # "wild"
       /\ Occurrences(readyqueue, p) = IF prstate[p] = "READY" THEN 1 ELSE 0
       /\ \A s \in Sem :
            Occurrences(squeue[s], p) = IF prstate[p] = "WAIT" /\ prsem[p] = s THEN 1 ELSE 0
  /\ \A s \in Sem :
       Len(squeue[s]) = IF sstate[s] = "USED" /\ scount[s] < 0 THEN -scount[s] ELSE 0

\* The null process runs only while no other process is ready, except inside a
\* handler: no call and no handler leaves without the reschedule that a process
\* made ready meanwhile is owed.
IdleMeansNothingReady ==
  currpid = NULLPROC /\ Defer.ndefers = 0
    => \A p \in User : prstate[p] = "READY" => prprio[p] <= 0

\* The processor is stopped when the last user process ends and never lost.
\* prcount counts the processes there are.
CountedProcesses ==
  cpu # "wild" /\ (cpu = "up" => prcount = Cardinality({p \in Pid : prstate[p] # "FREE"}))

\* A ready process does not stay ready for ever, whatever the priorities of the
\* others, until some priority is at its maximum: aging brings it to the head.
ReadyRuns ==
  \A p \in User : prstate[p] = "READY" ~>
    (prstate[p] # "READY" \/ cpu # "up" \/ \E q \in User : prprio[q] = MaxPrio)

\* The semaphores are counting semaphores that release in the order of arrival.
Promise == INSTANCE CountingSemaphore WITH
  Process  <- User,
  MaxValue <- MaxCount,
  value    <- [s \in Sem |-> IF scount[s] > 0 THEN scount[s] ELSE 0],
  waiting  <- [s \in Sem |-> [i \in DOMAIN squeue[s] |-> squeue[s][i].pid]],
  asleep   <- {p \in Pid : prstate[p] = "WAIT"}

KeepsPromise == Promise!AbsSpec

\* signal releases a process if one is waiting (signal.c:6).
SignalReleases ==
  [][\A s \in Sem :
       Signal(s) /\ (\E p \in Pid : prstate[p] = "WAIT" /\ prsem[p] = s)
         => \E p \in Pid : prstate[p] = "WAIT" /\ prsem[p] = s /\ prstate'[p] # "WAIT"]_vars
=============================================================================
