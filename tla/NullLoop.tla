----------------------------- MODULE NullLoop -----------------------------
(***************************************************************************)
(* The loop of the null process (initialize.c), which calls resched with   *)
(* interrupts enabled.  Its calls are taken statement by statement, so     *)
(* that the clock interrupt runs the whole of resched between two of them. *)
(* The scheduler and its tables are those of Sched.  Whose stack is being  *)
(* executed on is kept apart from currpid: between the assignment of       *)
(* currpid and ctxsw they differ.  Each call of a queue is one step; it    *)
(* can be interrupted too, which is left out.                              *)
(***************************************************************************)
EXTENDS Sched

VARIABLES
  stack,     \* the process on whose stack the processor executes
  saved,     \* the stack that prstkptr of a process leads to, or NoStack
  at, oldpid \* the null process in its call of resched

loopVars == <<stack, saved, at, oldpid>>
vars == <<schedVars, loopVars>>

NoStack == -1

\* The null process has just made main ready, with interrupts enabled.
Init ==
  /\ prstate = [p \in Pid |-> IF p = NULLPROC THEN "CURR" ELSE IF p = 1 THEN "READY" ELSE "FREE"]
  /\ \E k \in Prios : /\ prprio = [p \in Pid |-> IF p = 1 THEN k ELSE 0]
                      /\ readyqueue = <<[pid |-> 1, key |-> k]>>
  /\ currpid = NULLPROC /\ prcount = 2 /\ nextpid = 2 % NPROC
  /\ prsem = [p \in Pid |-> NoSem]
  /\ Defer = [ndefers |-> 0, attempt |-> FALSE] /\ cpu = "up"
  /\ stack = NULLPROC /\ saved = [p \in Pid |-> IF p = 1 THEN 1 ELSE NoStack]
  /\ at = "loop" /\ oldpid = NULLPROC

\* ctxsw: the stack pointer is saved for old and taken up from new.
ctxsw(old, new) ==
  /\ saved' = [saved EXCEPT ![old] = stack]
  /\ stack' = saved'[new]

\* resched without an interruption, as the clock and the system calls have it.
Whole(s) ==
  /\ Resched(s)
  /\ IF cpu' = "wild" THEN UNCHANGED <<stack, saved>> ELSE ctxsw(currpid, currpid')
  /\ UNCHANGED <<at, oldpid, tableVars>>

----------------------------------------------------------------------------
\* The null process, while its stack is the one executed on.
Null(from, to) == cpu = "up" /\ stack = NULLPROC /\ at = from /\ at' = to

Loop ==
  /\ Null("loop", "enter") /\ readyqueue # <<>>
  /\ UNCHANGED <<schedVars, stack, saved, oldpid>>

Enter ==
  /\ Null("enter", IF prstate[currpid] = "CURR" THEN "enqueue" ELSE "dequeue")
  /\ oldpid' = currpid
  /\ prstate' = [prstate EXCEPT ![currpid] = IF @ = "CURR" THEN "READY" ELSE @]
  /\ UNCHANGED <<prprio, currpid, readyqueue, Defer, cpu, tableVars, stack, saved>>

PlaceBack ==
  /\ Null("enqueue", "dequeue")
  /\ readyqueue' = Enqueue(readyqueue, currpid, prprio[oldpid], NPROC)
  /\ UNCHANGED <<prstate, prprio, currpid, Defer, cpu, tableVars, stack, saved, oldpid>>

TakeNext ==
  /\ Null("dequeue", "current")
  /\ IF readyqueue = <<>> THEN cpu' = "wild" /\ UNCHANGED <<currpid, readyqueue>>
     ELSE /\ currpid' = Head(readyqueue).pid /\ readyqueue' = Tail(readyqueue)
          /\ UNCHANGED cpu
  /\ UNCHANGED <<prstate, prprio, Defer, tableVars, stack, saved, oldpid>>

MakeCurrent ==
  /\ Null("current", "age")
  /\ prstate' = [prstate EXCEPT ![currpid] = "CURR"]
  /\ UNCHANGED <<prprio, currpid, readyqueue, Defer, cpu, tableVars, stack, saved, oldpid>>

AgeOthers ==
  /\ Null("age", "ctxsw")
  /\ readyqueue' = Aged(readyqueue, oldpid, currpid)
  /\ prprio' = AgedPrios(readyqueue, oldpid, currpid)
  /\ UNCHANGED <<prstate, currpid, Defer, cpu, tableVars, stack, saved, oldpid>>

SwitchStacks ==
  /\ Null("ctxsw", "loop")
  /\ ctxsw(oldpid, currpid)
  /\ UNCHANGED <<schedVars, oldpid>>

----------------------------------------------------------------------------
\* The end of the quantum, wherever the processor is.
Clock == cpu = "up" /\ Whole(Here(prstate))

\* A process waits (wait.c), as main does for a key; which semaphore is left out.
Waits ==
  /\ cpu = "up" /\ stack \notin {NULLPROC, NoStack}
  /\ Whole(Here([prstate EXCEPT ![currpid] = "WAIT"]))

\* An interrupt signals it (signal.c).
Wakes ==
  /\ cpu = "up"
  /\ \E p \in Pid : prstate[p] = "WAIT" /\ Whole(Readied(Here(prstate), p))

Next ==
  \/ Loop \/ Enter \/ PlaceBack \/ TakeNext \/ MakeCurrent \/ AgeOthers \/ SwitchStacks
  \/ Clock \/ Waits \/ Wakes

Spec == Init /\ [][Next]_vars

\* resched "Force[s] context switch to next ready process" (resched.c:43) and "assumes
\* interrupts are disabled" (resched.c:9): there is always a process to switch to, the null
\* process at least.
SwitchesToReady == cpu # "wild"
=============================================================================
