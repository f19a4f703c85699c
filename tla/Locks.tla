------------------------------- MODULE Locks -------------------------------
(***************************************************************************)
(* The lock system of the kernel under preemption: system/lock.c,          *)
(* mutex.c, testandset.S, the rescheduling that every 50th time runs the   *)
(* deadlock detection (resched.c), deadlock_recover (deadlock.c) and       *)
(* process termination (kill.c).                                           *)
(*                                                                         *)
(* One processor: the actions of a process are those of currpid.  A system *)
(* call that runs with interrupts disabled is one action; acquire enables  *)
(* them while it spins, so it is three.  resched is part of the action     *)
(* that calls it, up to a detection, whose steps are those of Rag.  A      *)
(* process that waits for a lock is never blocked: it stays READY or CURR  *)
(* and spins, and its entry in the lock's wait_queue is bookkeeping.       *)
(*                                                                         *)
(* The processes are clients that acquire and release locks in any order;  *)
(* each releases only what it holds.  What else they do is in Permits.     *)
(***************************************************************************)
EXTENDS Rag, PidQueue, FiniteSets

CONSTANTS
  PERIOD,     \* resched runs the detection at this call (50)
  NCREATED,   \* locks that main has created when its workers start
  Permits     \* what clients do, beyond acquiring and releasing

\* They may ask for a lock they hold, delete locks, and end without releasing.
Behaviours == {"reacquire", "delete", "exit_holding"}

ASSUME LocksAssumption ==
  /\ PERIOD \in Nat \ {0}
  /\ NCREATED \in 0 .. NLOCK
  /\ Permits \subseteq Behaviours
  /\ NPROC > 1

NULLPROC == 0
User == Pid \ {NULLPROC}

VARIABLES
  prstate, currpid, prcount,    \* the process table
  readyqueue, calls,            \* the scheduler
  lstate, lock, wait_queue,     \* locktab
  pc, target,                   \* where a process is in acquire, and for which lock
  held,                         \* history: the locks a process has acquired and not released
  torn,                         \* history: a lock has been deleted under its users
  halted                        \* xdone has stopped the processor

procVars  == <<prstate, currpid, prcount, readyqueue, calls, halted>>
tableVars == <<lstate, lock, wait_queue>>
ownVars   == <<pc, target, held, torn>>
vars      == <<ragVars, procVars, tableVars, ownVars>>

----------------------------------------------------------------------------
\* main has created NCREATED locks and made its workers ready, and has returned.
Init ==
  /\ init_mat /\ DetectInit
  /\ currpid \in User
  /\ prstate = [p \in Pid |-> IF p = currpid THEN "CURR" ELSE "READY"]
  /\ prcount = NPROC
  /\ readyqueue = [n |-> [p \in Pid |-> IF p = currpid THEN 0 ELSE 1], size |-> NPROC - 1]
  /\ calls = 0 /\ halted = FALSE
  /\ lstate = [l \in Lock |-> IF l < NCREATED THEN "USED" ELSE "FREE"]
  /\ lock = [l \in Lock |-> FALSE]
  /\ wait_queue = [l \in Lock |-> EmptyQueue(Pid)]
  /\ pc = [p \in Pid |-> "run"] /\ target = [p \in Pid |-> 0]
  /\ held = [p \in Pid |-> {}] /\ torn = FALSE

\* The current process executes: no detection, and it is not one that was killed.
Running == dphase = "idle" /\ ~halted /\ pc[currpid] # "dead"

Me(what) == Running /\ pc[currpid] = what

----------------------------------------------------------------------------
\* resched.

Ready(rq, p) == Enqueue(rq, p, NPROC)

\* Faulty variant: the process that is switched out keeps its state.
SwitchUnmarked(st, rq) ==
  LET rq1 == IF st[currpid] = "CURR" THEN Ready(rq, currpid) ELSE rq
  IN  \E p \in Heads(rq1) :
        /\ currpid' = p
        /\ prstate' = [st EXCEPT ![p] = "CURR"]
        /\ readyqueue' = Dequeued(rq1, p)

\* The second half of resched, from process states st and ready queue rq: a
\* current process goes back on the queue, the head becomes current.
Switch(st, rq) ==
  LET st1 == IF st[currpid] = "CURR" THEN [st EXCEPT ![currpid] = "READY"] ELSE st
      rq1 == IF st[currpid] = "CURR" THEN Ready(rq, currpid) ELSE rq
  IN  \E p \in Heads(rq1) :
        /\ currpid' = p
        /\ prstate' = [st1 EXCEPT ![p] = "CURR"]
        /\ readyqueue' = Dequeued(rq1, p)

\* calls counts on after PERIOD when a nested resched finds the counter not yet
\* reset; it matters only that it is past PERIOD.
CountCall == calls' = IF calls > PERIOD THEN calls ELSE calls + 1

\* resched up to the context switch, or up to the detection that precedes it.
Resched(st, rq) ==
  /\ CountCall
  /\ \/ /\ calls + 1 = PERIOD
        /\ DetectEntry /\ prstate' = st /\ readyqueue' = rq /\ UNCHANGED currpid
     \/ /\ calls + 1 # PERIOD
        /\ Switch(st, rq) /\ UNCHANGED detectVars

\* The clock interrupt ends the time slice, or the process yields.
Preempt ==
  /\ Running /\ Resched(prstate, readyqueue)
  /\ UNCHANGED <<RAG, prcount, halted, tableVars, ownVars>>

----------------------------------------------------------------------------
\* acquire.

AcquireRequest(l) ==
  /\ Me("run") /\ currpid # NULLPROC
  /\ "reacquire" \in Permits \/ l \notin held[currpid]
  /\ lstate[l] = "USED"
  /\ wait_queue' = [wait_queue EXCEPT ![l] = Enqueue(@, currpid, NPROC)]
  /\ RAG' = rag_request(RAG, currpid, l)
  /\ pc' = [pc EXCEPT ![currpid] = "spin"]
  /\ target' = [target EXCEPT ![currpid] = l]
  /\ UNCHANGED <<detectVars, procVars, lstate, lock, held, torn>>

\* Faulty variant: the lock is taken without looking at its old value.
TestAndSetBlind ==
  /\ Me("spin")
  /\ lock' = [lock EXCEPT ![target[currpid]] = TRUE]
  /\ pc' = [pc EXCEPT ![currpid] = "got"]
  /\ UNCHANGED <<ragVars, procVars, lstate, wait_queue, target, held, torn>>

\* The test_and_set that ends the loop of mutex_lock; one that finds the lock
\* taken changes nothing.
TestAndSet ==
  /\ Me("spin") /\ ~lock[target[currpid]]
  /\ lock' = [lock EXCEPT ![target[currpid]] = TRUE]
  /\ pc' = [pc EXCEPT ![currpid] = "got"]
  /\ UNCHANGED <<ragVars, procVars, lstate, wait_queue, target, held, torn>>

AcquireReturn ==
  /\ Me("got")
  /\ RAG' = rag_alloc(RAG, currpid, target[currpid])
  /\ held' = [held EXCEPT ![currpid] = @ \union {target[currpid]}]
  /\ pc' = [pc EXCEPT ![currpid] = "run"]
  /\ target' = [target EXCEPT ![currpid] = 0]
  /\ UNCHANGED <<detectVars, procVars, tableVars, torn>>

----------------------------------------------------------------------------
\* release, lock_create, lock_delete.

\* Faulty variant: the process stays on the wait queue.
ReleaseQueued(l) ==
  /\ Me("run") /\ l \in held[currpid] /\ lstate[l] = "USED"
  /\ lock' = [lock EXCEPT ![l] = FALSE]
  /\ RAG' = rag_dealloc(RAG, currpid, l)
  /\ held' = [held EXCEPT ![currpid] = @ \ {l}]
  /\ UNCHANGED <<detectVars, procVars, lstate, wait_queue, pc, target, torn>>

Release(l) ==
  /\ Me("run") /\ l \in held[currpid]
  /\ lstate[l] = "USED"
  /\ wait_queue' = [wait_queue EXCEPT ![l] = Removed(@, currpid)]
  /\ lock' = [lock EXCEPT ![l] = FALSE]
  /\ RAG' = rag_dealloc(RAG, currpid, l)
  /\ held' = [held EXCEPT ![currpid] = @ \ {l}]
  /\ UNCHANGED <<detectVars, procVars, lstate, pc, target, torn>>

LockCreate(l) ==
  /\ Me("run") /\ currpid # NULLPROC
  /\ lstate[l] = "FREE" /\ \A k \in Lock : k < l => lstate[k] = "USED"
  /\ lstate' = [lstate EXCEPT ![l] = "USED"]
  /\ lock' = [lock EXCEPT ![l] = FALSE]
  /\ UNCHANGED <<ragVars, procVars, wait_queue, ownVars>>

\* The loop of lock_delete over a queue of at least two entries takes every
\* entry off; the edges of all but the last go, and all but the first are made
\* ready.  A queue of one entry is emptied before the loop, which never runs.
InUse(l) == \E p \in Pid : l \in held[p] \/ (pc[p] \in {"spin", "got"} /\ target[p] = l)

DeletedEdges(l, last) ==
  LET gone == Entries(Dequeued(wait_queue[l], last)) IN
  RAG \ ({<<Proc(p), l>> : p \in gone} \union {<<l, Proc(p)>> : p \in gone})

LockDelete(l) ==
  /\ Me("run") /\ currpid # NULLPROC /\ "delete" \in Permits
  /\ lstate[l] = "USED"
  /\ lstate' = [lstate EXCEPT ![l] = "FREE"]
  /\ lock' = [lock EXCEPT ![l] = FALSE]
  /\ wait_queue' = [wait_queue EXCEPT ![l] = EmptyQueue(Pid)]
  /\ \/ /\ wait_queue[l].size <= 1
        /\ RAG' = RAG /\ Resched(prstate, readyqueue)
     \/ /\ wait_queue[l].size > 1
        /\ \E first, last \in Entries(wait_queue[l]) :
             /\ first = last => wait_queue[l].n[first] > 1
             /\ RAG' = DeletedEdges(l, last)
             /\ \E rq \in EnqueuedAll(readyqueue, Dequeued(wait_queue[l], first), NPROC) :
                  Resched(prstate, rq)
  /\ torn' = (torn \/ InUse(l))
  /\ UNCHANGED <<prcount, halted, pc, target, held>>

----------------------------------------------------------------------------
\* kill, called by a process that returns from its function (userret), and the
\* resched in it; the last user process stops the processor.

LastProcess == prcount - 1 <= 1

Exit ==
  /\ Me("run") /\ currpid # NULLPROC
  /\ "exit_holding" \in Permits \/ held[currpid] = {}
  /\ prcount' = prcount - 1
  /\ \/ /\ LastProcess
        /\ halted' = TRUE
        /\ UNCHANGED <<detectVars, prstate, currpid, readyqueue, calls, pc>>
     \/ /\ ~LastProcess
        /\ pc' = [pc EXCEPT ![currpid] = "dead"]
        /\ Resched([prstate EXCEPT ![currpid] = "FREE"], readyqueue)
        /\ UNCHANGED halted
  /\ UNCHANGED <<RAG, tableVars, target, held, torn>>

----------------------------------------------------------------------------
\* The detection inside resched.

DetectStep == DfsStep /\ UNCHANGED <<procVars, tableVars, ownVars>>

\* Faulty variant: the counter is not reset.
DetectEndUncounted ==
  /\ DetectReturn /\ UNCHANGED calls /\ Switch(prstate, readyqueue)
  /\ UNCHANGED <<prcount, halted, tableVars, ownVars>>

\* deadlock_detect returns, and resched goes on with the context switch.
DetectEnd ==
  /\ DetectReturn /\ calls' = 0 /\ Switch(prstate, readyqueue)
  /\ UNCHANGED <<prcount, halted, tableVars, ownVars>>

\* deadlock_recover, first its loop: whoever is on the lock's wait queue, its
\* holder included, is entered in the ready queue, on which it may be already.
RecoverDrain ==
  /\ dphase = "recover" /\ VictimOK /\ Nonempty(wait_queue[lockid])
  /\ \E p \in Heads(wait_queue[lockid]) :
       /\ wait_queue' = [wait_queue EXCEPT ![lockid] = Dequeued(@, p)]
       /\ readyqueue' = Ready(readyqueue, p)
  /\ UNCHANGED <<ragVars, prstate, currpid, prcount, calls, halted, lstate, lock, ownVars>>

\* The first entries of deadlocks are no process and no lock: the tables are
\* indexed outside their bounds.
RecoverNobody ==
  /\ dphase = "recover" /\ ~VictimOK /\ dphase' = "fault"
  /\ UNCHANGED <<RAG, deadlocks, root, stack, visited, recur, reported, kept>>
  /\ UNCHANGED <<procVars, tableVars, ownVars>>

Drained == dphase = "recover" /\ VictimOK /\ ~Nonempty(wait_queue[lockid]) /\ ~halted

\* What deadlock_recover does after kill has returned.
RecoverRest ==
  /\ wait_queue' = [l \in Lock |-> Removed(wait_queue[l], victim)]
  /\ lock' = [lock EXCEPT ![lockid] = FALSE]
  /\ RAG' = rag_dealloc(RAG, victim, lockid)
  /\ held' = [held EXCEPT ![victim] = @ \ {lockid}]
  /\ RecoverReturn
  /\ UNCHANGED <<deadlocks, stack, visited, recur, reported, kept>>
  /\ UNCHANGED <<currpid, calls, lstate, target, torn>>

\* kill finds no process: it returns SYSERR.
RecoverAgain ==
  /\ Drained /\ prstate[victim] = "FREE"
  /\ RecoverRest /\ UNCHANGED <<prstate, prcount, readyqueue, halted, pc>>

RecoverLast ==
  /\ Drained /\ prstate[victim] # "FREE" /\ LastProcess
  /\ prcount' = prcount - 1 /\ halted' = TRUE
  /\ UNCHANGED <<ragVars, prstate, currpid, readyqueue, calls, tableVars, ownVars>>

\* The victim is on the ready queue: one entry of it is taken off.
RecoverReady ==
  /\ Drained /\ prstate[victim] = "READY" /\ ~LastProcess
  /\ prcount' = prcount - 1
  /\ readyqueue' = Removed(readyqueue, victim)
  /\ prstate' = [prstate EXCEPT ![victim] = "FREE"]
  /\ pc' = [pc EXCEPT ![victim] = "dead"]
  /\ RecoverRest /\ UNCHANGED halted

\* The victim is the process that called resched: kill reschedules, and the
\* detection is left where it is, in a process that is never to run again.
RecoverCurrent ==
  /\ Drained /\ prstate[victim] = "CURR" /\ ~LastProcess
  /\ prcount' = prcount - 1
  /\ pc' = [pc EXCEPT ![victim] = "dead"]
  /\ CountCall /\ Switch([prstate EXCEPT ![victim] = "FREE"], readyqueue)
  /\ dphase' = "idle" /\ root' = 0 /\ visited' = {} /\ recur' = {}
  /\ kept' = Len(deadlocks)
  /\ UNCHANGED <<RAG, deadlocks, stack, reported, halted, tableVars, target, held, torn>>

RecoverStep ==
  RecoverDrain \/ RecoverNobody \/ RecoverAgain \/ RecoverLast \/ RecoverReady \/ RecoverCurrent

\* The processor is stopped, lost, or executes on the stack of a killed process.
Stopped == (halted \/ dphase = "fault" \/ (dphase = "idle" /\ ~Running)) /\ UNCHANGED vars

----------------------------------------------------------------------------
LockStep ==
  \/ \E l \in Lock : AcquireRequest(l) \/ Release(l) \/ LockCreate(l) \/ LockDelete(l)
  \/ TestAndSet \/ AcquireReturn \/ Exit

DetectWork == DetectStep \/ DetectEnd \/ RecoverStep

Next == LockStep \/ Preempt \/ DetectWork \/ Stopped

\* The clock interrupts a process that runs, and the detection runs with
\* interrupts disabled.  No process is promised the processor.
Fairness == WF_vars(Preempt) /\ WF_vars(DetectWork)

Spec == Init /\ [][Next]_vars /\ Fairness

----------------------------------------------------------------------------
\* The shape of the state.
QueueType == [n : [Pid -> 0 .. NPROC], size : 0 .. NPROC]

TypeOK ==
  /\ RagTypeOK
  /\ prstate \in [Pid -> {"FREE", "CURR", "READY"}] /\ currpid \in Pid
  /\ prcount \in 0 .. NPROC /\ readyqueue \in QueueType
  /\ calls \in 0 .. (PERIOD + 1) /\ halted \in BOOLEAN
  /\ lstate \in [Lock -> {"FREE", "USED"}] /\ lock \in [Lock -> BOOLEAN]
  /\ wait_queue \in [Lock -> QueueType]
  /\ pc \in [Pid -> {"run", "spin", "got", "dead"}] /\ target \in [Pid -> Lock]
  /\ held \in [Pid -> SUBSET Lock] /\ torn \in BOOLEAN

\* Until the first cycle is reported after boot, or a lock is deleted that some
\* process holds or waits for: what recovery and lock_delete then do to the
\* tables does not preserve the invariants below.
Intact == deadlocks = <<>> /\ ~torn

\* p has taken l and not given it back: from the test_and_set in acquire on.
Owns(p, l)    == l \in held[p] \/ (pc[p] = "got" /\ target[p] = l)
Waits(p, l)   == pc[p] \in {"spin", "got"} /\ target[p] = l
OwnersOf(l)   == {p \in Pid : Owns(p, l)}

\* A lock has at most one owner, and its word is set exactly while it has one:
\* over the window between test_and_set and rag_alloc, through preemptions in
\* it, and past owners that have exited.
MutualExclusion ==
  Intact => \A l \in Lock :
    /\ \A p, q \in OwnersOf(l) : p = q
    /\ lock[l] <=> OwnersOf(l) # {}

\* The graph is the one the locks are in: an allocation edge for every lock that
\* is held, a request edge for every process inside acquire, and no other.
RagExact ==
  Intact => RAG = {e \in Vertex \X Vertex : \E l \in Lock, p \in Pid :
    (e = <<l, Proc(p)>> /\ l \in held[p]) \/ (e = <<Proc(p), l>> /\ Waits(p, l))}

\* A process is on the ready queue once if it is READY and not otherwise, and on
\* a lock's wait queue once for holding it and once for waiting for it: no
\* enqueue has been refused and nothing is left behind.
QueuesExact ==
  Intact =>
    /\ \A p \in Pid : readyqueue.n[p] = IF prstate[p] = "READY" THEN 1 ELSE 0
    /\ readyqueue.size = Cardinality({p \in Pid : prstate[p] = "READY"})
    /\ \A l \in Lock, p \in Pid :
         wait_queue[l].n[p] = (IF l \in held[p] THEN 1 ELSE 0) + (IF Waits(p, l) THEN 1 ELSE 0)

\* Whatever recovery and deletion do to the queues, one process at most is marked
\* as running, and it is the one that runs (process.h:12).
OnlyCurrentIsCurr == \A p \in Pid : prstate[p] = "CURR" => p = currpid

\* Processes that wait for one another in a circle, each for a lock that another
\* of them holds.
CircularWait ==
  \E C \in SUBSET User : C # {} /\ \A p \in C :
    pc[p] = "spin" /\ \E q \in C : target[p] \in held[q]

\* The first report since boot is of a real deadlock: processes that spin in
\* acquire and wait for one another, not of a transient in the graph.
FirstReportIsDeadlock == [][Intact /\ deadlocks' # <<>> => CircularWait]_vars

\* When the first report gives a process and a lock to recover, the process holds
\* that lock and waits for another: taking it away opens the circle.
FirstVictimHoldsLock ==
  [][Intact /\ deadlocks' # <<>> /\ VictimOK'
       => lockid' \in held[victim'] /\ pc[victim'] = "spin"]_vars

\* Nothing but the recovery, or a deletion of the locks themselves, resolves a
\* deadlock: no release, exit or test_and_set of any process, in or out of the
\* circle.
DeadlockIsStable == [][CircularWait /\ Intact' => CircularWait']_vars

\* A deadlock is reported in the end, whatever the other processes do meanwhile.
DeadlockIsReported == CircularWait ~> (deadlocks # <<>>)

\* kill removes a process from the system (kill.c:6): it is not current again.
KilledNeverRuns == \A p \in Pid : pc[p] = "dead" => prstate[p] # "CURR"
=============================================================================
