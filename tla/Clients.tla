------------------------------ MODULE Clients ------------------------------
(***************************************************************************)
(* The two programs the repository runs on the locks: the dining           *)
(* philosophers (system/main.c) and the two workers that take two locks in *)
(* opposite orders (system/main.dl.c).  A process is the list of lock      *)
(* calls it has still to make; its delays and its output are left out, and *)
(* the random choice between thinking and eating is free.  main gives the  *)
(* printer lock id 0, and the model gives philosopher or worker i pid i+1  *)
(* (in the code main itself is pid 1 and has exited).                      *)
(***************************************************************************)
EXTENDS Locks

CONSTANT N       \* the number of philosophers and forks

\* There is room for the two workers as well, and for their main, which has ended.
ASSUME ClientsAssumption ==
  N \in Nat /\ N > 2 /\ NPROC = N + 1 /\ NLOCK = N + 1 /\ NCREATED = NLOCK /\ Permits = {}

VARIABLES
  program,     \* "philosophers" or "workers"
  plan         \* the lock calls a process has still to make

clientVars == <<vars, program, plan>>

printer_lock == 0
forks(i)     == 1 + i

Call(what, l) == [call |-> what, l |-> l]
With(l, body) == <<Call("acquire", l)>> \o body \o <<Call("release", l)>>

\* Faulty variant: the printer is not given back.
WorkUnreleased == <<Call("acquire", printer_lock)>>

\* Output under the printer lock: the body of work(), and the kprintf of a philosopher.
Work == With(printer_lock, <<>>)

right(p) == forks(p - 1)
left(p)  == forks(N - ((N - (p - 1)) % N) - 1)

Think(p)      == Work
Eat(p)        == With(right(p), With(left(p), Work))

\* A worker works under its first lock, then again under both.
mylock(i)     == 1 + i
Worker(a, b)  == With(mylock(a), Work \o With(mylock(b), Work))

StartPlan(p) ==
  IF program = "philosophers" \/ p \notin {1, 2} THEN <<>>
  ELSE IF p = 1 THEN Worker(0, 1) ELSE Worker(1, 0)

ClientInit ==
  /\ Init /\ program \in {"philosophers", "workers"}
  /\ plan = [p \in Pid |-> StartPlan(p)]

\* The lists the current process may go on with: a philosopher whose turn is over
\* starts another.
Plans ==
  IF plan[currpid] # <<>> THEN {plan[currpid]}
  ELSE IF program = "philosophers" /\ currpid # NULLPROC THEN {Think(currpid), Eat(currpid)}
  ELSE {}

MakeCall ==
  \E s \in Plans :
    /\ \/ Head(s).call = "acquire" /\ AcquireRequest(Head(s).l)
       \/ Head(s).call = "release" /\ Release(Head(s).l)
    /\ plan' = [plan EXCEPT ![currpid] = Tail(s)]

\* A worker returns from its function.
Return == Plans = {} /\ Exit /\ UNCHANGED plan

InCall == (TestAndSet \/ AcquireReturn) /\ UNCHANGED plan

ClientStep == MakeCall \/ Return \/ InCall

System == (Preempt \/ DetectWork \/ Stopped) /\ UNCHANGED plan

ClientNext == (ClientStep \/ System) /\ UNCHANGED program

Dispatch(p) == ClientNext /\ currpid # p /\ currpid' = p

\* Aging raises the priority of every process that is passed over (resched.c:49),
\* so each gets the processor again and again; what a process finds it can do
\* again and again while it has the processor, it does in the end.
ClientFairness ==
  /\ WF_clientVars(Preempt /\ UNCHANGED <<program, plan>>)
  /\ WF_clientVars(DetectWork /\ UNCHANGED <<program, plan>>)
  /\ \A p \in User : SF_clientVars(Dispatch(p)) /\ SF_clientVars(ClientStep /\ UNCHANGED program /\ currpid = p)

ClientSpec == ClientInit /\ [][ClientNext]_clientVars /\ ClientFairness

----------------------------------------------------------------------------
\* The only deadlock of the philosophers is the one of the textbook: each holds
\* its right fork, waits for its left, and the printer is free.
OnlyTheTextbookDeadlock ==
  program = "philosophers" /\ Intact /\ CircularWait =>
    /\ \A p \in User : held[p] = {right(p)} /\ Waits(p, left(p))
    /\ ~lock[printer_lock]

\* In these programs detection always hands a process and a lock to the recovery
\* the first time.  In general it may not: a process that holds the lock the scan
\* starts at, and through another lock closes a cycle, puts that first lock first.
FirstVictimOK == [][Intact /\ deadlocks' # <<>> => VictimOK']_clientVars

\* The workers end, and with them the system, unless a deadlock is reported.
WorkersEndOrDeadlock == <>(program = "workers" => halted \/ deadlocks # <<>>)
=============================================================================
