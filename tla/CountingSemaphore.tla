------------------------- MODULE CountingSemaphore -------------------------
(***************************************************************************)
(* What the semaphore calls promise (wait.c, signal.c, signaln.c,          *)
(* semreset.c, semdelete.c): semaphores with a value that is never         *)
(* negative, whose waiting processes sleep and are released in the order   *)
(* in which they came.                                                     *)
(***************************************************************************)
EXTENDS Naturals, Sequences

CONSTANTS Sem, Process, MaxValue

VARIABLES
  value,      \* the units a semaphore has to give
  waiting,    \* the processes that wait for one, in order
  asleep      \* the processes that do not run because they wait

absVars == <<value, waiting, asleep>>

AbsInit ==
  /\ value = [s \in Sem |-> 0] /\ waiting = [s \in Sem |-> <<>>]
  /\ asleep = {}

Take(s) ==
  /\ value[s] > 0 /\ value' = [value EXCEPT ![s] = @ - 1]
  /\ UNCHANGED <<waiting, asleep>>

Sleep(s, p) ==
  /\ value[s] = 0 /\ p \notin asleep
  /\ waiting' = [waiting EXCEPT ![s] = Append(@, p)] /\ asleep' = asleep \union {p}
  /\ UNCHANGED value

First(s, k) == {waiting[s][i] : i \in 1 .. k}

\* The first k processes go on, each with one unit; n units remain to be taken,
\* none while somebody waits.
Give(s, k, n) ==
  /\ k + n > 0 /\ (k < Len(waiting[s]) => n = 0)
  /\ waiting' = [waiting EXCEPT ![s] = SubSeq(@, k + 1, Len(@))]
  /\ asleep' = asleep \ First(s, k)
  /\ value' = [value EXCEPT ![s] = @ + n]

\* Creation, reset and deletion: nobody waits any more.
Set(s, n) ==
  /\ waiting' = [waiting EXCEPT ![s] = <<>>]
  /\ asleep' = asleep \ First(s, Len(waiting[s]))
  /\ value' = [value EXCEPT ![s] = n]

AbsNext ==
  \E s \in Sem :
    \/ Take(s)
    \/ \E p \in Process : Sleep(s, p)
    \/ \E n \in 0 .. MaxValue : \E k \in 0 .. Len(waiting[s]) : Give(s, k, n)
    \/ \E n \in 0 .. MaxValue : Set(s, n)

AbsSpec == AbsInit /\ [][AbsNext]_absVars
=============================================================================
