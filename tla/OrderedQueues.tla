---------------------------- MODULE OrderedQueues ----------------------------
(***************************************************************************)
(* What the queue calls promise (queue.h): queues of processes in the      *)
(* order of their keys, which the scheduler (Sched, Semaphores) takes for  *)
(* granted.  Every call is one step.                                       *)
(***************************************************************************)
EXTENDS KeyQueue

CONSTANTS Queue, Process, Key, Capacity

VARIABLES
  contents,    \* the entries of each queue, in order
  answer       \* what the last call returned

orderedVars == <<contents, answer>>

SYSERR == -1
OK     == 1
EMPTY  == -1

OrderedInit == contents = [q \in Queue |-> <<>>] /\ answer = OK

Becomes(q, entries, value) == contents' = [contents EXCEPT ![q] = entries] /\ answer' = value

Put(q, p, k) ==
  Becomes(q, Enqueue(contents[q], p, k, Capacity),
          IF Len(contents[q]) < Capacity THEN OK ELSE SYSERR)

TakeFirst(q) ==
  Becomes(q, Dropped(contents[q], 1),
          IF contents[q] = <<>> THEN EMPTY ELSE contents[q][1].pid)

Take(q, p) ==
  Becomes(q, Removed(contents[q], p),
          IF contents[q] = <<>> THEN EMPTY ELSE IF Occurrences(contents[q], p) = 0 THEN SYSERR ELSE p)

Ask(q, p) ==
  Becomes(q, contents[q], IF Occurrences(contents[q], p) > 0 THEN OK ELSE EMPTY)

\* Every entry ages once, except those of certain processes.
Age(q, spared) ==
  Becomes(q, [i \in DOMAIN contents[q] |->
                IF contents[q][i].pid \in spared THEN contents[q][i]
                ELSE [contents[q][i] EXCEPT !.key = @ + 1]], answer)

OrderedNext ==
  \E q \in Queue :
    \/ TakeFirst(q)
    \/ \E p \in Process : Take(q, p) \/ Ask(q, p) \/ \E k \in Key : Put(q, p, k)
    \/ \E spared \in SUBSET Process : Age(q, spared)

OrderedSpec == OrderedInit /\ [][OrderedNext]_orderedVars
=============================================================================
