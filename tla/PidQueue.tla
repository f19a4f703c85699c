------------------------------ MODULE PidQueue ------------------------------
(***************************************************************************)
(* A queue of process ids (system/queue.c) as the lock and scheduler       *)
(* modules need it: how often a process is entered, and how many entries   *)
(* there are.  The order by key is left out: which entry is at the head is *)
(* a choice, except that the null process, whose key is 0 and never ages,  *)
(* comes after every process of a positive priority.                       *)
(***************************************************************************)
EXTENDS Integers, FiniteSets

\* A queue over the pids P: n[p] entries of p, size entries in all.
EmptyQueue(P) == [n |-> [p \in P |-> 0], size |-> 0]

\* enqueue refuses a full queue: its callers ignore the SYSERR it returns.
Enqueue(q, p, capacity) ==
  IF q.size >= capacity THEN q
  ELSE [n |-> [q.n EXCEPT ![p] = @ + 1], size |-> q.size + 1]

Dequeued(q, p) == [n |-> [q.n EXCEPT ![p] = @ - 1], size |-> q.size - 1]

\* Faulty variant: an entry is taken off the count although it was not found.
RemovedUnfound(q, p) == IF q.n[p] > 0 THEN Dequeued(q, p) ELSE [q EXCEPT !.size = @ - 1]

\* remove takes one entry of p out, wherever it is, and leaves the others.
Removed(q, p) == IF q.n[p] > 0 THEN Dequeued(q, p) ELSE q

Nonempty(q) == q.size > 0

Entries(q) == {p \in DOMAIN q.n : q.n[p] > 0}

\* The pids dequeue may return.
Heads(q) == IF Entries(q) \subseteq {0} THEN Entries(q) ELSE Entries(q) \ {0}

\* The entries that n[p] of every p make, told apart by number.
EntriesOf(n) == UNION {{p} \X (1 .. n[p]) : p \in DOMAIN n}

\* The queues that enqueueing all entries of more, in some order, may give: what
\* does not fit is dropped.
EnqueuedAll(q, more, capacity) ==
  LET room == capacity - q.size
      kept == IF more.size <= room THEN more.size ELSE room
  IN  {[n |-> [p \in DOMAIN q.n |-> q.n[p] + b[p]], size |-> q.size + kept] :
         b \in {c \in [DOMAIN q.n -> 0 .. more.size] :
                 /\ \A p \in DOMAIN c : c[p] <= more.n[p]
                 /\ Cardinality(EntriesOf(c)) = kept}}
=============================================================================
