------------------------------ MODULE KeyQueue ------------------------------
(***************************************************************************)
(* The queues of system/queue.c with their order: a sequence of entries,   *)
(* each a process and a key, the head first.                               *)
(***************************************************************************)
EXTENDS Integers, Sequences, SequencesExt, FiniteSets

\* Faulty variant: the search for the place stops one entry late.
EnqueueLate(q, p, k, capacity) ==
  IF Len(q) >= capacity THEN q
  ELSE LET i == SelectInSeq(q, LAMBDA e : e.key < k)
       IN  InsertAt(q, IF i \in {0, Len(q)} THEN Len(q) + 1 ELSE i + 1, [pid |-> p, key |-> k])

\* Faulty variant: the entry goes before those with the same key.
EnqueueFirst(q, p, k, capacity) ==
  IF Len(q) >= capacity THEN q
  ELSE LET i == SelectInSeq(q, LAMBDA e : e.key <= k)
       IN  InsertAt(q, IF i = 0 THEN Len(q) + 1 ELSE i, [pid |-> p, key |-> k])

\* enqueue puts the entry before the first one with a smaller key, behind those
\* with the same key; a full queue is left as it is.
Enqueue(q, p, k, capacity) ==
  IF Len(q) >= capacity THEN q
  ELSE LET i == SelectInSeq(q, LAMBDA e : e.key < k)
       IN  InsertAt(q, IF i = 0 THEN Len(q) + 1 ELSE i, [pid |-> p, key |-> k])

\* remove takes the first entry of p out, if there is one.
Removed(q, p) == RemoveFirstMatch(q, LAMBDA e : e.pid = p)

\* The pids that the first n calls of dequeue return; a call that finds the queue
\* empty returns EMPTY, which is no process.
FirstPids(q, n) == [i \in 1 .. (IF n <= Len(q) THEN n ELSE Len(q)) |-> q[i].pid]

Dropped(q, n) == SubSeq(q, n + 1, Len(q))

Occurrences(q, p) == Cardinality({i \in DOMAIN q : q[i].pid = p})
=============================================================================
