---------------------------- MODULE LinkedQueues ----------------------------
(***************************************************************************)
(* The queues of system/queue.c as they are in memory: entries linked both *)
(* ways, a head, a tail and a size.  All queues take their entries from    *)
(* one heap and give them back to it.  A call is a step, an iteration of   *)
(* its loop another: calls run with interrupts disabled and do not         *)
(* interleave, but the queues change hands between them.  A pid may be     *)
(* entered more than once, as recovery and lock_delete do.                 *)
(***************************************************************************)
EXTENDS Integers, Sequences, FiniteSets

CONSTANTS
  NPROC,     \* processes, and the capacity of a queue
  Queue,
  Addr,      \* where entries may be
  Keys,      \* the keys that processes are entered with
  MaxKey     \* bound on the keys that aging reaches

NULL == 0

ASSUME QueuesAssumption ==
  /\ NPROC \in Nat \ {0}
  /\ NULL \notin Addr
  /\ Keys \subseteq Int /\ Keys # {} /\ MaxKey \in Int

SYSERR == -1
OK     == 1
EMPTY  == -1
NULLPROC == 0
Pid == 0 .. NPROC - 1

VARIABLES
  queue,     \* head, tail and size of each
  entry,     \* what is in memory: Blank in a place that is free
  used,      \* the places that have been allocated
  call,      \* the call that is walking along a queue
  ret        \* what the last call returned

vars == <<queue, entry, used, call, ret>>

None  == [op |-> "none"]
Blank == [pid |-> NULLPROC, key |-> 0, next |-> NULL, prev |-> NULL]

\* newqueue
newqueue == [head |-> NULL, tail |-> NULL, size |-> 0]

Init ==
  /\ queue = [q \in Queue |-> newqueue] /\ entry = [a \in Addr |-> Blank]
  /\ used = {} /\ call = None /\ ret = OK

isempty(q) == queue[q].size = 0
isfull(q)  == queue[q].size >= NPROC

Idle == call.op = "none"
At(op) == call.op = op

Return(value) == call' = None /\ ret' = value
Walk == call' = [call EXCEPT !.curr = entry[@].next] /\ UNCHANGED <<queue, entry, used, ret>>
Unchanged == UNCHANGED <<queue, entry, used>>

\* An assignment through a pointer that may be NULL.
SetNext(e, a, to) == IF a = NULL THEN e ELSE [e EXCEPT ![a].next = to]
SetPrev(e, a, to) == IF a = NULL THEN e ELSE [e EXCEPT ![a].prev = to]

\* free: what is left of an entry when the rest of memory is e.
free(e, a) == used' = used \ {a} /\ entry' = [e EXCEPT ![a] = Blank]

----------------------------------------------------------------------------
\* enqueue: the new entry has been written when the walk begins.
EnqueueFull(q) == Idle /\ isfull(q) /\ Return(SYSERR) /\ Unchanged

EnqueueCall(q, p, k) ==
  /\ Idle /\ ~isfull(q)
  /\ \E a \in Addr \ used :
       /\ used' = used \union {a}
       /\ entry' = [entry EXCEPT ![a] = [pid |-> p, key |-> k, next |-> NULL, prev |-> NULL]]
       /\ call' = [op |-> "enqueue", q |-> q, curr |-> queue[q].head, new |-> a, key |-> k]
  /\ UNCHANGED <<queue, ret>>

\* malloc has no room and answers SYSERR, through which the entry is written: nothing is
\* said of what follows.
EnqueueLost(q) ==
  /\ Idle /\ ~isfull(q) /\ Addr \subseteq used
  /\ call' = [op |-> "lost", q |-> q, curr |-> NULL]
  /\ Unchanged /\ UNCHANGED ret

Lost == At("lost") /\ UNCHANGED vars

\* Faulty variant: the entry goes before those with the same key.
PassesGreater == call.curr # NULL /\ entry[call.curr].key > call.key

\* The place is before the first entry with a smaller key, or behind all.
Passes == call.curr # NULL /\ entry[call.curr].key >= call.key

EnqueueWalk == At("enqueue") /\ Passes /\ Walk

\* Faulty variant: the entry behind the new one keeps its link to the one before.
LinkOneWay(new, before, behind) ==
  SetNext([entry EXCEPT ![new].prev = before, ![new].next = behind], before, new)

\* The links of an entry put between two others.
Link(new, before, behind) ==
  SetPrev(SetNext([entry EXCEPT ![new].prev = before, ![new].next = behind], before, new),
          behind, new)

EnqueueLink ==
  /\ At("enqueue") /\ ~Passes
  /\ LET q      == queue[call.q]
         before == IF call.curr = NULL THEN q.tail ELSE entry[call.curr].prev
     IN  /\ entry' = Link(call.new, before, call.curr)
         /\ queue' = [queue EXCEPT ![call.q] =
                        [head |-> IF before = NULL THEN call.new ELSE q.head,
                         tail |-> IF call.curr = NULL THEN call.new ELSE q.tail,
                         size |-> q.size + 1]]
  /\ UNCHANGED used /\ Return(OK)

----------------------------------------------------------------------------
\* All calls but enqueue and sched_age, of an empty queue.
Empty(q) == Idle /\ isempty(q) /\ Return(EMPTY) /\ Unchanged

\* dequeue, and getfirst, which calls it.
Dequeue(q) ==
  /\ Idle /\ ~isempty(q)
  /\ LET head    == queue[q].head
         newHead == entry[head].next
     IN  /\ queue' = [queue EXCEPT ![q] =
                        [head |-> newHead, tail |-> IF newHead = NULL THEN NULL ELSE @.tail,
                         size |-> @.size - 1]]
         /\ free(SetPrev(entry, newHead, NULL), head) /\ Return(entry[head].pid)

----------------------------------------------------------------------------
\* remove, and getlast, which removes the pid at the tail.
Search(op, q, p) ==
  /\ call' = [op |-> op, q |-> q, curr |-> queue[q].head, pid |-> p]
  /\ Unchanged /\ UNCHANGED ret

RemoveCall(q, p) == Idle /\ ~isempty(q) /\ Search("remove", q, p)

Getlast(q) == Idle /\ ~isempty(q) /\ Search("remove", q, entry[queue[q].tail].pid)

Found  == call.curr # NULL /\ entry[call.curr].pid = call.pid
Passed == call.curr # NULL /\ entry[call.curr].pid # call.pid

RemoveWalk == At("remove") /\ Passed /\ Walk


\* What the queue is without an entry.
Unlink(q, a) ==
  [head |-> IF a = q.head THEN entry[a].next ELSE q.head,
   tail |-> IF a = q.tail THEN entry[a].prev ELSE q.tail,
   size |-> q.size - 1]

RemoveUnlink ==
  /\ At("remove") /\ Found
  /\ LET a == call.curr
     IN  /\ queue' = [queue EXCEPT ![call.q] = Unlink(@, a)]
         /\ free(SetNext(SetPrev(entry, entry[a].next, entry[a].prev),
                         entry[a].prev, entry[a].next), a)
         /\ Return(call.pid)

RemoveMissing == At("remove") /\ call.curr = NULL /\ Return(SYSERR) /\ Unchanged

----------------------------------------------------------------------------
\* getbypid: its callers only ask whether there is an entry.
GetbypidCall(q, p) == Idle /\ ~isempty(q) /\ Search("getbypid", q, p)

GetbypidWalk == At("getbypid") /\ Passed /\ Walk

GetbypidEnd ==
  /\ At("getbypid") /\ ~Passed /\ Return(IF call.curr = NULL THEN EMPTY ELSE OK) /\ Unchanged

----------------------------------------------------------------------------
\* sched_age passes over the null process, the one switched out and the one switched in.
AgeCall(q, old, new) ==
  /\ Idle /\ ~isempty(q) /\ \A a \in used : entry[a].key < MaxKey
  /\ call' = [op |-> "age", q |-> q, curr |-> queue[q].head, spared |-> {NULLPROC, old, new}]
  /\ Unchanged /\ UNCHANGED ret


AgeWalk ==
  /\ At("age") /\ call.curr # NULL
  /\ IF entry[call.curr].pid \in call.spared THEN UNCHANGED entry
     ELSE entry' = [entry EXCEPT ![call.curr].key = @ + 1]
  /\ call' = [call EXCEPT !.curr = entry[@].next] /\ UNCHANGED <<queue, used, ret>>

AgeEnd == At("age") /\ call.curr = NULL /\ Return(ret) /\ Unchanged

----------------------------------------------------------------------------
Begin ==
  \E q \in Queue :
    \/ Empty(q) \/ EnqueueFull(q) \/ EnqueueLost(q) \/ Dequeue(q) \/ Getlast(q)
    \/ \E p \in Pid : RemoveCall(q, p) \/ GetbypidCall(q, p) \/ \E k \in Keys : EnqueueCall(q, p, k)
    \/ \E old, new \in Pid : AgeCall(q, old, new)

Continue ==
  \/ EnqueueWalk \/ EnqueueLink \/ RemoveWalk \/ RemoveUnlink \/ RemoveMissing
  \/ GetbypidWalk \/ GetbypidEnd \/ AgeWalk \/ AgeEnd \/ Lost

Next == Begin \/ Continue

Spec == Init /\ [][Next]_vars
----------------------------------------------------------------------------
\* The entries of a queue as its links have them, forwards and backwards the same, where q
\* is its head, tail and size and e is memory.
Chains == UNION {[1 .. n -> Addr] : n \in 0 .. NPROC}

Linked(q, e, s) ==
  /\ q = [head |-> IF s = <<>> THEN NULL ELSE s[1],
          tail |-> IF s = <<>> THEN NULL ELSE s[Len(s)], size |-> Len(s)]
  /\ \A i \in DOMAIN s :
       /\ e[s[i]].next = IF i = Len(s) THEN NULL ELSE s[i + 1]
       /\ e[s[i]].prev = IF i = 1 THEN NULL ELSE s[i - 1]

Chain(q, e) ==
  IF \E s \in Chains : Linked(q, e, s) THEN CHOOSE s \in Chains : Linked(q, e, s) ELSE <<>>

Pending == IF At("enqueue") THEN {call.new} ELSE {}

\* Between the iterations of every call, from whatever end, middle or only place entries
\* come and go (queue.c:90, queue.c:217): head, tail and size of each queue and the links
\* of its entries both ways tell of one list, which ends, so that no walk goes round for ever
\* (queue.c:81); no entry is on two lists or twice on one; and what is allocated is on a list
\* or about to be, so none is lost and none freed is still linked.
ListsSound ==
  LET chain == [q \in Queue |-> Chain(queue[q], entry)]
      Listed == UNION {{chain[q][i] : i \in DOMAIN chain[q]} : q \in Queue}
  IN  /\ \A q \in Queue : Linked(queue[q], entry, chain[q])
      /\ \A q, r \in Queue : \A i \in DOMAIN chain[q], j \in DOMAIN chain[r] :
           chain[q][i] = chain[r][j] => q = r /\ i = j
      /\ Listed = used \ Pending /\ Pending \subseteq used

\* The entries that sched_age has dealt with; the queue has aged when it has ended.
Aging(q, s, i) ==
  /\ At("age") /\ call.q = q /\ \A j \in DOMAIN s : j <= i => s[j] # call.curr
  /\ entry[s[i]].pid \notin call.spared

\* What a queue holds that has the chain s.
Shown(q, s) ==
  [i \in DOMAIN s |->
     LET e == entry[s[i]]
     IN  [pid |-> e.pid, key |-> IF Aging(q, s, i) THEN e.key - 1 ELSE e.key]]

Contents == [q \in Queue |-> Shown(q, Chain(queue[q], entry))]

Promise ==
  INSTANCE OrderedQueues WITH
    Process <- Pid, Key <- Keys, Capacity <- NPROC, contents <- Contents, answer <- ret

\* The linked lists do what the scheduler takes queues to do: each call, when it returns, has
\* put its entry behind those with the same key, taken the first, taken out the first of a
\* pid, or aged every entry once, has left the order of all others, and has returned the
\* answer that fits (queue.c:57, queue.c:196, resched.c:62).
KeepsOrder == Promise!OrderedSpec
=============================================================================
