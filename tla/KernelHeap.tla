----------------------------- MODULE KernelHeap -----------------------------
(***************************************************************************)
(* The owners of kernel memory: stacks of processes (create.c, kill.c),    *)
(* entries of queues (queue.c) and buffer pools (mkbufpool.c, getbuf.c,    *)
(* freebuf.c), over the free list.  Every call runs with interrupts        *)
(* disabled; getbuf lets other processes run while it waits.               *)
(*                                                                         *)
(* A request so large that rounding makes it 0 is granted a piece of       *)
(* nothing; the processor is then "wild" and the model stops.              *)
(***************************************************************************)
EXTENDS Memory

CONSTANTS
  Ends,             \* addresses at which the program may end
  NPROC, NSEM,      \* sizes of the process and semaphore tables, less the entries in use
  NBPOOLS,
  StackSizes,       \* sizes of stacks, in words
  MINSTK, ENTRY,    \* the smallest stack; words in a struct qentry
  PoolShapes,       \* size and number of the buffers of a pool
  NENTRY, NLOST     \* bounds on queue entries and on pieces lost

ASSUME KernelHeapAssumption ==
  /\ Ends \subseteq 1 .. HOLESTART - MB - 1
  /\ {NPROC, NSEM, NBPOOLS, MINSTK, ENTRY, NENTRY, NLOST} \subseteq Nat
  /\ StackSizes \subseteq 1 .. W - 1
  /\ PoolShapes \subseteq [bufsiz : Nat \ {0, 1}, numbufs : Nat \ {0}]

VARIABLES
  end, free, mlength,   \* the free list; memlist.mlength, which starts at 0
  stacks,               \* the stack of each process, or NoStack
  entries,              \* queue entries
  buftab,               \* sequence of pools
  lent,                 \* buffers that have been handed out
  granted,              \* processes that a pool's semaphore has released, and the pool
  lost,                 \* pieces that nobody refers to
  short,                \* a request that does not wrap was given less than it asked for
  wild

poolVars == <<buftab, lent, granted>>
vars == <<end, free, mlength, stacks, entries, poolVars, lost, short, wild>>

Pid     == 1 .. NPROC
NoStack == block(0, 0)
Alive   == {p \in Pid : stacks[p] # NoStack}

\* sysinit: the null process takes its stack from the list first.
Init ==
  /\ end \in Ends
  /\ free = getstk(InitialList(end), NULLSTK).free
  /\ mlength = (0 - getstk(InitialList(end), NULLSTK).got.len) % W
  /\ stacks = [p \in Pid |-> NoStack] /\ entries = {}
  /\ buftab = <<>> /\ lent = {} /\ granted = {}
  /\ lost = {} /\ short = FALSE /\ wild = FALSE

----------------------------------------------------------------------------
\* A request has been answered with r, a piece of nothing if it wrapped.
Take(r, n) ==
  /\ r.ok /\ short' = (short \/ (r.got.len < n /\ n <= W - MB))
  /\ free' = r.free /\ mlength' = (mlength - r.got.len) % W
  /\ wild' = (r.got.len = 0)

\* Memory is given back.  Callers ignore a refusal.
Give(r) ==
  /\ free' = r.free /\ mlength' = (mlength + r.got.len) % W
  /\ UNCHANGED <<short, wild>>

\* create.  Without a free pid the stack stays allocated.
Create(ssize) ==
  LET n == IF ssize < MINSTK THEN MINSTK ELSE ssize
  IN  \E r \in {getstk(free, n)} :
        /\ ~wild /\ Take(r, n)
        /\ \/ \E p \in Pid \ Alive :
                stacks' = [stacks EXCEPT ![p] = r.got] /\ UNCHANGED lost
           \/ /\ Alive = Pid /\ Cardinality(lost) < NLOST
              /\ lost' = lost \union {r.got} /\ UNCHANGED stacks
        /\ UNCHANGED <<end, entries, poolVars>>

\* A process that waits for a buffer.
Waiting(p) == \E k \in DOMAIN buftab : p \in ToSet(buftab[k].queue)

\* Faulty variant: the pointer to the top word is taken for the base.
KillShifted(p) ==
  /\ ~wild /\ p \in Alive /\ ~Waiting(p)
  /\ Give(freemem(free, end, [stacks[p] EXCEPT !.addr = @ + MB]))
  /\ stacks' = [stacks EXCEPT ![p] = NoStack]
  /\ granted' = {g \in granted : g.pid # p}
  /\ UNCHANGED <<end, entries, buftab, lent, lost>>

\* kill.  The buffers of the process stay with nobody; so does one it was granted.
\* Processes that wait on a semaphore are not killed here (Semaphores!Kill).
Kill(p) ==
  /\ ~wild /\ p \in Alive /\ ~Waiting(p)
  /\ Give(freemem(free, end, stacks[p]))
  /\ stacks' = [stacks EXCEPT ![p] = NoStack]
  /\ granted' = {g \in granted : g.pid # p}
  /\ UNCHANGED <<end, entries, buftab, lent, lost>>

\* enqueue, dequeue and remove, as far as memory goes.
Enqueue ==
  \E r \in {getmem(free, ENTRY)} :
    /\ ~wild /\ Cardinality(entries) < NENTRY
    /\ Take(r, ENTRY) /\ entries' = entries \union {r.got}
    /\ UNCHANGED <<end, stacks, poolVars, lost>>

Dequeue(e) ==
  /\ ~wild /\ e \in entries
  /\ Give(freemem(free, end, [e EXCEPT !.len = ENTRY]))
  /\ entries' = entries \ {e}
  /\ UNCHANGED <<end, stacks, poolVars, lost>>

----------------------------------------------------------------------------
\* Buffers are preceded by the number of their pool.
Buffers(at, s) == [i \in 1 .. s.numbufs |-> at + (i - 1) * (s.bufsiz + 1)]

\* mkbufpool.  Without a free semaphore the memory stays allocated.
Mkbufpool(s) ==
  \E r \in {getmem(free, s.numbufs * (s.bufsiz + 1))} :
    /\ ~wild /\ Len(buftab) < NBPOOLS
    /\ Take(r, s.numbufs * (s.bufsiz + 1))
    /\ \/ /\ Len(buftab) < NSEM
          /\ buftab' = Append(buftab, [mem |-> r.got, shape |-> s, chain |-> Buffers(r.got.addr, s),
                                       count |-> s.numbufs, queue |-> <<>>])
          /\ UNCHANGED lost
       \/ /\ Len(buftab) >= NSEM /\ Cardinality(lost) < NLOST
          /\ lost' = lost \union {r.got} /\ UNCHANGED buftab
    /\ UNCHANGED <<end, stacks, entries, lent, granted>>

\* The process is executing: it is not waiting, nor made ready after waiting.
Runs(p) == ~wild /\ p \in Alive /\ ~Waiting(p) /\ \A g \in granted : g.pid # p

\* The rest of getbuf, once wait has returned: the first buffer of the chain.
Unlink(tab, k) ==
  /\ buftab' = [tab EXCEPT ![k].chain = Tail(@)]
  /\ lent' = lent \union {[pool |-> k, addr |-> Head(tab[k].chain)]}

memVars == <<end, free, mlength, stacks, entries, lost, short, wild>>

Getbuf(p, k) ==
  /\ Runs(p) /\ \E tab \in {[buftab EXCEPT ![k].count = @ - 1]} :
       \/ buftab[k].count > 0 /\ Unlink(tab, k)
       \/ /\ buftab[k].count <= 0
          /\ buftab' = [tab EXCEPT ![k].queue = Append(@, p)] /\ UNCHANGED lent
  /\ UNCHANGED <<memVars, granted>>

GetbufResumes(g) ==
  /\ ~wild /\ g \in granted /\ granted' = granted \ {g}
  /\ Unlink(buftab, g.pool)
  /\ UNCHANGED memVars

\* Faulty variant: the test is on the chain, from which released processes have not
\* taken their buffers yet.
NbgetbufChain(p, k) ==
  /\ Runs(p) /\ buftab[k].chain # <<>>
  /\ Unlink([buftab EXCEPT ![k].count = @ - 1], k)
  /\ UNCHANGED <<memVars, granted>>

\* nbgetbuf is getbuf when that does not wait.
Nbgetbuf(p, k) ==
  /\ Runs(p) /\ buftab[k].count > 0
  /\ Unlink([buftab EXCEPT ![k].count = @ - 1], k)
  /\ UNCHANGED <<memVars, granted>>

\* Faulty variant: the waiting process is not released.
FreebufQuiet(b) ==
  /\ ~wild /\ b \in lent /\ lent' = lent \ {b}
  /\ buftab' = [buftab EXCEPT ![b.pool].chain = <<b.addr>> \o @, ![b.pool].count = @ + 1]
  /\ UNCHANGED <<memVars, granted>>

\* signal goes by the count; of an empty queue dequeue gives nobody, and ready refuses.
Releases(pool) == pool.count < 0 /\ pool.queue # <<>>

Freebuf(b) ==
  /\ ~wild /\ b \in lent /\ lent' = lent \ {b}
  /\ \E pool \in {buftab[b.pool]} :
       /\ buftab' = [buftab EXCEPT ![b.pool].chain = <<b.addr>> \o @,
                                   ![b.pool].count = @ + 1,
                                   ![b.pool].queue = IF Releases(pool) THEN Tail(@) ELSE @]
       /\ granted' = granted \union
            (IF Releases(pool) THEN {[pid |-> Head(pool.queue), pool |-> b.pool]} ELSE {})
  /\ UNCHANGED memVars

Next ==
  \/ \E n \in StackSizes : Create(n)
  \/ \E p \in Pid : Kill(p)
  \/ Enqueue \/ \E e \in entries : Dequeue(e)
  \/ \E s \in PoolShapes : Mkbufpool(s)
  \/ \E p \in Pid, k \in DOMAIN buftab : Getbuf(p, k) \/ Nbgetbuf(p, k)
  \/ \E g \in granted : GetbufResumes(g)
  \/ \E b \in lent : Freebuf(b)

Spec == Init /\ [][Next]_vars
----------------------------------------------------------------------------
\* The free list is in the order of addresses, inside the heap and outside the hole,
\* and no block touches the next one (freemem.c:41, :64, :75).  memlist.mlength moves
\* with its length, from which it differs by what sysinit does not add.
FreeListSound ==
  /\ \A i \in 1 .. Len(free) - 1 : free[i].addr + free[i].len < free[i + 1].addr
  /\ \A i \in DOMAIN free : free[i].addr % MB = 0 /\ free[i].len % MB = 0
  /\ Span(free) \cap (0 .. end - 1 \union HOLESTART .. HOLEEND - 1) = {}
  /\ Span(free) \subseteq 0 .. MAXADDR - 1
  /\ (mlength + Cardinality(Span(InitialList(end)))) % W = Cardinality(Span(free))

\* When every stack and queue entry has been given back and there is no pool, the
\* list is the initial one, however the pieces were cut and in whatever order they
\* came back.  What a failed create or mkbufpool has lost stays missing
\* (create.c:33, mkbufpool.c:39).
AllComesBack ==
  Alive = {} /\ entries = {} /\ buftab = <<>> /\ ~wild
    => /\ Span(free) = Span(getstk(InitialList(end), NULLSTK).free) \ UNION {Words(b) : b \in lost}
       /\ lost = {} => free = getstk(InitialList(end), NULLSTK).free

\* A request that succeeds is given at least the memory it asked for, unless it is
\* so large that rounding wraps (getmem.c:32).
EnoughMemory == ~short

\* A piece of memory has one owner at a time.
Owned == {stacks[p] : p \in Alive} \union entries \union lost
           \union {buftab[k].mem : k \in DOMAIN buftab}

Promise == INSTANCE Allocator WITH
  avail <- Span(free),
  held  <- {Words(b) : b \in Owned \ {block(b.addr, 0) : b \in Owned}}

OneOwner == Promise!AllocSpec

\* The buffers of a pool are on its chain or lent, once, and the chain has a buffer
\* for every unit of the semaphore's count and for every process released that has
\* not run since: getbuf never finds it empty (getbuf.c:31).  A process killed before it
\* runs leaves its buffer on the chain.
PoolsSound ==
  /\ granted \subseteq [pid : Alive, pool : DOMAIN buftab]
  /\ \A k \in DOMAIN buftab :
       LET pool == buftab[k]  out == {b.addr : b \in {c \in lent : c.pool = k}}
       IN  /\ ToSet(pool.chain) \union out = ToSet(Buffers(pool.mem.addr, pool.shape))
           /\ Len(pool.chain) + Cardinality(out) = pool.shape.numbufs
           /\ Len(pool.chain) >= Cardinality({g \in granted : g.pool = k})
                                   + (IF pool.count > 0 THEN pool.count ELSE 0)

\* No process waits for a buffer of a pool whose count says there is one.
NobodyOverlooked == \A k \in DOMAIN buftab : buftab[k].queue # <<>> => buftab[k].count < 0
=============================================================================
