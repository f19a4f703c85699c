# Verification of the deadlock-detecting Xinu kernel

The repository is a small x86 Xinu kernel (`src/system`, `src/include`, a C
library and a serial driver) extended with spin locks, a resource allocation
graph (RAG) over locks and processes, and a deadlock detector that the scheduler
runs at every 50th reschedule and that kills a process to break the deadlock.
This directory models that kernel in TLA+, checks small instances with TLC and
proves the main results about the graph search, the lock system, the scheduler, the
semaphores, the queues, the memory allocator, the buffer pools, the tty driver and
`qsort` for every size with TLAPS.

## 1. Inventory

| component | state | operations | hard behaviour | correct when |
|---|---|---|---|---|
| RAG and detection (`deadlock.c`) | `RAG` matrix, `deadlocks`, `n_cycles`; `visited`, `recur` of a scan | `init_mat`, `rag_request/alloc/dealloc`, `deadlock_detect`, `dfs`, `deadlock_recover` | marks and trail left over between roots, reports and detections; recovery in the middle of a scan | a report is a cycle; a silent scan means an acyclic graph; scans end |
| locks (`lock.c`, `mutex.c`, `testandset.S`) | `locktab`: state, lock word, wait queue | `lock_create`, `lock_delete`, `acquire`, `release` | `acquire` spins with interrupts enabled, so it is preempted between its queue entry, its test-and-set and its graph update | one owner per lock; graph and queues agree with what processes hold and wait for; deadlocks are found and only deadlocks |
| process table, scheduler (`create`, `ready`, `resume`, `suspend`, `kill`, `yield`, `resched`, `sched_cntl`, `clkint.S`) | `proctab`, `currpid`, `prcount`, `readyqueue`, `Defer`, `calls`, `preempt` | those calls, the clock interrupt | preemption, aging of priorities, deferral in interrupt handlers, `kill` of the caller | states and queues agree; the head is the best; a ready process runs in the end; the processor stops when the last process ends |
| queues (`queue.c`, `newqueue.c`) | doubly linked list with `size` | `enqueue`, `dequeue`, `remove`, `getfirst`, ... | full and one-element lists, duplicates, entries that are freed and used again by another queue | ends, size and links agree; descending keys, FIFO among equals; calls return |
| semaphores (`sem*.c`, `wait.c`, `signal*.c`) | `semtab`: state, count, queue | `semcreate`, `wait`, `signal`, `signaln`, `semreset`, `semdelete` | signals from interrupt handlers, kill of a waiter, deletion under waiters | count and queue agree; a signal releases the first waiter |
| memory (`getmem.c`, `freemem.c`, `getstk.c`, `sysinit`) | address-ordered free list round the PC's hole, `memlist.mlength` | `getmem`, `freemem`, `getstk` | coalescing with both neighbours, rounding, callers that forget a piece | a word has one owner; what comes back is whole again; the length agrees with the list |
| buffer pools (`bufinit.c`, `mkbufpool.c`, `getbuf.c`, `freebuf.c`) | pool table, free chains, a semaphore each | make, get, free | a process released by the semaphore takes its buffer later | count, chain and lent buffers agree; the chain is never found empty; nobody waits beside a free buffer |
| tty driver (`device/tty`) | input, output, echo rings, two semaphores, mode, flow control | read/write/getc/putc/control, interrupt in and out | handlers against callers, line editing, ^S/^Q, full rings, what a semaphore's count says of a ring | what is typed is read, once and in order; what is written is sent; output does not stop by itself |
| device switch (`open.c` ... `conf.c`) | none of its own | indirect calls | - | - |
| boot (`initialize.c`, `start.S`, `evec.c`, ...) | all tables | `sysinit`, `nulluser` | null process calls `resched` with interrupts enabled | - |
| client programs (`main.c`, `main_phil.c`, `main.dl.c`) | locks they hold | philosophers, workers | the deadlocks the detector is for | deadlock is reported, or the program goes on |
| C library (`lib/libxc`) | the arrays and buffers it is given | `qsort`, string functions, `atoi`, `sprintf`/`kprintf`, `sscanf` | partition loops, limits off by one, signs and widths, the end of the text | arrays are sorted on a shallow stack; copies stay in their limits; a number printed is the number; what is printed can be scanned |
| configuration tool, polled console | - | - | build-time; pure I/O | - |

Interactions. There is one processor. A system call disables interrupts and so
is atomic but for the `resched` in it, which gives the processor to another
process; only `acquire` runs partly with interrupts enabled. `resched` runs the
detection in whatever process calls it; the detection calls `deadlock_recover`,
which calls `ready` and `kill`, and `kill` may call `resched` again. Locks,
semaphores and the scheduler share the process table and the ready queue.
Interrupt handlers run on the current process and signal semaphores, with
rescheduling deferred (tty input) or not (tty output, clock).

`PROJECT.json` lists every place in the code where one of these behaviours bites
(`hazards`), and the properties aimed at it.

## 2. Plan

Done:

1. **Rag, RagSystem**: the search as a state machine, one action per loop
   iteration of an activation of `dfs`; the graph under arbitrary legal requests
   and allocations. Proved: soundness of the first report, completeness of silence,
   what one call can store, and the most steps a search can take.
2. **PidQueue, Locks**: `Locks` composes `Rag` with the lock calls, the
   rescheduling that runs the detection, recovery and exit. Proved: the type
   invariant, exclusion, exactness of the graph and of the queues, first report is a
   real deadlock, deadlocks are stable.
3. **Clients**: the repository's programs over `Locks`. Proved: the philosophers have one
   deadlock, and the first victim of either program is a process with a lock.
4. **KeyQueue, Sched, Semaphores, CountingSemaphore**: the scheduler with
   priorities, aging and deferral, the semaphore calls and `kill` over it; the
   abstract counting semaphore and the refinement. Proved: the type invariant, the
   safety properties and the refinement.
5. **Memory, KernelHeap, Allocator**: the free list, its owners (stacks, queue
   entries, buffer pools), the allocator they implement. Proved: the pools are sound
   and nobody waits in vain, the free list is sound, a request gets what it asks
   for, everything comes back, and the refinement.
6. **Devices, Tty, LineDiscipline**: the console driver between processes and
   interrupts, and the line editor its input half implements. Proved: when a character that
   nobody wrote can be sent, output does not stop by itself, and the refinement.
7. **NullLoop**: `resched` at the grain of its statements, as the null process
   calls it.
8. **Qsort, Strings, Format, Scan, Library**: the algorithms of the C library
   against reference definitions. Proved: `qsort` sorts, on a shallow stack, in a bounded
   number of steps; the string functions are sound; fields have their width; a scan returns
   its count, and `%s` reads back what it printed.
9. **LinkedQueues, OrderedQueues**: the linked lists of `queue.c`, and the queues in
   the order of keys (the operators of `KeyQueue`) that they implement. Proved: the
   lists are sound, and the refinement.

What could come next: that the queues of `KeyQueue`, their order forgotten, are those of
`PidQueue`; that the digits printed are the number's and that a row of `%s` stores
the words of any text, which are inductions over what the code's loops have passed.

## 3. Modules and code

**Rag** - the vertices are numbered as in the code (locks first, then
`NLOCK + pid`); the graph is the set of its edges. `stack` is the stack of
activations of `dfs`, each with its vertex and loop index. `DfsEnter` marks a
vertex; the loop then skips (`DfsSkip`), descends (`DfsDescend`), finds the cycle
(`DfsReport`: one vertex per returning activation goes into `deadlocks`) or
returns (`DfsReturn`). `deadlocks` models the array up to `n_cycles`, which the code
never resets, so the victim of every report is `deadlocks[0]`, `deadlocks[1]`.
The stores have no bound in the code (`deadlock.c:95`, `100`) and none in the model (`Store`); a
trail that has run past the array ends it in phase `"fault"`. `kept` is a history variable: the
entries that earlier calls of `deadlock_detect` left.

**RagSystem** - any sequence of legal graph updates, a detection over the result,
and the recovery as it acts on the graph alone. `MaxTrail` bounds the trail left
from earlier detections.

**PidQueue** - a queue as a bag with a size: how often a pid is on it. The order is
a choice, except that the null process comes last. `EntriesOf` tells the entries of
a pid apart, so that the size can be counted; `EnqueuedAll` is the loop that
moves a whole queue.

**Locks** - state: process states, current pid, ready queue, reschedule counter,
lock table, and for each process where it is in `acquire` (`pc`, `target`).
`AcquireRequest`, `TestAndSet` and `AcquireReturn` are the three parts of
`acquire`, between which the process can be preempted (`Preempt`). `Resched` is
part of every action that calls it: it counts, and at the `PERIOD`-th call starts
the detection, whose steps then run alone (interrupts are disabled) until
`DetectEnd` switches context. The recovery is split where the code loops
(`RecoverDrain`) and by what `kill` finds (`RecoverReady`, `RecoverCurrent`,
`RecoverAgain`, `RecoverLast`); `RecoverNobody` is the case in which the first two
entries of `deadlocks` are no process and no lock. History variables: `held`, what
a process has acquired and not released; `torn`, a lock was deleted in use.
`Permits` names what the clients do beyond acquiring and releasing.

**Clients** - a process is the list of lock calls it has still to make; delays and
output are dropped, the random choice of a philosopher is free.

**KeyQueue, Sched, Semaphores** - the ready queue is a sequence of pid and key;
`Switch` is the context switch of `resched` with the aging that follows it; a priority wraps
as `int16` does on this machine (`PRIOHALF` is half the number of priorities), a key
does not. `Defer`
holds the deferral: between `DeferStart` and `DeferStop` only handler steps
(`Signal`, `Signaln`) happen and `Resched` only notes the attempt. Each semaphore
call is one action. `cpu` is `"halted"` after `xdone` and `"wild"` when a killed
process is dispatched or there is none to dispatch. **CountingSemaphore** is the
promise: a value that is never negative, a FIFO of sleepers, and `Give`, which
hands out units to the first of them.

**LinkedQueues** - entries are places in one heap, as large as the instance has it, which
`enqueue` takes from and `dequeue` and `remove` give back to; a place that has been given back
may be the next entry of another queue. A call is a step, and each iteration of its
loop another: `call` holds the arguments and the pointer (`currEntry`) of the call
that is walking. Calls do not interleave, since interrupts are disabled; the calls of
all queues follow each other in any order, with pids that are on a queue already, as
recovery and `lock_delete` enter them. When `malloc` has no room, its SYSERR is used as the entry
(`EnqueueLost`): the call stops there, and nothing is said of what would follow. A pointer that may be NULL is tested where the code
tests it (`SetNext`, `SetPrev`). `sched_age` is here as well, since it walks along the
links itself. **OrderedQueues** is the promise, with one step per call: entries in the
order of keys, a new one behind its equals (`KeyQueue`'s operators, which Sched and Semaphores
use), the first taken, the first of a pid taken out, every entry aged once. A call is seen
when it returns; the keys that an unfinished `sched_age` has raised are hidden until then
(`Aging`).

**NullLoop** - Sched's tables, with the null process's call of `resched` cut into
its statements (`Enter`, `PlaceBack`, `TakeNext`, `MakeCurrent`, `AgeOthers`,
`SwitchStacks`), while the clock, a waiting process and a signal run `resched`
whole (`Whole`). `stack` is the process on whose stack the processor executes,
which differs from `currpid` between the assignment of `currpid` and `ctxsw`.

**Memory** - the free list is a sequence of blocks, memory counted in words.
`getmem` takes the bottom of the first block that fits, `getstk` the top of the
last one, `freemem` finds its place in the list, refuses what overlaps a
free block and joins the piece with the blocks it touches (`Joined`). `roundmb`
wraps before it truncates, so that the largest request becomes 0.

**KernelHeap** - the owners of memory. `Create` and `Kill` take and give a stack;
without a free pid the stack is `lost`, as the memory of a pool is when there is
no semaphore. `Enqueue` and `Dequeue` take and give an entry of a queue. Of
`getbuf` the wait is one action (`Getbuf`) and what follows it another
(`GetbufResumes`): between the two the process is in `granted`, and every other
call may come. `freebuf` releases by the count, as `signal` does (`Releases`). `freemem` is used with the base and the length that its callers
compute. A request that wraps is granted a piece of nothing; the processor is
then `wild` and the model stops. **Allocator** is the promise: pieces are handed
out of what is free and come back whole.

**Devices, Tty** - `Devices` is the device table, through which the calls of
`Tty` find their routines. `Tty` keeps the input ring with its characters, of the
output ring only how many characters are stored, of the echo ring how many are
pending. A process in a call has a `task`; `ttyGetc` and `ttyPutc` are its steps
from one character to the next, in which it may sleep on a semaphore. There is one
processor: `current` is the process that runs, `NoProc` stands for the null process, and
every action that calls `resched` says who may be dispatched (`NextOf`): the
highest `Rank` there is, the caller behind its equals, or, when `Aged`, any process that is
ready, since aging may have given it the highest key. Interrupts come only when the
current process has them enabled (`Masked`). `Arrive` is
the input interrupt with one character; the handler may go on with the next
(`defer`), and makes up for a deferred `resched` at its end. Its cases are split by mode and character (`Newline`,
`Erase`, `KillLine`, ...), `OutInterrupt` the output handler with all it sends and the
`resched` of its `signaln`, which nothing defers,
`UartDrain` the end of a transmission. `fault` records the first condition the
driver does not handle (an input ring that wraps at the wrong place, a full ring,
a line kill at the wrap, a character stored without a signal); the promise of the
input half is off from there on, the rest goes on. `passed` is a history variable: how many output interrupts have sent
since a writer was released and not run. **LineDiscipline** is the
promise: a text of which a first part may be read and the rest still edited.

**Qsort** - one action per branch of `qs1`, with the calls that have not returned
on a stack. **Strings** - one operator per function. **Format** - `atoi` and one
conversion of `_doprnt` and `_fdoprnt`. **Scan** - `_doscan`, `_innum` and
`_instr` as a fold of the directives over a scan state. **Library** - one process
with four jobs that call them.

**MC modules** name the sets the configurations use. Operators called "faulty
variant" are not part of the models: each is a definition as a plausible bug
would have it, kept to show which property notices.

## 4. Runs

| run | instance | shows |
|---|---|---|
| MCRag | 2 locks, 3 processes, trail up to 5 | one call stores no vertex twice; first report of a scan is a cycle; silence means acyclic; scans end |
| MCLocks | 2 locks, null + 2 processes, period 2, one lock created late, all behaviours | type invariant, exclusion, exact graph and queues, one current process, first report and first victim sound, deadlock is stable |
| MCClients | 3 philosophers or 2 workers, 4 locks | the only deadlock is the textbook's; the first victim is a process with a lock; the workers end or their deadlock is reported; a deadlock is reported in the end |
| MCLocksKilled | 2 locks, null + 2 processes, period 2, acquire and release only | violation: a victim that is current is entered in the ready queue, killed and dispatched |
| MCSem | null + 2 processes, 1 semaphore, 4-bit priorities 1 and 2 | type invariant, queues, states, counts agree; nothing ready while idle; refinement of CountingSemaphore; ready processes run |
| MCSemKilled | null + 3 processes, waiters may be killed | violation: a signal releases nobody although a process waits |
| MCResched | null process and main | violation: the clock inside the null process's `resched` leaves the ready queue empty |
| MCQueues | 2 queues, a heap of 3 entries, 3 processes, 2 keys | the lists are sound between any two iterations; refinement of OrderedQueues |
| MCHeap | 32 words with a hole, 2 processes, 2 pools for 1 semaphore | the free list, what comes back, pools and their waiters; refinement of Allocator |
| MCTty | rings of 3, 2 and 5, a reader and a writer dispatched in any order, every kind of key, bursts | refinement of LineDiscipline; what nobody wrote is sent only past a released writer that waited for long; output does not stop; a writer returns |
| MCTtyGhost | a writer, and a reader of strictly higher key | violation: a place nobody has filled is sent |
| MCLib | arrays of 5, all words of 9 and 8 bits, texts of 5 characters | sorts, on a shallow stack, and ends; copies keep to their limits; numbers are printed in their fields; words are scanned and counted |

Bounds, and why they are enough.
- `PERIOD` is 50 in the code. The counter only decides at which reschedule the
  detection runs, and processes reschedule freely between; with 2, a detection
  happens in every state in which one can with 50 (any number of further
  reschedules can be spent on yields that change nothing else).
- A cycle over two locks needs two processes; three processes add a bystander and
  a second waiter. Three locks add no new kind of step, since each action touches
  one lock, and the proofs cover every number.
- `MaxTrail` lets a detection start with the trail of two earlier reports, and reports go
  past the end of the array.
- `MaxCount` bounds a semaphore's count; `signaln` is called with up to `NPROC`.
- `MaxKey` stops aging at the largest priority in MCSem, so that nothing wraps there.
- `KillsWaiting` is FALSE in MCSem: after a waiter is killed its properties fail,
  as MCSemKilled shows.
- The lock properties are stated until the first report since boot and the first
  deletion of a lock in use (`Intact`). After a recovery the victim can still be
  on the ready queue and is dispatched dead (MCLocksKilled), so nothing in the
  tables can be relied on; MCLocks still explores those states and checks the
  type invariant and `OnlyCurrentIsCurr` in them.
- MCQueues: three entries are the fewest with a middle, and with three processes in a
  queue it is full; two keys make a place before, behind and among equals; both queues
  take from the same three places, so that each is used by one after the other. `MaxKey`
  bounds aging. Places and queues are alike (symmetry).
- MCHeap: five memblks below the hole and four above, with stacks of one and two
  memblks, queue entries of two and pools of two and three: a piece can come back
  between two free blocks, beside one or beside none, memory runs out, and so do pids and
  semaphores. `W` is 64 words in place of 2^30; the only use of the size is that
  the largest request wraps, and `W - 1` is among the requests. `NENTRY` and
  `NLOST` bound what is enqueued and what is lost at a time. Not killed are
  processes that wait for a buffer; that is MCSemKilled's matter.
- MCTty: the rings are as short as the driver's tests tell apart (empty, one place,
  wrapped, full); `FIFO` is smaller than the output ring, as in the UART. `Budgets`
  bounds keys, calls and changes of mode: four keys with one read or one change of mode, three
  with two reads or with one of each, and on the other side two
  writes of three characters, more than the ring holds, with two keys, by which the
  halves meet in echo, ^S and ^Q. All four faults occur. With `FIFO` 1 a
  place that nobody filled is sent by the third interrupt that passes a released writer
  over, and this happens in the run; one writer is enough for it, and the proof is for
  any number. For every size and number
  section 5 has the proofs.
- MCLib: the words of `Format` are 9 bits in decimal, with 100 in the place of
  10^9, and 8 bits in other bases. The assumption `FormatAssumption` states the
  proportions that the code relies on (10^9 fits twice in the positive numbers,
  three times and more in a word; octal digits cover a word with two bits in the
  first); with them, every word is printed. Arrays of five elements reach both
  halves of the partition loop and two levels of calls.

CHECK_DEADLOCK is FALSE where the system may stop: RagSystem in phase `"fault"`,
when the trail has run past the array and the code is undefined; KernelHeap after a
request that wraps; NullLoop when there is nothing to dispatch; Tty when the
budgets are spent and everyone waits; Library when its job is done. In all other
runs deadlock is checked, and a processor that has stopped has the stuttering
step `Stopped`.

Fairness.
- RagSystem and Qsort: weak fairness of a computation that nothing can hold up.
- Locks: weak fairness of `Preempt` (the clock interrupts a process that runs
  with interrupts enabled, and a spinning one does) and of the detection's steps
  (code that runs with interrupts disabled). No process is promised the
  processor: the deadlock is found nevertheless.
- Clients: a process is dispatched again and again, and takes its step in the end
  when it can take it again and again while it runs. The first holds because of
  aging as long as no priority wraps: `ReadyRuns` of MCSem checks it against the
  scheduler itself. The second leaves out only schedules in which a process is
  always preempted just before the same test-and-set succeeds.
- Semaphores: weak fairness of the end of a handler; strong fairness of the clock,
  since the tty's handlers can disable it again and again, but the clock's
  interrupt has the highest priority of the controller and is pending when they end.
- Tty: strong fairness of a process's dispatch, which is `ReadyRuns` again, and of its
  next character; strong fairness of the output interrupt, which stays pending while a
  call has interrupts disabled; weak fairness of the UART's transmission, and of the input
  handler once it has begun, which runs while there are characters and returns. Nothing
  else is assumed of the typist.
- `ReadyRuns` in MCSem tests aging over few switches: with 4-bit priorities the largest
  is near, and nothing is required once some priority has reached it.

## 5. Proofs

All theorems hold for every value of the constants under the named assumptions:
`SizeAssumption` of Rag (there is a lock and a process), `LocksAssumption` of
Locks (there is a process besides the null process, the period is positive, the
permitted behaviours are among those defined), `SchedAssumption` and
`SemaphoresAssumption` of Sched and Semaphores (there are two processes and a
semaphore; the initial priorities are positive; a count has a bound),
`ClientsAssumption` (as `main_phil.c`: more than two philosophers, a process for each and a lock for
each and the printer),
`MemoryAssumption` and
`KernelHeapAssumption` (memory begins and ends at memblk boundaries in the order of
`memory.h` and is smaller than the word; the first free address is below the hole;
pools have at least one buffer, of at least two words), `QsortAssumption` (the elements
are numbers), `BuffersAssumption` of Library (characters are signed bytes, NUL among them, and
`dst` is no smaller than `src`), `ConversionsAssumption` of Library (the conversions are
those that the two printers have and the directives those of `_doscan`; widths are numbers,
a text is a sequence of characters), `FormatAssumption` of Format (the proportions of a word
that the code relies on) and `QueuesAssumption` of LinkedQueues (there is a process, NULL is no place in
memory, keys are numbers). The other named assumptions give
the ranges of the constants of the modules that are only model-checked; TLC
evaluates them all.

**RagProofs.** Its first part has the lemmas about the steps of Rag, which LocksProofs
cites of the same search inside the lock system; the second part has the theorems about
RagSystem. The inductive invariant `RagInv` describes a scan before
its first report: the stack is a path in the graph, its vertices are those
marked in `recur` and are distinct, `recur` is a subset of `visited`, and the visited vertices that are
off the stack are *closed*: every successor is visited, no cycle runs
through them, and every vertex that the loop has passed is among them. It is needed because neither result is inductive alone: a report
is a cycle only because a marked vertex is on the stack, which is true only while
marks are cleared on return and no earlier report has left any behind. From it:
`FirstReportSound` and `SilentScanComplete`. Acyclicity is expressed by a set with
no internal sink, so that no induction over paths is needed.

`OneCallFits` is about all reports of a call, the later ones with stale marks included: no
vertex is stored twice, so one call adds at most `SIZE` entries. `TrailInv` is what makes
it inductive: what the call has stored and what is on the stack are visited, all different and
disjoint, and a vertex is entered only when it is not visited. Nothing bounds what several
calls store, in the code or in the model.

`SearchIsShort` bounds the search: `StepsLeft` counts two for a vertex not yet visited (to enter it and
to return), one for each on the stack and one for each root still to pass; every step of
the search that stays in the arrays takes from it (`SearchGetsOn`), and it is never above
`3 * SIZE`. This is the part
of `DetectEnds` that does not depend on fairness, for all sizes.

**LocksProofs.** `LocksInv` is `RagInv` of the detection inside, the types of
the process and lock state, what a report says about the graph, `OnlyCurrentIsCurr`, and while
`Intact` the conjunction `Clean`: every lock has one owner, the lock word is set
exactly when it has one, a process that is returning from `acquire` does not hold
the lock already, only existing locks are used, the null process never waits,
and the graph is edge by edge what processes hold and wait for. The last is what
turns a cycle of the graph into processes that wait for one another: a lock's
only out-edge is to its owner, and a process's only out-edge is to the lock it
spins for. The transient between test-and-set and `rag_alloc` has no edge out of
the lock, so it is on no cycle: this is why the window in `acquire` is harmless.
Theorems: `OneProcessIsCurrent`, `LocksExclude`, `GraphIsExact`,
`FirstReportIsReal`, `FirstVictimIsFit`, `DeadlockStays`. Each action has its own
lemma, under it one step per conjunct it can disturb.

`DetectionIsShort` is `SearchIsShort` with recovery inside the search. A recovery
drains the wait queue of a lock, entry by entry, so it lengthens the detection by as many
steps as there are processes; but it happens at a report, which is itself a step of the search.
`DetectionLeft` therefore counts a step of the search as more than a full queue
(`Outweighs`), and every step of the detection takes from it, but for the one in which it
ends or the processor stops, reported or not and in every behaviour, also the faulty
ones. The other steps leave it as it is or at its bound, where a detection starts
(`OutsideRests`).

What the queues hold needs an invariant of its own, `QueuesInv`. In every behaviour
a queue is `Sound`: its size is the number of its entries. Recovery and `lock_delete`
put a process on the ready queue a second time, and what they then do to the
tables is arbitrary but for this; it is what keeps every size in range
(`LocksTypeCorrect`). While `Intact` the queues are also right, entry by entry
(`Exactly`): on the ready queue are the READY processes, on the queue of a lock its
owner and those that spin for it. This is inductive only together with
`CurrentIsMarked`: `kill` takes a process that is READY off the ready queue and a
current one off none, so the state of the caller must say which it is. And it
needs that `enqueue` is never refused for want of a place (`RoomToWait`): a lock has
one owner, the null process never asks for one, so fewer than `NPROC` processes
are in its queue. Theorem: `QueuesAreExact`.

**ClientsProofs.** Both theorems are about every number of philosophers, three or more, and about
the two workers. A step of the programs is a step of Locks, so `LocksInv` holds. `TableInv` adds
that, while `Intact`, the calls a process has still to make say which locks it holds and
which it waits for: `Place` lists the points of a turn, `Rest1` to `Rest8` and `ThinkEnd` what is left of
it at each. Neither property is inductive, because both relate the locks of several processes;
`Table` is, because it speaks of one process at a time, and a step moves one.

`OneDeadlockOnly`: by `Table`, whoever waits in a circle cannot be asking for the printer, since
whoever has the printer asks for nothing; so he has his right fork and asks for his left. His left
neighbour is in the circle then, and so, once around the table (the arithmetic of `forks`, and induction
as far as N), is everybody. `FirstVictimIsThere`: the programs are `Courteous`, that is, a process
with two locks in hand asks for nothing but the printer, and one with the printer for
nothing. Were the walk of the search to close at a lock, the owner of that lock would hold
another lock of the walk as well, and so wait for the printer; but the walk ends at whoever has the
printer. The last vertex of the walk, the first that `dfs` stores, is therefore a process, and the
second is the lock before it. The one case without another lock, that the walk began at the owner, is why
`RagInv` says that the loop has finished every vertex it has passed: locks come before processes.

**SemProofs.** The first part says where `enqueue` puts an
entry and what `dequeue` and `remove` leave. `SchedInv` of the second is that the ready
queue is `Balanced` (it has every READY process once and nothing else, only the
current process is CURR, and the null process is one or the other), that priorities stay in their width
though aging wraps them, and that `prcount` counts. `SemInv` of the third is that
every waiting process waits for a semaphore, and that a semaphore's queue has
its waiters once, in the order in which they came, and as many as its count is below zero.
Without the last, `signal` might take from an empty queue, and `Balanced` would fail. `signaln`
and `semdelete` make several processes ready in turn; `Readying` describes the
whole turn by what is ready before and after, with an induction over the count.
From these: `TypesHold`, `StatesAndQueuesAgree`, `ProcessesCounted`. `OrderInv` adds the
keys: the ready queue is ordered, every user process is above the null process, and while the null
process runs no other is ready unless a handler still owes a reschedule.
From it: `ReadyQueueSorted`, `NoIdlingWhileReady`.
`ImplementsCountingSemaphores` is the refinement: every step of Semaphores is a
step of CountingSemaphore or leaves its variables alone; `Give` of several units
is matched with the turn of `Readying`.

Two hypotheses, beside the named assumptions. `KillsWaiting = FALSE` in all of them: the entry of a
killed waiter stays on the semaphore's queue, from where it is readied dead, and
nothing above survives that (the finding of MCSemKilled). `MaxKey <= MaxPrio` in
the two about order: past the largest priority aging wraps to the smallest, and the
order of the queue is no longer that of the priorities, nor is the null process
the last (section 6). MCSem satisfies both and checks the same properties.

**QueueProofs.** `ListsSound` says that for each queue there is a chain of places which its
head, tail, size and links tell of, that the chains have no place in common and that
they are what is allocated, but for the entry that is about to be put in. By itself it is not
inductive: what `enqueue` and `remove` do is right only if the pointer they walked with is a
place of the chain. `WalkSound` says so, and with it that each iteration moves the walk one
place along a list that ends, so that calls return: a call in progress is at a place of its
queue's chain or at its end; `enqueue` has a new entry that is on no chain, in a queue that
is not full, and has passed entries with keys no smaller than the new one's; `remove` and `getbypid`
have passed entries of other processes.

A chain is determined by its queue (`Linked` fixes the first place, the length and each
following place: `OneChain`), so that the CHOOSE in `Chain` can be computed (`TheChain`) from any
chain that a lemma has built. Putting in between
two places (`LinkedIn`) and taking out (`LinkedOut`) are the heart: the chain after is the
chain before with one place more or less, `next` and `prev` of every place of it
are right again, whether the place was first, last, in the middle or the only one, and
the chains of the other queues have not been touched because they have no place in
common. A chain has at most `NPROC` places because `enqueue` refuses a full queue.

The refinement says what the chains *hold*: `EnqueueLink` puts its entry where
`KeyQueue!Enqueue` has it, because the walk stopped at the first smaller key; `RemoveUnlink`
drops the first occurrence of the pid; `AgeEnd` reveals the keys that were raised one by
one, each of a place the walk has passed. Every other step leaves what is shown as it was.
The queue need not be sorted for that, and is not always, since aging spares some
(section 6). Theorems: `ListsAreSound`, `ImplementsOrderedQueues`, without hypotheses.

**HeapProofs.** `PoolsSound` and `NobodyOverlooked` are not inductive: that the
chain is never found empty depends on processes which a signal has released and
which have not run since. `PoolInv` relates the three: the chain has no buffer twice, none
of it is lent, chain and lent buffers are together those of the pool and as many
(`Accounted`); the chain is at least as long as the count, when positive, and the
released processes together, and the queue is exactly as long as the count is negative
(`Covered`). "At least", since a process killed after its release leaves its
buffer on the chain and nothing counts it again. That queues hold living processes only
lets the released ones be told apart. Theorems: `PoolsAreSound`,
`NobodyWaitsInVain`.

Of the memory itself speaks `MemInv`. None of the properties is inductive: that a
piece that comes back overlaps nothing depends on what all the others own, and that
`freemem` does not refuse it on the order of the list. So `MemInv` says that the
list is `Tidy` (in the order of addresses, no block touching the next, all at memblk
boundaries) inside the heap; that every owner has a `Slot` of its own, with a
piece that is disjoint from the others' and from what is free; that the free words and all
pieces are together exactly those of boot (`OwnersApart`); and that
what `dequeue` will give back rounds to what `enqueue` was given (`EntriesCut`). Every step
grants a piece, takes one back or leaves memory alone (`StepKinds`), and the
invariant and the refinement are each proved for these three kinds. Theorems: `FreeListIsSound`,
`RequestsAreMet`, `EverythingComesBack`, `ImplementsAllocator`. The statement
about owners ends with the first request that wraps (`wild`); the model stops there too.

The lemmas at its beginning have what the operators do to a tidy list, as sets of words:
`RequestFacts` (the piece was free and has the rounded length, the rest is tidy),
`ReturnFacts` (a piece that overlaps nothing is accepted and joined, whichever of its
neighbours it touches), `Rounded` (a size at most `W - MB` is rounded up by less
than a memblk), and `SpanDetermines`: two tidy lists with the same words are the
same list. The last turns "all words are free again" into "the list is the one
at boot", for any order in which the pieces came back.

**TtyProofs.** `NoStall` and `GhostsAreLate` are about what is in the rings and
say nothing of the semaphores, on which everything depends: what can be sent
is computed from one. `TtyInv` says of both semaphores that a process waits at most
once, and only if the count is negative, and as many as it is (`SemOk`). Then the output
half: the count is `OBUFLEN` less the characters stored, less one place for each writer that was
released and has not run (`Owed`), less the writers that wait (`OutputOk`); and while an
interrupt is wanted one is on its way (`DeviceOk`). And the input half: until a fault,
the tail is as far behind the head as the characters entered (those that can be taken
and those granted to readers that have not run) and the line being typed, modulo the
size of the ring (`RingOk`). The tail may stand one past the last place, since the raw
and end-of-file cases do not wrap it. Theorem `OutputDoesNotStall`, without hypotheses.

That what is sent was written (`SendsWhatWasWritten`) is false (the finding of MCTtyGhost).
`GhostsAreLate` says what is true under every scheduling, for any number of writers: no
character that waits is overwritten, and a place that nobody filled is sent only when each
released writer has been passed over by as many sending interrupts as it takes to empty the
ring. `LateOk` makes it inductive: the count never exceeds the ring; when a writer is
released the ring has a character for all places but those of the other writers (`Late`), and
each interrupt that passes it by sends no more than `FIFO` of them. Theorem
`GhostsComeLate`, without hypotheses. With 64 places and 16 characters at a time
(`tty.h`, `uart.h`) a lone writer has to be passed over four times before.

The refinement has two stages. Every step leaves the input ring alone, takes from it, stores,
erases, kills the line, or meets a fault (`RingStep`, `StepKeeps`). The ring is then
read as a text (`TextOf`): taking removes the first character (`TakenText`), storing at the tail
appends (`StoredText`), and a shorter text is a prefix if only places behind it changed
(`ShortenedText`). That these are different places, modulo the size, is `PlacesApart`; it needs that
the ring is never over-full. Theorem: `ImplementsLineDiscipline`, without hypotheses; the
promise ends with the first fault, as the model does.

**LibraryProofs.** `Sorts` says nothing of the way there. `SortInv` says that the parts
still to be sorted, the current one and those on the stack, do not overlap
(`PartsApart`); that places which are not of one such part are in order already
(`OrderedAcross`); that the array is the input under a bijection of its places
(`Rearranged`: the exchanges of two and three elements are bijections, and so
is what they compose to); and that during a division what is left of `i` is smaller than the
middle, right of `j` greater, and from `lp` to `hp` equal (`Dividing`). `MovedInside`
is the step that all exchanges share: what stays inside one part disturbs no order
across parts. When no part of two elements is left, `OrderedAcross` is
the order. Theorem: `SortsAnyArray`.
`DepthIsLogarithmic` adds `Halved`: a part with `n` parts below it, times two to the `n`, fits
into the array. Its hypothesis `PowersOfTwo` has the two equations that define the power,
which is a symbol without meaning to the provers; it says nothing of the code.
`SortIsShort` has the measure `SortLeft`: for every place that is in a part still to be
sorted (`Unsettled`) the most steps of a division, for every call that has not returned one,
and within a division what the two pointers have to pass. Each division settles at
least one place, so the bound is quadratic, as the worst case of `qsort` is.

`StringsSound` is about buffers of any size. Its second half compares what a copy has
left with what was there, so `BuffersInv` keeps the last copy: both buffers are arrays of
characters of their size, and `dst` is what the called function makes of `call.before`
(`LastCopy`), within the limits its caller had to respect. No induction is needed for the
functions themselves, which are written with the least and the greatest of a set of
places (`LeastPlace`, `GreatestPlace`). A lemma for each says what it computes in terms of places:
`Compared` that `strncmp` is zero exactly if the buffers agree as far as a common end or the limit
(`Agree`), `SameBytes` the same for `memcmp`, `Searched` of the characters found,
`FirstFound` of `strstr`; `TextLength` and `LimitedLengthIs` tell a length by its properties.
From these the agreements between functions follow (`TextsAgree`), and of every copy that
the part it had to write compares equal and the rest is as before (`CopiesKeep`). It is
of use that characters are signed bytes: only then do different characters
differ as unsigned ones too. Theorem: `StringsAreSound`, without hypotheses.

Of `PrintsAndScans` three of the four parts about fields and scans are theorems.
`FieldsHaveTheirWidth` follows from the lengths of sign, text and filling (`PartsLength`),
whatever their order; the text of a number needs to be a sequence only, which it is because the
places of its digits end (`PlacesEnd`). Its hypothesis `PowersGrow` says of the power that a
greater base has the greater one. `ScansReturnTheCount` is about formats of any length and
of every directive. A scan is a recursive function over the directives; that there is one
(`ScanExists`) and that what each directive keeps holds at the end (`ScanCounts`) are shown by
least counterexamples: the shortest beginning of a format for which it fails is not empty, and
the one before it does not fail (`LeastPlace`). `WordsAreReadBack` puts the two halves
together: a field is a word between blanks (`Around`, `BlanksAround`), and `%s` passes those
before it and stops behind it (`WordTaken`).

Two attempts failed for a good reason. The count was stated as -1 only with nothing
stored; a format with a character to be matched behind a conversion refutes that
(section 6), and the run has one now. And a scan that had ended was one of two arms
of a CASE that both applied: TLC takes the first, the logic leaves it open.

Only model-checked: liveness (`DetectEnds`, `DeadlockIsReported`,
`WorkersEndOrDeadlock`, `ReadyRuns`, `WriterFinishes`, `SortEnds`), which the
prover does not do under fairness (of the search, the detection and the sort what
remains is that a step is taken: every step takes from a bounded measure); and of
`PrintsAndScans` the parts `PrintsTheNumber` and `ReadsTheWords`, which compare a fold over
digits, and the number of words of a text, with what a loop has stored: induction
over data.

## 6. Findings

- **The killed process runs again** (`deadlock.c:169`, MCLocksKilled): recovery
  enters the victim in the ready queue and then kills it. In the run the victim is the current process:
  `kill` makes it free, takes no entry off (`kill.c:35-37`) and reschedules, and the dead
  process is dispatched. A victim that is READY is on the queue twice by then, and `kill` takes off one
  entry (`kill.c:50`, `RecoverReady`).
- **A signal is lost on a killed waiter** (`kill.c:46`, MCSemKilled).
- **The null process reschedules with interrupts enabled** (`initialize.c:93`,
  MCResched): the clock inside the call leaves it off every queue.
- **Output sends places that nobody has filled** (`ttyInter_out.c:58`, MCTtyGhost): the
  count of the writers' semaphore is taken for the number of characters stored, though it counts the
  places of released writers too. `signaln` reschedules at once, so it takes a running process of
  strictly higher key: it is neither put behind an equal nor preempted, and the interrupts that come meanwhile
  send first what is stored and then what is not.

Met while modelling, kept in the models as the code has them, and not the subject
of a run:

- *Detection.* The recur marks of a reported path are not cleared
  (`deadlock.c:93`), so a later report of the same scan may be no cycle. When the
  victim is the current process, `kill` reschedules inside `resched`
  (`kill.c:37`, `resched.c:13`): the counter passes the period and no detection
  runs again. Reports of several calls together store past the end of `deadlocks`
  (`deadlock.c:95`, `n_cycles` is never reset). `lock_delete` keeps edges of the deleted lock (`lock.c:84`).
- *Scheduler.* A priority that is raised once in every three reschedules wraps
  after about 100000 of them (`resched.c:79`), some 16 minutes of 10 ms quanta,
  because nothing lowers it again; the process then stays behind the null process
  while any other is ready.
- *Queues.* `enqueue` does not look at what `malloc` returns (`queue.c:70`). `getlast`
  removes the first entry with the pid at the tail (`queue.c:192`), which is another one
  when the pid is on the queue twice; nobody calls it. `nonempty` takes no queue
  at all for a nonempty one (`queue.c:43`).
- *Memory.* `create` and `mkbufpool` keep memory when they fail later
  (`create.c:33`, `mkbufpool.c:39`); a request within a memblk of 2^32 is granted a
  piece of nothing (`getmem.c:17`).
- *Console input.* In raw mode the wrong tail is wrapped (`ttyInter_in.c:43`); in
  cbreak mode the reader is not signalled (`:73`); line kill moves head and tail
  wrongly at the wrap (`:98`); a newline is stored in a full ring and an end of
  file without a wrap (`:124`); the echo ring is not checked for room;
  `TC_NEXTC` reads the place at the tail.
- *Library.* No digit is ever scanned, in any base: `and` binds tighter than `or` was meant to
  (`doscan.c:204`), so `%d`, `%o` and `%x` of `sscanf` store
  nothing. `memchr` ignores its limit and finds no character over 127; `strstr`
  with an empty needle returns NULL; `strnlen` reads one character past the limit;
  `%d` of the smallest number prints no number; a precision truncates `%d`; `%-05d`
  puts zeros behind the number; `%b` of a full word runs past `string`; `%h` shows
  its second word only behind a first with all its digits; a minus sign alone
  counts as a number for `sscanf`, which returns -1 when a character of the format meets the
  end of the text, although it has stored values (`doscan.c:144`); `%s` that meets the end of the text indexes
  `_sctab` with EOF; `fscanf` reads nothing; `getdev` returns the first device
  whose name does *not* match (`getdev.c:21`).

## 7. Not modelled

What the kernel does after a failed allocation of a queue entry, after a request that wraps, after
the trail of reports has run past its array, and when a process that has killed itself is
dispatched: by then it has written through an error code or executes on a stack it has freed, and the
models stop. Of `create` the contents of the stack; of the memory list the case without a hole, which a PC does not
have. `rand`, `abs`, `labs`, the variants `atol`, `printf` and `fprintf`
of modelled functions, and `fscanf`, which reads nothing. `getdev`, which nothing
calls. The polled console (`kputc`, `kgetc`, `panic`), the PCI scan, the hardware
set-up at boot, `rag_print` and `print_deadlocks`: input, output and printing
without state of their own. The configuration tool (`config.y` and the generated
`y.tab.c` and `lex.yy.c`) runs at build time. The context switch itself is
assembly over saved stacks: it is modelled by its effect, that `currpid` executes
(in NullLoop, that the saved stack does).
