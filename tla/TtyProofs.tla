----------------------------- MODULE TtyProofs -----------------------------
(***************************************************************************)
(* Proofs about the console driver, for rings of every size and any number *)
(* of processes.                                                           *)
(*                                                                         *)
(* The invariant is TtyInv.  Its output half accounts for the places of    *)
(* the output ring by the semaphore that counts them, and says when an     *)
(* output interrupt is on its way; its input half does the same for the    *)
(* readers, and places head and tail.  A step of the driver is a step of   *)
(* the ring (RingStep); these are then read as the steps of the text that  *)
(* LineDiscipline promises.                                                *)
(***************************************************************************)
EXTENDS Tty, FiniteSetTheorems, SequenceTheorems, TLAPS

ReadOps == InputOps \union {"nextc"}

OnceEach(q) == \A i, j \in DOMAIN q : q[i] = q[j] => i = j

\* A semaphore on which members of P wait, some of whom it has released and who have
\* not run since: nobody waits twice, and somebody waits only when the count says so.
SemOk(sem, P, released) ==
  /\ sem \in [count : Int, queue : Seq(P)]
  /\ OnceEach(sem.queue)
  /\ ToSet(sem.queue) \cap released = {}
  /\ Len(sem.queue) = IF sem.count < 0 THEN -sem.count ELSE 0

\* The readers that a semaphore has released and that have not run since.
Granted == woken \cap Readers

Calls == [op : ReadOps \union OutputOps \union {"none"}, left : Int, first : BOOLEAN]

Types ==
  /\ task \in [Proc -> Calls]
  /\ \A p \in Readers : task[p].op \notin OutputOps
  /\ \A p \in Writers : task[p].op \notin ReadOps
  /\ woken \subseteq Proc /\ IsFiniteSet(woken)
  /\ stored \in Int /\ epend \in Nat /\ oheld \in BOOLEAN /\ quiet \in BOOLEAN
  /\ uart \in [ier : BOOLEAN, thre : BOOLEAN, busy : BOOLEAN]

\* The output interrupt is off only when there is nothing to send, and an interrupt is
\* on its way unless output is held or was resumed without a kick.
DeviceOk ==
  /\ ~uart.ier => epend = 0 /\ stored <= 0
  /\ uart.ier /\ ~oheld /\ ~quiet => uart.thre \/ uart.busy

\* The places of the output ring are accounted for: free, taken by a character, owed to a
\* writer that was released, or waited for.
OutputOk ==
  /\ SemOk(osem, Writers, Owed)
  /\ osem.count = OBUFLEN - stored - Cardinality(Owed) - Len(osem.queue)
  /\ DeviceOk

InputOk ==
  /\ SemOk(isem, Readers, Granted)
  /\ \A p \in Granted \union ToSet(isem.queue) : task[p].op \in ReadOps

\* The characters that readers own: those they can still take, and those granted to one that
\* has not run yet.
Entered == avail + Cardinality(Granted)

\* The input ring, until a condition the driver does not handle: it holds what has not
\* been read, from the head to the tail.
RingOk ==
  fault = "none" =>
    /\ ihead \in 0 .. IBUFLEN - 1 /\ itail \in 0 .. IBUFLEN /\ icursor \in Nat
    /\ ibuf \in [0 .. IBUFLEN - 1 -> Keys \union {Free}]
    /\ Entered + icursor <= IBUFLEN
    /\ (ihead + (Entered + icursor)) % IBUFLEN = itail % IBUFLEN

\* The current process is on no queue.
RunsOk == current \in Proc => current \notin ToSet(isem.queue) \union ToSet(osem.queue)

TtyInv == Types /\ OutputOk /\ InputOk /\ RingOk /\ RunsOk

\* What a step may do to the input ring.
RingStays == UNCHANGED <<ibuf, ihead, itail, icursor, fault>> /\ Entered' = Entered

RingTakes ==
  /\ Entered > 0 /\ Entered' = Entered - 1
  /\ ihead' = (ihead + 1) % IBUFLEN /\ ibuf' = [ibuf EXCEPT ![ihead] = Free]
  /\ UNCHANGED <<itail, icursor, fault>>

RingStores(c) ==
  /\ fault = "none" /\ fault' = "none" /\ Entered + icursor < IBUFLEN /\ itail < IBUFLEN
  /\ ibuf' = [ibuf EXCEPT ![itail] = c] /\ itail' \in {itail + 1, (itail + 1) % IBUFLEN}
  /\ UNCHANGED ihead
  /\ \/ Entered' = Entered /\ icursor' = icursor + 1
     \/ Entered' = Entered + 1 /\ icursor' = icursor
     \/ c = "nl" /\ Entered' = Entered + (icursor + 1) /\ icursor' = 0

RingErases ==
  /\ fault = "none" /\ icursor > 0 /\ icursor' = icursor - 1
  /\ itail' = (itail - 1) % IBUFLEN /\ ibuf' = [ibuf EXCEPT ![(itail - 1) % IBUFLEN] = Free]
  /\ UNCHANGED <<ihead, fault>> /\ Entered' = Entered

RingKills ==
  /\ fault = "none" /\ icursor <= itail /\ icursor' = 0 /\ itail' = itail - icursor
  /\ ibuf' = [i \in DOMAIN ibuf |-> IF i \in itail - icursor .. itail - 1 THEN Free ELSE ibuf[i]]
  /\ UNCHANGED <<ihead, fault>> /\ Entered' = Entered

RingBreaks == fault = "none" /\ fault' # "none"

RingStep ==
  \/ RingStays \/ RingTakes \/ RingErases \/ RingKills \/ RingBreaks
  \/ \E c \in Keys : RingStores(c)

----------------------------------------------------------------------------
\* r is the queue q with p at its end.
Joins(r, q, p, P) ==
  r \in Seq(P) /\ Len(r) = Len(q) + 1 /\ OnceEach(r) /\ ToSet(r) = ToSet(q) \union {p}

LEMMA JoinedQueue ==
  ASSUME NEW P, NEW q \in Seq(P), OnceEach(q), NEW p \in P, p \notin ToSet(q), NEW r, r = Append(q, p)
  PROVE  Joins(r, q, p, P)
<1> PICK n : n = Len(q)
  OBVIOUS
<1>1. n \in Nat /\ DOMAIN q = 1 .. n
  OBVIOUS
<1>2. /\ r \in Seq(P) /\ Len(r) = n + 1 /\ DOMAIN r = 1 .. n + 1
      /\ r[n + 1] = p /\ \A k \in 1 .. n : r[k] = q[k]
  BY <1>1
<1>3. \A k \in 1 .. n : q[k] # p
  BY <1>1 DEF ToSet
<1>4. \A k \in 1 .. n + 1 : k \in 1 .. n \/ k = n + 1
  BY ONLY <1>1
<1>5. \A i, j \in 1 .. n : q[i] = q[j] => i = j
  BY <1>1 DEF OnceEach
<1>6. OnceEach(r)
  BY ONLY <1>2, <1>3, <1>4, <1>5 DEF OnceEach
<1>7. 1 .. n \subseteq 1 .. n + 1 /\ n + 1 \in 1 .. n + 1
  BY ONLY <1>1
<1>8. ToSet(q) = {q[i] : i \in 1 .. n} /\ ToSet(r) = {r[i] : i \in 1 .. n + 1}
  BY <1>1, <1>2 DEF ToSet
<1>9. {r[i] : i \in 1 .. n + 1} = {q[i] : i \in 1 .. n} \union {p}
  BY ONLY <1>2, <1>4, <1>7
<1> QED BY <1>2, <1>6, <1>8, <1>9 DEF Joins

FirstOf(q, k) == {q[i] : i \in 1 .. k}

\* A is the first k of the queue q, and r is the rest of it.
Divides(A, r, q, k, P) ==
  /\ r \in Seq(P) /\ Len(r) = Len(q) - k /\ OnceEach(r)
  /\ ToSet(r) \subseteq ToSet(q) /\ A \subseteq ToSet(q) /\ ToSet(r) \cap A = {}
  /\ IsFiniteSet(A) /\ Cardinality(A) = k

LEMMA DividedQueue ==
  ASSUME NEW P, NEW q \in Seq(P), OnceEach(q), NEW k \in 0 .. Len(q),
         NEW r, r = SubSeq(q, k + 1, Len(q)), NEW A, A = FirstOf(q, k)
  PROVE  Divides(A, r, q, k, P)
<1> PICK n : n = Len(q)
  OBVIOUS
<1>1. n \in Nat /\ DOMAIN q = 1 .. n /\ k \in Nat /\ k <= n /\ n - k \in Nat
  OBVIOUS
<1>2. /\ r \in Seq(P) /\ Len(r) = n - k /\ \A i \in 1 .. n - k : r[i] = q[k + i]
  <2>1. \A i \in k + 1 .. n : q[i] \in P
    BY <1>1
  <2>2. k + 1 \in Int /\ n \in Int /\ r = SubSeq(q, k + 1, n)
    BY <1>1
  <2>3. /\ r \in Seq(P) /\ Len(r) = IF k + 1 <= n THEN n - (k + 1) + 1 ELSE 0
        /\ \A i \in 1 .. n - (k + 1) + 1 : r[i] = q[(k + 1) + i - 1]
    BY ONLY <2>1, <2>2, SubSeqProperties
  <2>4. \A i \in 1 .. n - k : i \in 1 .. n - (k + 1) + 1 /\ (k + 1) + i - 1 = k + i
    BY ONLY <1>1
  <2> QED BY ONLY <1>1, <2>3, <2>4
<1>0. A = {q[i] : i \in 1 .. k}
  BY DEF FirstOf
<1>3. DOMAIN r = 1 .. n - k
  BY ONLY <1>2, LenProperties
<1>4. \A i \in 1 .. n - k : k + i \in 1 .. n /\ k + i > k /\ i \in Int
  BY ONLY <1>1
<1>5. \A i \in 1 .. k : i \in 1 .. n /\ i <= k
  BY ONLY <1>1
<1>6. \A i, j \in 1 .. n : q[i] = q[j] => i = j
  BY <1>1 DEF OnceEach
<1>7. OnceEach(r)
  <2> SUFFICES ASSUME NEW x \in 1 .. n - k, NEW y \in 1 .. n - k, r[x] = r[y] PROVE x = y
    BY <1>3 DEF OnceEach
  <2>1. k + x = k + y
    BY ONLY <1>2, <1>4, <1>6, r[x] = r[y]
  <2> QED BY ONLY <1>1, <1>4, <2>1
<1>8. ToSet(q) = {q[i] : i \in 1 .. n} /\ ToSet(r) = {r[i] : i \in 1 .. n - k}
  BY <1>1, <1>3 DEF ToSet
<1>9. {r[i] : i \in 1 .. n - k} \subseteq {q[i] : i \in 1 .. n}
  BY ONLY <1>2, <1>4
<1>10. A \subseteq {q[i] : i \in 1 .. n}
  BY ONLY <1>0, <1>5
<1>11. ToSet(r) \cap A = {}
  <2> SUFFICES ASSUME NEW x \in 1 .. n - k, NEW y \in 1 .. k, r[x] = q[y] PROVE FALSE
    BY <1>0, <1>8
  <2>1. k + x = y
    BY ONLY <1>2, <1>4, <1>5, <1>6, r[x] = q[y]
  <2> QED BY ONLY <1>1, <1>4, <1>5, <2>1
<1>12. IsFiniteSet(A) /\ Cardinality(A) = k
  <2> PICK S : S = 1 .. k
    OBVIOUS
  <2>1. IsFiniteSet(S) /\ Cardinality(S) = k
    <3>0. 1 \in Int /\ k \in Int
      BY <1>1
    <3>1. IsFiniteSet(1 .. k) /\ Cardinality(1 .. k) = IF 1 > k THEN 0 ELSE k - 1 + 1
      BY ONLY <3>0, FS_Interval
    <3> QED BY <1>1, <3>1
  <2> DEFINE f == [i \in S |-> q[i]]
  <2>2. f \in [S -> A] /\ (\A v \in A : \E i \in S : f[i] = v)
    BY ONLY <1>0, S = 1 .. k
  <2>5. \A x, y \in S : f[x] = f[y] => x = y
    BY ONLY S = 1 .. k, <1>5, <1>6
  <2> HIDE DEF f
  <2>3. f \in Surjection(S, A) /\ f \in Injection(S, A)
    BY ONLY <2>2, <2>5 DEF Surjection, Injection, IsInjective
  <2>4. IsFiniteSet(A) /\ (Cardinality(A) = Cardinality(S) <=> f \in Injection(S, A))
    BY ONLY <2>1, <2>3, FS_Surjection
  <2> QED BY <2>1, <2>3, <2>4
<1> QED BY <1>2, <1>7, <1>8, <1>9, <1>10, <1>11, <1>12 DEF Divides

----------------------------------------------------------------------------
LEMMA QueueFacts ==
  ASSUME NEW P, NEW R, NEW sem, SemOk(sem, P, R)
  PROVE  /\ sem.count \in Int /\ sem.queue \in Seq(P) /\ Len(sem.queue) \in Nat
         /\ ToSet(sem.queue) \subseteq P
         /\ sem = [count |-> sem.count, queue |-> sem.queue]
  BY DEF SemOk, ToSet

\* wait by a process that is not on the queue.
LEMMA WaitedOk ==
  ASSUME NEW P, NEW R, NEW sem, SemOk(sem, P, R), NEW p \in P, p \notin ToSet(sem.queue), p \notin R
  PROVE  /\ SemOk(Waited(sem, p), P, R)
         /\ Waited(sem, p).count = sem.count - 1
         /\ sem.count > 0 => Waited(sem, p).queue = sem.queue
         /\ sem.count <= 0 => /\ Len(Waited(sem, p).queue) = Len(sem.queue) + 1
                              /\ ToSet(Waited(sem, p).queue) = ToSet(sem.queue) \union {p}
<1> PICK q : q = sem.queue
  OBVIOUS
<1> PICK c : c = sem.count
  OBVIOUS
<1> PICK r : r = Waited(sem, p).queue
  OBVIOUS
<1>1. /\ c \in Int /\ q \in Seq(P) /\ Len(q) \in Nat /\ OnceEach(q) /\ ToSet(q) \cap R = {}
      /\ Len(q) = IF c < 0 THEN -c ELSE 0
  BY QueueFacts DEF SemOk
<1>2. Waited(sem, p) = [count |-> c - 1, queue |-> r]
  BY DEF Waited
<1>3. CASE c > 0
  <2>1. r = q
    BY <1>3 DEF Waited
  <2>2. Len(r) = IF c - 1 < 0 THEN -(c - 1) ELSE 0
    BY ONLY <1>1, <1>3, <2>1
  <2> QED BY <1>1, <1>2, <1>3, <2>1, <2>2 DEF SemOk
<1>4. CASE c <= 0
  <2>1. r = Append(q, p)
    BY <1>1, <1>4 DEF Waited
  <2>5. q \in Seq(P) /\ OnceEach(q) /\ p \in P /\ p \notin ToSet(q)
    BY <1>1
  <2>6. Joins(r, q, p, P)
    BY ONLY <2>1, <2>5, JoinedQueue
  <2>2. r \in Seq(P) /\ Len(r) = Len(q) + 1 /\ OnceEach(r) /\ ToSet(r) = ToSet(q) \union {p}
    BY ONLY <2>6 DEF Joins
  <2>3. ToSet(r) \cap R = {}
    BY <1>1, <2>2
  <2>4. Len(r) = IF c - 1 < 0 THEN -(c - 1) ELSE 0
    BY ONLY <1>1, <1>4, <2>2
  <2> QED BY <1>1, <1>2, <1>4, <2>2, <2>3, <2>4 DEF SemOk
<1> QED BY <1>1, <1>3, <1>4

\* The semaphore sem becomes s when the processes A are released for n signals.
Signals(s, A, sem, n) ==
  /\ s.count = sem.count + n
  /\ LeastOf(n, Len(sem.queue)) \in Nat
  /\ Len(s.queue) = Len(sem.queue) - LeastOf(n, Len(sem.queue))
  /\ A \subseteq ToSet(sem.queue) /\ ToSet(s.queue) \subseteq ToSet(sem.queue)
  /\ IsFiniteSet(A) /\ Cardinality(A) = LeastOf(n, Len(sem.queue))

\* signaln: the first of the queue are released, as many as there are or as are wanted.
LEMMA SignalledOk ==
  ASSUME NEW P, NEW R, NEW sem, SemOk(sem, P, R), NEW n \in Nat
  PROVE  /\ SemOk(Signalled(sem, n), P, R \union Released(sem, n))
         /\ Signals(Signalled(sem, n), Released(sem, n), sem, n)
<1> PICK q : q = sem.queue
  OBVIOUS
<1> PICK c : c = sem.count
  OBVIOUS
<1> PICK k : k = LeastOf(n, Len(q))
  OBVIOUS
<1> PICK r : r = SubSeq(q, k + 1, Len(q))
  OBVIOUS
<1> PICK A : A = Released(sem, n)
  OBVIOUS
<1>1. /\ c \in Int /\ q \in Seq(P) /\ Len(q) \in Nat /\ OnceEach(q) /\ ToSet(q) \cap R = {}
      /\ Len(q) = IF c < 0 THEN -c ELSE 0
  BY QueueFacts DEF SemOk
<1>2. k \in 0 .. Len(q) /\ k <= n /\ (k = n \/ k = Len(q)) /\ k \in Nat
  BY <1>1 DEF LeastOf
<1>3. Signalled(sem, n) = [count |-> c + n, queue |-> r]
  BY DEF Signalled
<1>4. A = FirstOf(q, k)
  BY DEF Released, FirstOf
<1>9. q \in Seq(P) /\ OnceEach(q) /\ k \in 0 .. Len(q)
  BY ONLY <1>1, <1>2
<1>10. Divides(A, r, q, k, P)
  BY ONLY <1>9, <1>4, r = SubSeq(q, k + 1, Len(q)), DividedQueue
<1>5. /\ r \in Seq(P) /\ Len(r) = Len(q) - k /\ OnceEach(r)
      /\ ToSet(r) \subseteq ToSet(q) /\ A \subseteq ToSet(q) /\ ToSet(r) \cap A = {}
      /\ IsFiniteSet(A) /\ Cardinality(A) = k
  BY ONLY <1>10 DEF Divides
<1>6. ToSet(r) \cap (R \union A) = {}
  BY ONLY <1>1, <1>5
<1>7. Len(r) = IF c + n < 0 THEN -(c + n) ELSE 0
  BY ONLY <1>1, <1>2, <1>5, n \in Nat
<1>8. SemOk(Signalled(sem, n), P, R \union A)
  BY SMTT(40), <1>1, <1>3, <1>5, <1>6, <1>7 DEF SemOk
<1>11. Signals(Signalled(sem, n), A, sem, n)
  BY <1>2, <1>3, <1>5 DEF Signals
<1> QED BY <1>8, <1>11

----------------------------------------------------------------------------
LEMMA TtyFacts ==
  /\ IBUFLEN \in Nat /\ IBUFLEN > 1 /\ EBUFLEN \in Nat /\ EBUFLEN > 0
  /\ FIFO \in Nat /\ FIFO > 0 /\ OBUFLEN \in Nat /\ FIFO < OBUFLEN
  /\ Lengths \subseteq Nat
BY TtyAssumption

LEMMA ProcFacts ==
  Readers \cap Writers = {} /\ Proc = Readers \union Writers
BY TtyAssumption DEF Proc

\* What the two halves own of the processes that were released.
LEMMA WokenParts ==
  ASSUME Types
  PROVE  /\ IsFiniteSet(Owed) /\ Cardinality(Owed) \in Nat
         /\ IsFiniteSet(Granted) /\ Cardinality(Granted) \in Nat
<1>1. Owed \subseteq woken /\ Granted \subseteq woken /\ IsFiniteSet(woken)
  BY DEF Types, Owed, Granted
<1>2. IsFiniteSet(Owed) /\ IsFiniteSet(Granted)
  BY ONLY <1>1, FS_Subset
<1> QED BY <1>2, FS_CardinalityType

\* Only readers run the input half and only writers the output half.
LEMMA WhoRuns ==
  ASSUME Types, NEW p \in Proc
  PROVE  (task[p].op \in ReadOps => p \in Readers) /\ (task[p].op \in OutputOps => p \in Writers)
BY ProcFacts DEF Types

\* The next character, or the end of the call.
LEMMA MovesOn ==
  ASSUME Types, NEW p \in Proc, NEW over, Advance(p, over)
  PROVE  /\ task' \in [Proc -> Calls]
         /\ \A q \in Proc : task'[q].op \in {task[q].op, "none"}
         /\ \A q \in Proc \ {p} : task'[q] = task[q]
<1>1. task \in [Proc -> Calls]
  BY DEF Types
<1> PICK t : t = [op |-> task[p].op, left |-> task[p].left - 1, first |-> FALSE]
  OBVIOUS
<1>2. task' = [task EXCEPT ![p] = IF over THEN Idle ELSE t]
  BY DEF Advance
<1>3. Idle \in Calls /\ Idle.op = "none"
  BY DEF Idle, Calls
<1>4. t \in Calls /\ t.op = task[p].op
  BY <1>1 DEF Calls
<1> QED BY <1>1, <1>2, <1>3, <1>4

LEMMA Kick ==
  ASSUME Types, ttyKickOut
  PROVE  /\ uart' \in [ier : BOOLEAN, thre : BOOLEAN, busy : BOOLEAN] /\ quiet' \in BOOLEAN
         /\ uart'.ier /\ (uart'.thre \/ uart'.busy)
BY DEF Types, ttyKickOut, Kicked

----------------------------------------------------------------------------
\* A step that leaves one of the halves alone.
LEMMA SameOutput ==
  ASSUME OutputOk, UNCHANGED <<ovars, osem>>, Owed' = Owed
  PROVE  OutputOk'
BY DEF OutputOk, DeviceOk, ovars

LEMMA SameInput ==
  ASSUME InputOk, UNCHANGED isem, Granted' = Granted,
         \A p \in Granted \union ToSet(isem.queue) : task'[p].op = task[p].op
  PROVE  InputOk' /\ Entered' = Entered
BY DEF InputOk, Entered, avail, semcount

\* A call begins.
LEMMA BeginKeeps ==
  ASSUME TtyInv, NEW p \in Proc, NEW op, NEW n \in Int, Begin(p, op, n),
         \/ op \in ReadOps /\ p \in Readers
         \/ op \in OutputOps /\ p \in Writers
  PROVE  Types' /\ OutputOk' /\ InputOk' /\ RingStep
<1>1. /\ Types /\ OutputOk /\ InputOk /\ task \in [Proc -> Calls] /\ task[p].op = "none"
      /\ task' = [task EXCEPT ![p] = [op |-> op, left |-> n, first |-> TRUE]]
      /\ UNCHANGED <<ivars, isem, ovars, osem, woken, fault>>
  BY DEF TtyInv, Types, Begin, Computes, Idle
<1>2. [op |-> op, left |-> n, first |-> TRUE] \in Calls
  BY DEF Calls
<1>3. task' \in [Proc -> Calls] /\ task'[p].op = op /\ \A q \in Proc \ {p} : task'[q] = task[q]
  BY <1>1, <1>2
<1>4. op \in ReadOps => op \notin OutputOps
  BY DEF ReadOps, InputOps, OutputOps
<1>5. p \in Readers => p \notin Writers
  BY ProcFacts
<1>6. Types'
  BY <1>1, <1>3, <1>4, <1>5, ProcFacts DEF Types, ovars
<1>7. Owed' = Owed /\ Granted' = Granted
  BY <1>1 DEF Owed, Granted
<1>8. p \notin Granted \union ToSet(isem.queue)
  BY <1>1 DEF InputOk, ReadOps, InputOps
<1>9. Granted \union ToSet(isem.queue) \subseteq Proc
  BY <1>1, QueueFacts, ProcFacts DEF InputOk, Granted
<1>10. InputOk' /\ Entered' = Entered
  BY <1>1, <1>3, <1>7, <1>8, <1>9, SameInput
<1>11. OutputOk'
  BY <1>1, <1>7, SameOutput
<1> QED BY <1>1, <1>6, <1>10, <1>11 DEF RingStep, RingStays, ivars

\* The modes change, or nothing does.
LEMMA ModesKeep ==
  ASSUME TtyInv, UNCHANGED <<ibuf, ihead, itail, icursor, isem, ovars, osem, task, woken, fault>>
  PROVE  Types' /\ OutputOk' /\ InputOk' /\ RingStep
<1>1. Types /\ OutputOk /\ InputOk
  BY DEF TtyInv
<1>2. Owed' = Owed /\ Granted' = Granted
  BY DEF Owed, Granted
<1>3. InputOk' /\ Entered' = Entered
  BY <1>1, <1>2, SameInput
<1>4. OutputOk'
  BY <1>1, <1>2, SameOutput
<1>5. Types'
  BY <1>1 DEF Types, ovars
<1> QED BY <1>3, <1>4, <1>5 DEF RingStep, RingStays

----------------------------------------------------------------------------
\* A process that runs is on no queue.
LEMMA Running ==
  ASSUME RunsOk, NEW p \in Proc, MayRun(p)
  PROVE  p \notin ToSet(isem.queue) /\ p \notin ToSet(osem.queue)
BY DEF RunsOk, MayRun

\* The semaphore after somebody who was released runs.
LEMMA OneLess ==
  ASSUME NEW P, NEW R, NEW sem, SemOk(sem, P, R), NEW p
  PROVE  SemOk(sem, P, R \ {p})
BY DEF SemOk

\* What wait does to the input half: p takes a character or goes to sleep.
LEMMA ReaderWaits ==
  ASSUME TtyInv, NEW p \in Readers, p \notin ToSet(isem.queue), p \notin woken, isem' = Waited(isem, p),
         UNCHANGED woken, task' \in [Proc -> Calls],
         isem.count <= 0 => task'[p].op \in ReadOps,
         \A q \in Proc \ {p} : task'[q] = task[q]
  PROVE  /\ InputOk' /\ Owed' = Owed
         /\ isem.count <= 0 => Entered' = Entered
         /\ isem.count > 0 => Entered > 0 /\ Entered' = Entered - 1
<1>1. SemOk(isem, Readers, Granted) /\ \A q \in Granted \union ToSet(isem.queue) : task[q].op \in ReadOps
  BY DEF TtyInv, InputOk
<1>2. p \notin Granted
  BY DEF Granted
<1>3. /\ SemOk(isem', Readers, Granted) /\ isem'.count = isem.count - 1
      /\ isem.count > 0 => isem'.queue = isem.queue
      /\ isem.count <= 0 => ToSet(isem'.queue) = ToSet(isem.queue) \union {p}
  BY <1>1, <1>2, WaitedOk
<1>4. Granted' = Granted /\ Owed' = Owed
  BY DEF Granted, Owed
<1>5. Granted \union ToSet(isem.queue) \subseteq Proc \ {p}
  BY <1>1, <1>2, QueueFacts, ProcFacts DEF Granted
<1>6. \A q \in Granted' \union ToSet(isem'.queue) : task'[q].op \in ReadOps
  <2>1. CASE isem.count > 0
    BY <1>1, <1>3, <1>4, <1>5, <2>1
  <2>2. CASE isem.count <= 0
    BY <1>1, <1>3, <1>4, <1>5, <2>2
  <2> QED BY <1>1, <2>1, <2>2, QueueFacts
<1>7. InputOk'
  BY <1>3, <1>4, <1>6 DEF InputOk
<1>8. isem.count \in Int /\ Cardinality(Granted) \in Nat
  BY <1>1, QueueFacts, WokenParts DEF TtyInv
<1>9. /\ isem.count <= 0 => Entered' = Entered
      /\ isem.count > 0 => Entered > 0 /\ Entered' = Entered - 1
  BY <1>3, <1>4, <1>8 DEF Entered, avail, semcount
<1> QED BY <1>4, <1>7, <1>9

\* A reader that was released runs.
LEMMA ReaderRuns ==
  ASSUME TtyInv, NEW p \in Readers, p \in woken, woken' = woken \ {p}, UNCHANGED isem,
         task' \in [Proc -> Calls], \A q \in Proc \ {p} : task'[q] = task[q]
  PROVE  InputOk' /\ Owed' = Owed /\ Entered > 0 /\ Entered' = Entered - 1
<1>1. SemOk(isem, Readers, Granted) /\ \A q \in Granted \union ToSet(isem.queue) : task[q].op \in ReadOps
  BY DEF TtyInv, InputOk
<1>2. Granted' = Granted \ {p} /\ Owed' = Owed /\ p \in Granted
  BY ProcFacts DEF Granted, Owed
<1>3. p \notin ToSet(isem.queue)
  BY <1>1, <1>2 DEF SemOk
<1>4. Granted \union ToSet(isem.queue) \subseteq Proc
  BY <1>1, QueueFacts, ProcFacts DEF Granted
<1>5. SemOk(isem', Readers, Granted')
  BY <1>1, <1>2, OneLess
<1>6. InputOk'
  BY <1>1, <1>2, <1>3, <1>4, <1>5 DEF InputOk
<1>7. isem.count \in Int /\ Cardinality(Granted) \in Nat /\ IsFiniteSet(Granted)
  BY <1>1, QueueFacts, WokenParts DEF TtyInv
<1>8. Cardinality(Granted') = Cardinality(Granted) - 1 /\ Cardinality(Granted') \in Nat
  <2>1. IsFiniteSet(Granted \ {p}) /\ Cardinality(Granted \ {p}) = Cardinality(Granted) - 1
    BY <1>2, <1>7, FS_RemoveElement
  <2> QED BY <1>2, <2>1, FS_CardinalityType
<1>9. Entered > 0 /\ Entered' = Entered - 1
  BY <1>7, <1>8 DEF Entered, avail, semcount
<1> QED BY <1>2, <1>6, <1>9

LEMMA GetcKeeps ==
  ASSUME TtyInv, NEW p \in Proc, ttyGetc(p)
  PROVE  Types' /\ OutputOk' /\ InputOk' /\ RingStep /\ Owed' = Owed
<1>1. Types /\ OutputOk /\ task[p].op \in InputOps /\ p \in Readers /\ p \notin ToSet(isem.queue)
  BY WhoRuns, Running DEF TtyInv, ttyGetc, ReadOps
<1>2. UNCHANGED <<ovars, osem, fault>>
  BY DEF ttyGetc
<1>3. ASSUME Extract(p), woken' \subseteq woken, Owed' = Owed
      PROVE  /\ task' \in [Proc -> Calls] /\ \A q \in Proc \ {p} : task'[q] = task[q]
             /\ Types'
             /\ Entered > 0 /\ Entered' = Entered - 1 => RingTakes
  <2>1. Advance(p, Ends(task[p], ibuf[ihead]))
    BY <1>3 DEF Extract
  <2>2. /\ task' \in [Proc -> Calls] /\ \A q \in Proc \ {p} : task'[q] = task[q]
        /\ \A q \in Proc : task'[q].op \in {task[q].op, "none"}
    BY <1>1, <2>1, MovesOn
  <2>3. IsFiniteSet(woken') /\ woken' \subseteq Proc
    BY <1>1, <1>3, FS_Subset DEF Types
  <2>4. Types'
    BY <1>1, <1>2, <2>2, <2>3, ProcFacts DEF Types, ovars, ReadOps, InputOps, OutputOps
  <2>5. Entered > 0 /\ Entered' = Entered - 1 => RingTakes
    BY <1>2, <1>3 DEF RingTakes, Extract
  <2> QED BY <2>2, <2>4, <2>5
<1>4. CASE p \in woken /\ woken' = woken \ {p} /\ Extract(p) /\ UNCHANGED isem
  <2>1. Owed' = Owed
    BY <1>1, <1>4, ProcFacts DEF Owed
  <2>2. /\ task' \in [Proc -> Calls] /\ \A q \in Proc \ {p} : task'[q] = task[q]
        /\ Types' /\ (Entered > 0 /\ Entered' = Entered - 1 => RingTakes)
    BY <1>3, <1>4, <2>1
  <2>3. InputOk' /\ Entered > 0 /\ Entered' = Entered - 1
    BY <1>1, <1>4, <2>2, ReaderRuns
  <2>4. OutputOk'
    BY <1>1, <1>2, <2>1, SameOutput
  <2> QED BY <2>1, <2>2, <2>3, <2>4 DEF RingStep
<1>5. CASE p \notin woken /\ isem' = Waited(isem, p) /\ isem.count > 0 /\ Extract(p) /\ UNCHANGED woken
  <2>1. Owed' = Owed
    BY <1>5 DEF Owed
  <2>2. /\ task' \in [Proc -> Calls] /\ \A q \in Proc \ {p} : task'[q] = task[q]
        /\ Types' /\ (Entered > 0 /\ Entered' = Entered - 1 => RingTakes)
    BY <1>3, <1>5, <2>1
  <2>5. isem.count \in Int
    BY QueueFacts DEF TtyInv, InputOk
  <2>6. ~(isem.count <= 0)
    BY <1>5, <2>5
  <2>3. InputOk' /\ Entered > 0 /\ Entered' = Entered - 1
    BY <1>1, <1>5, <2>2, <2>6, ReaderWaits
  <2>4. OutputOk'
    BY <1>1, <1>2, <2>1, SameOutput
  <2> QED BY <2>1, <2>2, <2>3, <2>4 DEF RingStep
<1>6. CASE p \notin woken /\ isem' = Waited(isem, p) /\ ~(isem.count > 0) /\ Sleep /\ UNCHANGED ivars
  <2>1. UNCHANGED <<task, woken>> /\ task' \in [Proc -> Calls] /\ task'[p].op \in ReadOps
    BY <1>1, <1>6 DEF Sleep, Types, ReadOps
  <2>2. isem.count \in Int
    BY QueueFacts DEF TtyInv, InputOk
  <2>3. isem.count <= 0
    BY <1>6, <2>2
  <2>4. InputOk' /\ Owed' = Owed /\ Entered' = Entered
    BY <1>1, <1>6, <2>1, <2>3, ReaderWaits
  <2>5. OutputOk'
    BY <1>1, <1>2, <2>4, SameOutput
  <2>6. Types'
    BY <1>1, <1>2, <2>1 DEF Types, ovars
  <2>7. RingStays
    BY <1>2, <1>6, <2>4 DEF RingStays, ivars
  <2> QED BY <2>4, <2>5, <2>6, <2>7 DEF RingStep
<1> QED BY <1>4, <1>5, <1>6 DEF ttyGetc

----------------------------------------------------------------------------
Available(count) == IF count < 0 THEN 0 ELSE count

\* Instead of those in R those in H have been released and not run since.
Grants(s, H, sem, R, n) ==
  /\ IsFiniteSet(H)
  /\ Cardinality(H) = Cardinality(R) + (Len(sem.queue) - Len(s.queue))
  /\ Available(s.count) + Cardinality(H) = Available(sem.count) + Cardinality(R) + n

\* What signaln grants is taken out of the count or given to those it releases.
LEMMA SignalGrants ==
  ASSUME NEW P, NEW R, IsFiniteSet(R), NEW sem, SemOk(sem, P, R), NEW n \in Nat,
         NEW s, s = Signalled(sem, n), NEW A, A = Released(sem, n)
  PROVE  Grants(s, R \union A, sem, R, n)
<1>0. Signals(s, A, sem, n)
  BY SignalledOk
<1>1. /\ s.count = sem.count + n /\ A \subseteq ToSet(sem.queue)
      /\ Len(s.queue) = Len(sem.queue) - LeastOf(n, Len(sem.queue))
      /\ IsFiniteSet(A) /\ Cardinality(A) = LeastOf(n, Len(sem.queue))
      /\ LeastOf(n, Len(sem.queue)) \in Nat
  BY <1>0 DEF Signals
<1>2. /\ sem.count \in Int /\ Len(sem.queue) \in Nat
      /\ ToSet(sem.queue) \cap R = {}
      /\ Len(sem.queue) = IF sem.count < 0 THEN -sem.count ELSE 0
  BY QueueFacts DEF SemOk
<1>3. R \cap A = {}
  BY ONLY <1>1, <1>2
<1>4. IsFiniteSet(R \union A) /\ Cardinality(R \union A) = Cardinality(R) + Cardinality(A)
  <2>1. /\ IsFiniteSet(R \union A)
        /\ Cardinality(R \union A) = Cardinality(R) + Cardinality(A) - Cardinality(R \cap A)
    BY <1>1, FS_Union
  <2>2. Cardinality(R \cap A) = 0
    BY <1>3, FS_EmptySet
  <2>3. Cardinality(R) \in Nat /\ Cardinality(A) \in Nat
    BY <1>1, FS_CardinalityType
  <2> QED BY <2>1, <2>2, <2>3
<1>5. Cardinality(R) \in Nat
  BY FS_CardinalityType
<1>6. /\ Cardinality(R \union A) = Cardinality(R) + (Len(sem.queue) - Len(s.queue))
      /\ Available(s.count) + Cardinality(R \union A) = Available(sem.count) + Cardinality(R) + n
  <2> PICK c, l, k, r : c = sem.count /\ l = Len(sem.queue) /\ k = Cardinality(A) /\ r = Cardinality(R)
    OBVIOUS
  <2>1. /\ c \in Int /\ l \in Nat /\ l = IF c < 0 THEN -c ELSE 0
        /\ k = IF n <= l THEN n ELSE l
        /\ r \in Nat /\ Len(s.queue) = l - k /\ s.count = c + n
        /\ Cardinality(R \union A) = r + k
    BY <1>1, <1>2, <1>4, <1>5 DEF LeastOf
  <2>2. r + k = r + (l - (l - k))
    BY ONLY <2>1, n \in Nat
  <2>3. Available(c + n) + (r + k) = Available(c) + r + n
    BY ONLY <2>1, n \in Nat DEF Available
  <2> QED BY <2>1, <2>2, <2>3
<1> QED BY <1>4, <1>6 DEF Grants

\* What a signal does to the input half, p being a reader that has run first.
LEMMA ReadersSignalled ==
  ASSUME Types, NEW R, R \subseteq Readers, IsFiniteSet(R), NEW sem, SemOk(sem, Readers, R), NEW n \in Nat,
         \A q \in R \union ToSet(sem.queue) : task'[q].op \in ReadOps,
         isem' = Signalled(sem, n), Granted' = R \union Released(sem, n)
  PROVE  InputOk' /\ Entered' = Available(sem.count) + Cardinality(R) + n
<1> PICK A : A = Released(sem, n)
  OBVIOUS
<1>0. SemOk(isem', Readers, Granted') /\ Signals(isem', A, sem, n) /\ Granted' = R \union A
  BY SignalledOk
<1>1. /\ SemOk(isem', Readers, Granted')
      /\ Granted' \subseteq R \union ToSet(sem.queue) /\ ToSet(isem'.queue) \subseteq ToSet(sem.queue)
  BY <1>0 DEF Signals
<1>2. InputOk'
  BY <1>1 DEF InputOk
<1>4. Grants(isem', R \union A, sem, R, n)
  BY SignalGrants
<1>3. Available(isem'.count) + Cardinality(Granted') = Available(sem.count) + Cardinality(R) + n
  BY <1>0, <1>4 DEF Grants
<1> QED BY <1>2, <1>3 DEF Entered, avail, semcount, Available

LEMMA NextcKeeps ==
  ASSUME TtyInv, NEW p \in Proc, Nextc(p)
  PROVE  Types' /\ OutputOk' /\ InputOk' /\ RingStep /\ Owed' = Owed
<1>1. Types /\ OutputOk /\ task[p].op \in ReadOps /\ p \in Readers /\ p \notin ToSet(isem.queue)
  BY WhoRuns, Running DEF TtyInv, Nextc, ReadOps
<1>2. UNCHANGED <<ivars, ovars, osem, fault>>
  BY DEF Nextc
<1>3. SemOk(isem, Readers, Granted) /\ \A q \in Granted \union ToSet(isem.queue) : task[q].op \in ReadOps
  BY DEF TtyInv, InputOk
<1>4. isem.count \in Int /\ Cardinality(Granted) \in Nat /\ IsFiniteSet(Granted)
  BY <1>1, <1>3, QueueFacts, WokenParts
<1>5. CASE p \notin woken /\ isem.count <= 0 /\ isem' = Waited(isem, p) /\ Sleep
  <2>1. UNCHANGED <<task, woken>> /\ task' \in [Proc -> Calls] /\ task'[p].op \in ReadOps
    BY <1>1, <1>5 DEF Sleep, Types
  <2>4. InputOk' /\ Owed' = Owed /\ Entered' = Entered
    BY <1>1, <1>5, <2>1, ReaderWaits
  <2>5. OutputOk'
    BY <1>1, <1>2, <2>4, SameOutput
  <2>6. Types'
    BY <1>1, <1>2, <2>1 DEF Types, ovars
  <2>7. RingStays
    BY <1>2, <2>4 DEF RingStays, ivars
  <2> QED BY <2>4, <2>5, <2>6, <2>7 DEF RingStep
<1>6. ASSUME NEW s, \/ p \in woken /\ s = isem
                    \/ p \notin woken /\ isem.count > 0 /\ s = Waited(isem, p),
             isem' = Signalled(s, 1), woken' = (woken \ {p}) \union Released(s, 1), Advance(p, TRUE)
      PROVE  Types' /\ OutputOk' /\ InputOk' /\ RingStep /\ Owed' = Owed
  <2> PICK R : R = Granted \ {p}
    OBVIOUS
  <2>1. /\ SemOk(s, Readers, R) /\ ToSet(s.queue) = ToSet(isem.queue)
        /\ Available(s.count) + Cardinality(R) + 1 = Entered
    <3>1. CASE p \in woken /\ s = isem
      <4>1. Cardinality(R) = Cardinality(Granted) - 1
        BY <1>1, <1>4, <3>1, FS_RemoveElement DEF Granted
      <4>2. Available(s.count) = avail
        BY <3>1 DEF avail, semcount, Available
      <4>3. avail \in Int
        BY <1>4 DEF avail, semcount
      <4>4. Available(s.count) + Cardinality(R) + 1 = Entered
        BY <1>4, <4>1, <4>2, <4>3 DEF Entered
      <4>5. SemOk(s, Readers, R) /\ s = isem
        BY <1>3, <3>1, OneLess
      <4> QED BY <4>4, <4>5
    <3>2. CASE p \notin woken /\ isem.count > 0 /\ s = Waited(isem, p)
      <4>1. R = Granted
        BY <3>2 DEF Granted
      <4>2. p \notin Granted
        BY <3>2 DEF Granted
      <4>6. /\ SemOk(Waited(isem, p), Readers, Granted) /\ Waited(isem, p).count = isem.count - 1
            /\ isem.count > 0 => Waited(isem, p).queue = isem.queue
        BY <1>1, <1>3, <4>2, WaitedOk
      <4>3. SemOk(s, Readers, R) /\ s.count = isem.count - 1 /\ s.queue = isem.queue
        BY <3>2, <4>1, <4>6
      <4>4. Available(s.count) + 1 = avail /\ Available(s.count) \in Int
        BY <1>4, <3>2, <4>3 DEF Available, avail, semcount
      <4>5. Available(s.count) + Cardinality(R) + 1 = Entered
        BY <1>4, <4>1, <4>4 DEF Entered
      <4> QED BY <4>3, <4>5
    <3> QED BY <1>6, <3>1, <3>2
  <2>12. Signals(Signalled(s, 1), Released(s, 1), s, 1)
    BY <2>1, SignalledOk
  <2>2. IsFiniteSet(R) /\ R \subseteq Readers /\ Released(s, 1) \subseteq ToSet(s.queue) /\ IsFiniteSet(Released(s, 1))
    BY <1>4, <2>12, FS_RemoveElement DEF Granted, Signals
  <2>3. ToSet(s.queue) \subseteq Readers
    BY <2>1, QueueFacts
  <2>4. Granted' = R \union Released(s, 1) /\ Owed' = Owed
    BY <1>1, <1>6, <2>2, <2>3, ProcFacts DEF Granted, Owed
  <2>5. /\ task' \in [Proc -> Calls] /\ \A q \in Proc \ {p} : task'[q] = task[q]
        /\ \A q \in Proc : task'[q].op \in {task[q].op, "none"}
    BY <1>1, <1>6, MovesOn
  <2>6. \A q \in R \union ToSet(s.queue) : task'[q].op \in ReadOps
    BY <1>1, <1>3, <2>1, <2>2, <2>3, <2>5, ProcFacts
  <2>7. InputOk' /\ Entered' = Available(s.count) + Cardinality(R) + 1
    BY <1>1, <1>6, <2>1, <2>2, <2>4, <2>6, ReadersSignalled
  <2>8. IsFiniteSet(woken') /\ woken' \subseteq Proc
    <3>1. IsFiniteSet(woken \ {p}) /\ woken \subseteq Proc
      BY <1>1, FS_RemoveElement DEF Types
    <3>2. IsFiniteSet((woken \ {p}) \union Released(s, 1))
      BY <2>2, <3>1, FS_Union
    <3> QED BY <1>6, <2>2, <2>3, <3>1, <3>2, ProcFacts
  <2>9. Types'
    BY <1>1, <1>2, <2>5, <2>8, ProcFacts DEF Types, ovars, ReadOps, InputOps, OutputOps
  <2>10. OutputOk'
    BY <1>1, <1>2, <2>4, SameOutput
  <2>11. RingStays
    BY <1>2, <2>1, <2>7 DEF RingStays, ivars
  <2> QED BY <2>4, <2>7, <2>9, <2>10, <2>11 DEF RingStep
<1> PICK s : s = IF p \in woken THEN isem ELSE Waited(isem, p)
  OBVIOUS
<1>7. CASE /\ p \in woken \/ isem.count > 0
           /\ isem' = Signalled(s, 1) /\ woken' = (woken \ {p}) \union Released(s, 1) /\ Advance(p, TRUE)
  <2>1. \/ p \in woken /\ s = isem
        \/ p \notin woken /\ isem.count > 0 /\ s = Waited(isem, p)
    BY <1>7
  <2> QED BY <1>6, <1>7, <2>1
<1> QED BY <1>5, <1>7 DEF Nextc

----------------------------------------------------------------------------
\* What belongs to the readers is not touched by a writer or by the output interrupt.
LEMMA ReadersUntouched ==
  ASSUME TtyInv, UNCHANGED <<ivars, isem, fault>>, Granted' = Granted,
         \A q \in Readers : task'[q].op = task[q].op
  PROVE  InputOk' /\ RingStep
<1>1. InputOk
  BY DEF TtyInv
<1>2. Granted \union ToSet(isem.queue) \subseteq Readers
  BY <1>1, QueueFacts DEF InputOk, Granted
<1>3. InputOk' /\ Entered' = Entered
  BY <1>1, <1>2, SameInput
<1> QED BY <1>3 DEF RingStep, RingStays, ivars

LEMMA PutcKeeps ==
  ASSUME TtyInv, NEW p \in Proc, ttyPutc(p)
  PROVE  Types' /\ OutputOk' /\ InputOk' /\ RingStep
<1>1. Types /\ OutputOk /\ task[p].op \in OutputOps /\ p \in Writers /\ p \notin ToSet(osem.queue)
  BY WhoRuns, Running DEF TtyInv, ttyPutc
<1>2. UNCHANGED <<ivars, isem, fault>>
  BY DEF ttyPutc
<1>3. /\ SemOk(osem, Writers, Owed) /\ osem.count = OBUFLEN - stored - Cardinality(Owed) - Len(osem.queue)
      /\ stored \in Int /\ OBUFLEN \in Nat /\ osem.count \in Int /\ Len(osem.queue) \in Nat
      /\ IsFiniteSet(Owed) /\ Cardinality(Owed) \in Nat
  BY <1>1, QueueFacts, WokenParts, TtyFacts DEF OutputOk, Types
<1>4. ASSUME Put(p), woken' \subseteq woken
      PROVE  /\ Types' /\ DeviceOk' /\ stored' = stored + 1
             /\ \A q \in Readers : task'[q].op = task[q].op
  <2>1. /\ stored' = stored + 1 /\ ttyKickOut /\ Advance(p, task[p].left <= 1)
        /\ UNCHANGED <<oheld, epend>>
    BY <1>4 DEF Put
  <2>2. /\ task' \in [Proc -> Calls] /\ \A q \in Proc \ {p} : task'[q] = task[q]
        /\ \A q \in Proc : task'[q].op \in {task[q].op, "none"}
    BY <1>1, <2>1, MovesOn
  <2>3. IsFiniteSet(woken') /\ woken' \subseteq Proc
    BY <1>1, <1>4, FS_Subset DEF Types
  <2>4. /\ uart' \in [ier : BOOLEAN, thre : BOOLEAN, busy : BOOLEAN] /\ quiet' \in BOOLEAN
        /\ uart'.ier /\ (uart'.thre \/ uart'.busy)
    BY <1>1, <2>1, Kick
  <2>5. Types'
    <3>1. stored' \in Int
      BY <1>3, <2>1
    <3> QED BY <1>1, <2>1, <2>2, <2>3, <2>4, <3>1, ProcFacts DEF Types, ReadOps, InputOps, OutputOps
  <2>6. DeviceOk'
    BY <2>4 DEF DeviceOk
  <2> QED BY <1>1, <2>1, <2>2, <2>5, <2>6, ProcFacts
<1>5. CASE p \in woken /\ woken' = woken \ {p} /\ Put(p) /\ UNCHANGED osem
  <2>1. Owed' = Owed \ {p} /\ p \in Owed /\ Granted' = Granted
    BY <1>1, <1>5, ProcFacts DEF Owed, Granted
  <2>2. Cardinality(Owed') = Cardinality(Owed) - 1
    BY <1>3, <2>1, FS_RemoveElement
  <2>3. SemOk(osem', Writers, Owed')
    BY <1>3, <1>5, <2>1, OneLess
  <2>4. /\ Types' /\ DeviceOk' /\ stored' = stored + 1
        /\ \A q \in Readers : task'[q].op = task[q].op
    BY <1>4, <1>5
  <2>5. osem'.count = OBUFLEN - stored' - Cardinality(Owed') - Len(osem'.queue)
    BY <1>3, <1>5, <2>2, <2>4
  <2> QED BY <1>2, <2>1, <2>3, <2>4, <2>5, ReadersUntouched DEF OutputOk
<1>6. CASE p \notin woken /\ osem' = Waited(osem, p) /\ osem.count > 0 /\ Put(p) /\ UNCHANGED woken
  <2>1. Owed' = Owed /\ p \notin Owed /\ Granted' = Granted
    BY <1>6 DEF Owed, Granted
  <2>2. /\ SemOk(osem', Writers, Owed) /\ osem'.count = osem.count - 1
        /\ osem.count > 0 => osem'.queue = osem.queue
    BY <1>1, <1>3, <1>6, <2>1, WaitedOk
  <2>3. SemOk(osem', Writers, Owed') /\ osem'.queue = osem.queue
    BY <1>6, <2>1, <2>2
  <2>4. /\ Types' /\ DeviceOk' /\ stored' = stored + 1
        /\ \A q \in Readers : task'[q].op = task[q].op
    BY <1>4, <1>6
  <2>5. osem'.count = OBUFLEN - stored' - Cardinality(Owed') - Len(osem'.queue)
    BY <1>3, <2>1, <2>2, <2>3, <2>4
  <2> QED BY <1>2, <2>1, <2>3, <2>4, <2>5, ReadersUntouched DEF OutputOk
<1>7. CASE p \notin woken /\ osem' = Waited(osem, p) /\ ~(osem.count > 0) /\ Sleep /\ UNCHANGED ovars
  <2>1. UNCHANGED <<task, woken>>
    BY <1>7 DEF Sleep
  <2>2. Owed' = Owed /\ p \notin Owed /\ Granted' = Granted
    BY <1>7, <2>1 DEF Owed, Granted
  <2>3. osem.count <= 0
    BY <1>3, <1>7
  <2>4. /\ SemOk(osem', Writers, Owed) /\ osem'.count = osem.count - 1
        /\ osem.count <= 0 => Len(osem'.queue) = Len(osem.queue) + 1
    BY <1>1, <1>3, <1>7, <2>2, WaitedOk
  <2>5. SemOk(osem', Writers, Owed')
    BY <2>2, <2>4
  <2>6. osem'.count = OBUFLEN - stored' - Cardinality(Owed') - Len(osem'.queue)
    BY <1>3, <1>7, <2>2, <2>3, <2>4 DEF ovars
  <2>7. Types'
    BY <1>1, <1>7, <2>1 DEF Types, ovars
  <2>8. DeviceOk'
    BY <1>1, <1>7 DEF OutputOk, DeviceOk, ovars
  <2> QED BY <1>2, <2>1, <2>2, <2>5, <2>6, <2>7, <2>8, ReadersUntouched DEF OutputOk
<1> QED BY <1>5, <1>6, <1>7 DEF ttyPutc

----------------------------------------------------------------------------
LEMMA SendableFacts ==
  ASSUME TtyInv
  PROVE  /\ LeastOf(FIFO, epend) \in 0 .. FIFO /\ LeastOf(FIFO, epend) <= epend
         /\ \A room \in 0 .. FIFO : Sendable(room) \in 0 .. room
<1>1. epend \in Nat /\ FIFO \in Nat /\ OBUFLEN \in Nat /\ osem.count \in Int
  BY TtyFacts, QueueFacts DEF TtyInv, Types, OutputOk
<1> QED BY <1>1 DEF LeastOf, Sendable, semcount

LEMMA SendIsNat ==
  ASSUME TtyInv, NEW e, e = LeastOf(FIFO, epend), NEW o, o = Sendable(FIFO - e)
  PROVE  e \in Nat /\ o \in 0 .. FIFO /\ o \in Nat /\ e <= epend
<1>1. e \in 0 .. FIFO /\ e <= epend /\ FIFO \in Nat
  BY SendableFacts, TtyFacts
<1>2. FIFO - e \in 0 .. FIFO
  BY ONLY <1>1
<1>3. o \in 0 .. FIFO - e
  BY <1>2, SendableFacts
<1> QED BY ONLY <1>1, <1>3

\* With an empty queue the ring holds no more than the semaphore says; with one it is full.
LEMMA OutputPlaces ==
  ASSUME TtyInv
  PROVE  /\ stored \in Int /\ OBUFLEN \in Nat /\ osem.count \in Int /\ Cardinality(Owed) \in Nat
         /\ stored <= OBUFLEN - Cardinality(Owed)
         /\ osem.count >= 0 => stored = OBUFLEN - osem.count - Cardinality(Owed)
         /\ osem.count < 0 => stored = OBUFLEN - Cardinality(Owed)
<1> PICK c, l, w : c = osem.count /\ l = Len(osem.queue) /\ w = Cardinality(Owed)
  OBVIOUS
<1>1. /\ c = OBUFLEN - stored - w - l /\ l = IF c < 0 THEN -c ELSE 0
      /\ stored \in Int /\ OBUFLEN \in Nat /\ c \in Int /\ l \in Nat /\ w \in Nat
  BY QueueFacts, WokenParts, TtyFacts DEF TtyInv, OutputOk, Types, SemOk
<1>2. stored <= OBUFLEN - w /\ (c >= 0 => stored = OBUFLEN - c - w) /\ (c < 0 => stored = OBUFLEN - w)
  BY ONLY <1>1
<1> QED BY <1>1, <1>2

LEMMA OutKeeps ==
  ASSUME TtyInv, OutInterrupt
  PROVE  Types' /\ OutputOk' /\ InputOk' /\ RingStep
<1>1. Types /\ OutputOk /\ DeviceOk /\ UNCHANGED <<ivars, isem, oheld, quiet, task, fault>> /\ ttyInter_out
  BY DEF TtyInv, OutputOk, OutInterrupt
<1>2. /\ SemOk(osem, Writers, Owed) /\ osem.count = OBUFLEN - stored - Cardinality(Owed) - Len(osem.queue)
      /\ stored \in Int /\ OBUFLEN \in Nat /\ osem.count \in Int /\ Len(osem.queue) \in Nat
      /\ IsFiniteSet(Owed) /\ Cardinality(Owed) \in Nat /\ epend \in Nat
  BY <1>1, QueueFacts, WokenParts, TtyFacts DEF OutputOk, Types
<1>3. uart \in [ier : BOOLEAN, thre : BOOLEAN, busy : BOOLEAN]
  BY <1>1 DEF Types
<1>4. ASSUME NothingSent,
             uart' \in [ier : BOOLEAN, thre : BOOLEAN, busy : BOOLEAN], DeviceOk'
      PROVE  Types' /\ OutputOk' /\ InputOk' /\ RingStep
  <2>1. Owed' = Owed /\ Granted' = Granted
    BY <1>4 DEF Owed, Granted, NothingSent
  <2>2. Types'
    BY <1>1, <1>4 DEF Types, NothingSent
  <2>3. OutputOk'
    BY <1>1, <1>4, <2>1 DEF OutputOk, NothingSent
  <2> QED BY <1>1, <2>1, <2>2, <2>3, ReadersUntouched
<1>5. CASE oheld /\ uart' = [uart EXCEPT !.thre = FALSE] /\ NothingSent
  <2>1. uart' \in [ier : BOOLEAN, thre : BOOLEAN, busy : BOOLEAN] /\ uart'.ier = uart.ier
    BY <1>3, <1>5
  <2>2. DeviceOk'
    BY <1>1, <1>5, <2>1 DEF DeviceOk, NothingSent
  <2> QED BY <1>4, <1>5, <2>1, <2>2
<1>6. CASE OutOff /\ uart' = [uart EXCEPT !.ier = FALSE, !.thre = FALSE] /\ NothingSent
  <2>1. uart' \in [ier : BOOLEAN, thre : BOOLEAN, busy : BOOLEAN] /\ uart'.ier = FALSE
    BY <1>3, <1>6
  <2>2. epend = 0 /\ osem.count >= OBUFLEN
    BY <1>6 DEF OutOff, semcount
  <2>3. stored <= 0
    BY <1>2, <2>2
  <2>4. DeviceOk'
    BY <1>6, <2>1, <2>2, <2>3 DEF DeviceOk, NothingSent
  <2> QED BY <1>4, <1>6, <2>1, <2>4
<1>7. CASE Send
  <2> PICK e : e = LeastOf(FIFO, epend)
    OBVIOUS
  <2> PICK o : o = Sendable(FIFO - e)
    OBVIOUS
  <2>1. /\ epend' = epend - e /\ stored' = stored - o /\ osem' = Signalled(osem, o)
        /\ woken' = woken \union Released(osem, o)
        /\ uart' = [uart EXCEPT !.thre = FALSE, !.busy = TRUE]
    BY <1>7 DEF Send, SendAnd
  <2>2. e \in Nat /\ o \in Nat /\ e <= epend
    BY SendIsNat
  <2> PICK A : A = Released(osem, o)
    OBVIOUS
  <2>3. SemOk(osem', Writers, Owed \union A) /\ Signals(osem', A, osem, o)
    BY <1>2, <2>1, <2>2, SignalledOk
  <2>4. Grants(osem', Owed \union A, osem, Owed, o)
    BY <1>2, <2>1, <2>2, SignalGrants
  <2>5. A \subseteq Writers /\ IsFiniteSet(A) /\ osem'.count = osem.count + o
    BY <1>2, <2>3, QueueFacts DEF Signals
  <2>6. Owed' = Owed \union A /\ Granted' = Granted
    BY <2>1, <2>5, ProcFacts DEF Owed, Granted
  <2>7. /\ IsFiniteSet(Owed') /\ Len(osem'.queue) \in Nat
        /\ Cardinality(Owed') = Cardinality(Owed) + (Len(osem.queue) - Len(osem'.queue))
    BY <2>3, <2>4, <2>6, QueueFacts DEF Grants
  <2>8. osem'.count = OBUFLEN - stored' - Cardinality(Owed') - Len(osem'.queue)
    <3> PICK c, w, l, m, v : /\ c = osem.count /\ w = Cardinality(Owed) /\ l = Len(osem.queue)
                             /\ m = Len(osem'.queue) /\ v = Cardinality(Owed')
      OBVIOUS
    <3>1. /\ c = OBUFLEN - stored - w - l /\ v = w + (l - m)
          /\ stored \in Int /\ OBUFLEN \in Nat /\ c \in Int /\ l \in Nat /\ w \in Nat /\ m \in Nat
      BY <1>2, <2>7
    <3>2. c + o = OBUFLEN - (stored - o) - v - m
      BY ONLY <2>2, <3>1
    <3> QED BY <2>1, <2>5, <3>2
  <2>9. /\ uart' \in [ier : BOOLEAN, thre : BOOLEAN, busy : BOOLEAN]
        /\ uart'.ier = uart.ier /\ uart'.busy = TRUE
    BY <1>3, <2>1
  <2>10. epend' \in Nat /\ stored' \in Int /\ (epend = 0 => epend' = 0) /\ stored' <= stored
    BY <1>2, <2>1, <2>2
  <2>11. DeviceOk'
    <3>1. ~uart.ier => epend' = 0 /\ stored' <= 0
      BY <1>1, <1>2, <2>10 DEF DeviceOk
    <3> QED BY <2>9, <3>1 DEF DeviceOk
  <2>12. IsFiniteSet(woken') /\ woken' \subseteq Proc
    BY <1>1, <2>1, <2>5, FS_Union, ProcFacts DEF Types
  <2>13. Types'
    BY <1>1, <2>9, <2>10, <2>12 DEF Types
  <2>14. OutputOk'
    BY <2>3, <2>6, <2>8, <2>11 DEF OutputOk
  <2> QED BY <1>1, <2>6, <2>13, <2>14, ReadersUntouched
<1> QED BY <1>1, <1>5, <1>6, <1>7 DEF ttyInter_out

LEMMA DrainKeeps ==
  ASSUME TtyInv, UartDrain
  PROVE  Types' /\ OutputOk' /\ InputOk' /\ RingStep
<1>1. Types /\ OutputOk
  BY DEF TtyInv
<1>2. /\ uart' = [uart EXCEPT !.busy = FALSE, !.thre = uart.ier]
      /\ UNCHANGED <<ivars, isem, oheld, epend, stored, quiet, osem, task, woken, fault>>
  BY DEF UartDrain
<1>3. uart \in [ier : BOOLEAN, thre : BOOLEAN, busy : BOOLEAN]
  BY <1>1 DEF Types
<1>4. /\ uart' \in [ier : BOOLEAN, thre : BOOLEAN, busy : BOOLEAN]
      /\ uart'.ier = uart.ier /\ uart'.thre = uart.ier
  BY <1>2, <1>3
<1>5. Owed' = Owed /\ Granted' = Granted
  BY <1>2 DEF Owed, Granted
<1>6. Types'
  BY <1>1, <1>2, <1>4 DEF Types
<1>7. OutputOk'
  BY <1>1, <1>2, <1>4, <1>5 DEF OutputOk, DeviceOk
<1> QED BY <1>2, <1>5, <1>6, <1>7, ReadersUntouched

----------------------------------------------------------------------------
\* What the readers own, as Unread counts it.
LEMMA UnreadEntered ==
  ASSUME TtyInv
  PROVE  Unread = Entered /\ Entered \in Nat
<1>1. {p \in woken : task[p].op \in InputOps \union {"nextc"}} = Granted
  BY ProcFacts DEF TtyInv, Types, InputOk, Granted, ReadOps
<1>2. isem.count \in Int /\ Cardinality(Granted) \in Nat
  BY QueueFacts, WokenParts DEF TtyInv, InputOk
<1>3. Unread = avail + Cardinality(Granted)
  BY <1>1 DEF Unread
<1>4. avail \in Nat
  BY <1>2 DEF avail, semcount
<1> QED BY <1>2, <1>3, <1>4 DEF Entered

LEMMA SignalInputKeeps ==
  ASSUME TtyInv, UNCHANGED task, NEW n \in Nat, SignalInput(n)
  PROVE  /\ InputOk' /\ Owed' = Owed /\ Entered' = Entered + n
         /\ IsFiniteSet(woken') /\ woken' \subseteq Proc
<1> PICK A : A = Released(isem, n)
  OBVIOUS
<1>1. /\ SemOk(isem, Readers, Granted) /\ \A q \in Granted \union ToSet(isem.queue) : task[q].op \in ReadOps
      /\ Types
  BY DEF TtyInv, InputOk
<1>2. isem' = Signalled(isem, n) /\ woken' = woken \union A
  BY DEF SignalInput
<1>3. Signals(isem', A, isem, n)
  BY <1>1, <1>2, SignalledOk
<1>4. A \subseteq Readers /\ IsFiniteSet(A)
  BY <1>1, <1>3, QueueFacts DEF Signals
<1>5. Granted' = Granted \union A /\ Owed' = Owed
  BY <1>2, <1>4, ProcFacts DEF Granted, Owed
<1>6. Granted \subseteq Readers /\ IsFiniteSet(Granted)
  BY <1>1, WokenParts DEF Granted
<1>7. InputOk' /\ Entered' = Available(isem.count) + Cardinality(Granted) + n
  BY <1>1, <1>2, <1>5, <1>6, ReadersSignalled
<1>8. Available(isem.count) + Cardinality(Granted) = Entered
  BY DEF Available, Entered, avail, semcount
<1>9. IsFiniteSet(woken') /\ woken' \subseteq Proc
  BY <1>1, <1>2, <1>4, FS_Union, ProcFacts DEF Types
<1> QED BY <1>5, <1>7, <1>8, <1>9

\* What an arriving character does to the readers and to the device.
Heard(n) ==
  /\ InputOk' /\ Owed' = Owed /\ Entered' = Entered + n
  /\ IsFiniteSet(woken') /\ woken' \subseteq Proc

Answered ==
  /\ uart' \in [ier : BOOLEAN, thre : BOOLEAN, busy : BOOLEAN] /\ quiet' \in BOOLEAN /\ epend' \in Nat
  /\ oheld' \in BOOLEAN => DeviceOk'

LEMMA NobodySignalled ==
  ASSUME TtyInv, UNCHANGED task, NoSignal
  PROVE  Heard(0)
<1>1. Owed' = Owed /\ Granted' = Granted /\ isem' = isem
  BY DEF NoSignal, Owed, Granted
<1>2. InputOk' /\ Entered' = Entered
  BY <1>1, SameInput DEF TtyInv
<1>3. Entered \in Nat
  BY UnreadEntered
<1> QED BY <1>1, <1>2, <1>3 DEF Heard, NoSignal, TtyInv, Types

LEMMA KickAnswers ==
  ASSUME TtyInv, ttyKickOut, epend' \in Nat
  PROVE  Answered
<1>1. /\ uart' \in [ier : BOOLEAN, thre : BOOLEAN, busy : BOOLEAN] /\ quiet' \in BOOLEAN
      /\ uart'.ier /\ (uart'.thre \/ uart'.busy)
  BY Kick DEF TtyInv
<1>2. DeviceOk'
  BY <1>1 DEF DeviceOk
<1> QED BY <1>1, <1>2 DEF Answered

LEMMA EchoAnswers ==
  ASSUME TtyInv, NEW k \in Nat, Echo(k)
  PROVE  Answered
<1>1. (epend + k) % EBUFLEN \in Nat
  BY TtyFacts DEF TtyInv, Types
<1> QED BY <1>1, KickAnswers DEF Echo

LEMMA SilenceAnswers ==
  ASSUME TtyInv, UNCHANGED stored, NoEcho
  PROVE  Answered
<1>1. Types /\ DeviceOk
  BY DEF TtyInv, OutputOk
<1>2. UNCHANGED <<epend, uart>> /\ quiet' = (quiet \/ (oheld /\ ~oheld'))
  BY DEF NoEcho
<1>3. quiet' \in BOOLEAN
  BY <1>2
<1>4. ~uart'.ier => epend' = 0 /\ stored' <= 0
  BY <1>1, <1>2 DEF DeviceOk
<1>5. uart'.ier /\ ~oheld' /\ ~quiet' => uart'.thre \/ uart'.busy
  BY <1>1, <1>2 DEF DeviceOk
<1>6. DeviceOk'
  BY <1>4, <1>5 DEF DeviceOk
<1> QED BY <1>1, <1>2, <1>3, <1>6 DEF Answered, Types

LEMMA EchochAnswers ==
  ASSUME TtyInv, UNCHANGED stored, NEW c, echoch(c)
  PROVE  Answered
<1>1. EchoLength(c) \in Nat
  BY DEF EchoLength
<1> QED BY <1>1, EchoAnswers, SilenceAnswers DEF echoch

----------------------------------------------------------------------------
\* A character put into the ring, or a condition that is not handled.
LEMMA StoreStep ==
  ASSUME TtyInv, fault = "none", NEW c \in Keys, NEW wraps, NEW otherwise, Store(c, wraps, otherwise),
         UNCHANGED ihead,
         otherwise = "none" =>
           \/ Entered' = Entered /\ icursor' = icursor + 1
           \/ Entered' = Entered + 1 /\ icursor' = icursor
           \/ c = "nl" /\ Entered' = Entered + (icursor + 1) /\ icursor' = 0
  PROVE  RingStep
<1>1. itail \in 0 .. IBUFLEN /\ icursor \in Nat /\ IBUFLEN \in Nat /\ Entered \in Nat /\ Held = Entered + icursor
  BY UnreadEntered, TtyFacts DEF TtyInv, RingOk, Held
<1>2. CASE itail = IBUFLEN
  BY <1>2 DEF Store, RingStep, RingBreaks
<1>3. CASE itail # IBUFLEN /\ (Held >= IBUFLEN \/ otherwise # "none")
  <2>1. fault' # "none"
    BY <1>3 DEF Store
  <2> QED BY <2>1 DEF RingStep, RingBreaks
<1>4. CASE itail # IBUFLEN /\ ~(Held >= IBUFLEN) /\ otherwise = "none"
  <2>1. fault' = "none" /\ ibuf' = [ibuf EXCEPT ![itail] = c] /\ itail' \in {itail + 1, (itail + 1) % IBUFLEN}
    BY <1>4 DEF Store
  <2>2. Entered + icursor < IBUFLEN /\ itail < IBUFLEN
    BY <1>1, <1>4
  <2>3. RingStores(c)
    BY <1>4, <2>1, <2>2 DEF RingStores
  <2> QED BY <2>3 DEF RingStep
<1> QED BY <1>2, <1>3, <1>4

LEMMA InterStep ==
  ASSUME TtyInv, fault = "none", NEW c \in Keys, ttyInter_in(c), UNCHANGED <<stored, task>>
  PROVE  /\ oheld' \in BOOLEAN /\ Answered /\ (\E n \in Nat : Heard(n)) /\ RingStep
<1> DEFINE Done == /\ oheld' \in BOOLEAN /\ Answered /\ (\E n \in Nat : Heard(n)) /\ RingStep
<1>1. itail \in 0 .. IBUFLEN /\ icursor \in Nat /\ IBUFLEN \in Nat /\ oheld \in BOOLEAN
  BY TtyFacts DEF TtyInv, RingOk, Types
<1>2. Entered \in Nat
  BY UnreadEntered
<1>3. NoSignal => Heard(0) /\ Entered' = Entered /\ \E n \in Nat : Heard(n)
  <2>1. NoSignal => Heard(0)
    BY NobodySignalled
  <2> QED BY <1>2, <2>1 DEF Heard
<1>4. \A n \in Nat : SignalInput(n) => Heard(n) /\ Entered' = Entered + n
  BY SignalInputKeeps DEF Heard
<1>5. ASSUME UNCHANGED <<ibuf, ihead, itail, icursor, fault>>, NoSignal PROVE RingStep
  BY <1>3, <1>5 DEF RingStep, RingStays
<1>6. CASE Raw(c)
  <2>1. UNCHANGED <<ihead, icursor, oheld>> /\ NoEcho
    BY <1>6 DEF Raw
  <2>2. Answered
    BY <2>1, SilenceAnswers
  <2>3. CASE avail >= IBUFLEN
    BY <1>1, <1>3, <1>5, <1>6, <2>1, <2>2, <2>3 DEF Raw
  <2>4. CASE ~(avail >= IBUFLEN)
    <3>1. Store(c, FALSE, "none") /\ SignalInput(1)
      BY <1>6, <2>4 DEF Raw
    <3>2. Heard(1) /\ Entered' = Entered + 1
      BY <1>4, <3>1
    <3>3. RingStep
      BY <2>1, <3>1, <3>2, StoreStep
    <3> QED BY <1>1, <2>1, <2>2, <3>2, <3>3
  <2> QED BY <2>3, <2>4
<1>7. CASE Start(c)
  <2>1. epend' \in Nat
    BY <1>7 DEF Start, TtyInv, Types
  <2>2. Answered
    BY <1>7, <2>1, KickAnswers DEF Start
  <2> QED BY <1>3, <1>5, <1>7, <2>2 DEF Start
<1>8. CASE Stop(c)
  <2>1. Answered
    BY <1>8, SilenceAnswers DEF Stop
  <2> QED BY <1>3, <1>5, <1>8, <2>1 DEF Stop
<1>9. Resumes(c) => oheld' \in BOOLEAN
  BY DEF Resumes
<1>10. CASE Cbreak(c)
  <2>1. CASE avail >= IBUFLEN
    <3>1. Answered
      BY <1>10, <2>1, EchoAnswers DEF Cbreak
    <3> QED BY <1>3, <1>5, <1>9, <1>10, <2>1, <3>1 DEF Cbreak
  <2>2. CASE ~(avail >= IBUFLEN)
    <3>1. Answered
      BY <1>10, <2>2, EchochAnswers DEF Cbreak
    <3>2. RingStep
      BY <1>10, <2>2, StoreStep DEF Cbreak
    <3> QED BY <1>3, <1>9, <1>10, <3>1, <3>2 DEF Cbreak
  <2> QED BY <2>1, <2>2
<1>11. CASE KillLine(c)
  <2>1. Answered
    BY <1>11, EchoAnswers DEF KillLine
  <2>2. CASE itail < icursor
    BY <1>3, <1>9, <1>11, <2>1, <2>2 DEF KillLine, RingStep, RingBreaks
  <2>3. CASE ~(itail < icursor)
    <3>1. icursor <= itail
      BY <1>1, <2>3
    <3>2. RingKills
      BY <1>3, <1>11, <2>3, <3>1 DEF KillLine, RingKills
    <3> QED BY <1>3, <1>9, <1>11, <2>1, <3>2 DEF KillLine, RingStep
  <2> QED BY <2>2, <2>3
<1>12. CASE Erase(c)
  <2>1. CASE icursor = 0
    <3>1. Answered
      BY <1>12, <2>1, SilenceAnswers DEF Erase
    <3> QED BY <1>3, <1>5, <1>9, <1>12, <2>1, <3>1 DEF Erase
  <2>2. CASE icursor # 0
    <3>1. /\ itail' = (itail - 1) % IBUFLEN /\ icursor' = icursor - 1
          /\ ibuf' = [ibuf EXCEPT ![(itail - 1) % IBUFLEN] = Free]
          /\ (\E k \in Nat : Echo(k)) \/ NoEcho
      BY <1>12, <2>2 DEF Erase
    <3>2. Answered
      BY <3>1, EchoAnswers, SilenceAnswers
    <3>3. icursor > 0
      BY <1>1, <2>2
    <3>4. RingErases
      BY <1>3, <1>12, <3>1, <3>3 DEF Erase, RingErases
    <3> QED BY <1>3, <1>9, <1>12, <3>2, <3>4 DEF Erase, RingStep
  <2> QED BY <2>1, <2>2
<1>13. CASE Newline(c)
  <2>1. Answered
    BY <1>13, EchochAnswers DEF Newline
  <2>2. icursor + 1 \in Nat /\ SignalInput(icursor + 1)
    BY <1>1, <1>13 DEF Newline
  <2>3. Heard(icursor + 1) /\ Entered' = Entered + (icursor + 1)
    BY <1>4, <2>2
  <2>4. RingStep
    BY <1>13, <2>3, StoreStep DEF Newline
  <2> QED BY <1>9, <1>13, <2>1, <2>2, <2>3, <2>4 DEF Newline
<1>14. CASE Bell(c)
  <2>1. Answered
    BY <1>14, EchoAnswers DEF Bell
  <2> QED BY <1>3, <1>5, <1>9, <1>14, <2>1 DEF Bell
<1>15. CASE EndOfFile(c)
  <2>1. Answered
    BY <1>15, EchochAnswers DEF EndOfFile
  <2>2. CASE icursor # 0
    BY <1>3, <1>5, <1>9, <1>15, <2>1, <2>2 DEF EndOfFile
  <2>3. CASE icursor = 0
    <3>1. Store(c, FALSE, "none") /\ SignalInput(1) /\ UNCHANGED <<ihead, icursor>>
      BY <1>15, <2>3 DEF EndOfFile
    <3>2. Heard(1) /\ Entered' = Entered + 1
      BY <1>4, <3>1
    <3>3. RingStep
      BY <3>1, <3>2, StoreStep
    <3> QED BY <1>9, <1>15, <2>1, <3>2, <3>3 DEF EndOfFile
  <2> QED BY <2>2, <2>3
<1>16. CASE Ordinary(c)
  <2>1. Answered
    BY <1>16, EchochAnswers DEF Ordinary
  <2>2. RingStep
    BY <1>3, <1>16, StoreStep DEF Ordinary
  <2> QED BY <1>3, <1>9, <1>16, <2>1, <2>2 DEF Ordinary
<1> QED BY <1>6, <1>7, <1>8, <1>10, <1>11, <1>12, <1>13, <1>14, <1>15, <1>16 DEF ttyInter_in

LEMMA ArriveKeeps ==
  ASSUME TtyInv, NEW c \in Keys, Arrive(c)
  PROVE  Types' /\ OutputOk' /\ InputOk' /\ RingStep /\ Owed' = Owed
<1>1. fault = "none" /\ ttyInter_in(c) /\ UNCHANGED <<osem, stored, task>>
  BY DEF Arrive
<1>2. Types /\ OutputOk
  BY DEF TtyInv
<1>3. oheld' \in BOOLEAN /\ Answered /\ RingStep
  BY <1>1, InterStep
<1>4. PICK n \in Nat : Heard(n)
  BY <1>1, InterStep
<1>5. Types'
  BY <1>1, <1>2, <1>3, <1>4 DEF Types, Answered, Heard
<1>6. OutputOk'
  BY <1>1, <1>2, <1>3, <1>4 DEF OutputOk, Answered, Heard
<1> QED BY <1>3, <1>4, <1>5, <1>6 DEF Heard

----------------------------------------------------------------------------
\* The remainder is the one number in range that differs by a multiple.
LEMMA OneRemainder ==
  ASSUME NEW m \in Nat, m > 0, NEW q \in Int, NEW r \in 0 .. m - 1
  PROVE  (q * m + r) % m = r
<1> DEFINE x == q * m + r
<1>1. x \in Int
  OBVIOUS
<1>2. x % m \in 0 .. m - 1 /\ x = m * (x \div m) + (x % m) /\ x \div m \in Int
  BY <1>1
<1> DEFINE d == x \div m
<1> DEFINE s == x % m
<1>3. d \in Int /\ s \in 0 .. m - 1 /\ q * m + r = m * d + s
  BY <1>2
<1> HIDE DEF d, s
<1>4. (q - d) * m = s - r
  BY <1>3
<1>5. q - d >= 1 => (q - d) * m >= m
  BY <1>3
<1>6. q - d <= -1 => (q - d) * m <= -m
  BY <1>3
<1>7. q = d
  BY <1>3, <1>4, <1>5, <1>6
<1> QED BY <1>3, <1>7 DEF s, d

\* A term may be reduced modulo m before the sum is or not.
LEMMA ModularSum ==
  ASSUME NEW m \in Nat, m > 0, NEW x \in Int, NEW y \in Int
  PROVE  ((x % m) + y) % m = (x + y) % m
<1> DEFINE d == x \div m
<1>1. x % m \in 0 .. m - 1 /\ x = m * d + (x % m) /\ d \in Int
  OBVIOUS
<1> DEFINE z == (x % m) + y
<1> DEFINE e == z \div m
<1>2. z \in Int /\ z % m \in 0 .. m - 1 /\ z = m * e + (z % m) /\ e \in Int
  BY <1>1
<1> DEFINE r == z % m
<1> HIDE DEF d, e, r
<1>3. d + e \in Int /\ r \in 0 .. m - 1 /\ m * d + m * e = (d + e) * m
  BY <1>1, <1>2 DEF r
<1>4. x + y = (d + e) * m + r
  BY <1>1, <1>2, <1>3 DEF r
<1>5. (x + y) % m = r
  BY <1>3, <1>4, OneRemainder
<1> QED BY <1>5 DEF r

\* Equal remainders stay equal when the same is added.
LEMMA SameShift ==
  ASSUME NEW m \in Nat, m > 0, NEW x \in Int, NEW y \in Int, x % m = y % m, NEW k \in Int
  PROVE  (x + k) % m = (y + k) % m
<1>1. ((x % m) + k) % m = (x + k) % m
  BY ModularSum
<1>2. ((y % m) + k) % m = (y + k) % m
  BY ModularSum
<1> QED BY <1>1, <1>2

LEMMA Reduced ==
  ASSUME NEW m \in Nat, m > 0, NEW x \in 0 .. m - 1
  PROVE  x % m = x
<1>1. (0 * m + x) % m = x
  BY OneRemainder
<1> QED BY <1>1

LEMMA RemainderFacts ==
  ASSUME NEW m \in Nat, m > 0, NEW x \in Int, NEW r, r = x % m
  PROVE  r \in 0 .. m - 1 /\ r % m = r
<1>1. r \in 0 .. m - 1
  OBVIOUS
<1> QED BY ONLY m \in Nat, m > 0, <1>1, Reduced

\* Numbers less than m apart have different remainders.
LEMMA DifferentPlaces ==
  ASSUME NEW m \in Nat, m > 0, NEW x \in Int, NEW y \in Int, x < y, y - x < m
  PROVE  x % m # y % m
<1> DEFINE d == x \div m
<1> DEFINE e == y \div m
<1>1. x = m * d + (x % m) /\ y = m * e + (y % m) /\ d \in Int /\ e \in Int /\ x % m \in Int /\ y % m \in Int
  OBVIOUS
<1> PICK r, s : r = x % m /\ s = y % m
  OBVIOUS
<1> HIDE DEF d, e
<1>2. ASSUME r = s PROVE FALSE
  <2>1. m * (e - d) = y - x
    BY <1>1, <1>2
  <2>2. e - d >= 1 => m * (e - d) >= m
    BY <1>1
  <2>3. e - d <= 0 => m * (e - d) <= 0
    BY <1>1
  <2> QED BY <1>1, <2>1, <2>2, <2>3
<1> QED BY <1>2

----------------------------------------------------------------------------
\* The ring as the plain numbers that the steps change.
LEMMA RingFacts ==
  ASSUME TtyInv, fault = "none"
  PROVE  /\ IBUFLEN \in Nat /\ IBUFLEN > 1 /\ Entered \in Nat
         /\ ihead \in 0 .. IBUFLEN - 1 /\ itail \in 0 .. IBUFLEN /\ icursor \in Nat
         /\ Entered + icursor <= IBUFLEN
         /\ (ihead + (Entered + icursor)) % IBUFLEN = itail % IBUFLEN
         /\ DOMAIN ibuf = 0 .. IBUFLEN - 1 /\ ibuf \in [0 .. IBUFLEN - 1 -> Keys \union {Free}]
BY UnreadEntered, TtyFacts DEF TtyInv, RingOk

LEMMA RingKept ==
  ASSUME TtyInv, RingStep
  PROVE  RingOk'
<1>1. CASE fault # "none" \/ fault' # "none"
  <2>1. CASE fault' # "none"
    BY <2>1 DEF RingOk
  <2>2. CASE fault # "none" /\ fault' = "none"
    BY <2>2 DEF RingStep, RingStays, RingTakes, RingStores, RingErases, RingKills, RingBreaks
  <2> QED BY <1>1, <2>1, <2>2
<1>2. CASE fault = "none" /\ fault' = "none"
  <2> PICK N : N = IBUFLEN
    OBVIOUS
  <2> PICK E : E = Entered
    OBVIOUS
  <2>1. /\ N \in Nat /\ N > 1 /\ E \in Nat /\ ihead \in 0 .. N - 1 /\ itail \in 0 .. N /\ icursor \in Nat
        /\ E + icursor <= N /\ (ihead + (E + icursor)) % N = itail % N
        /\ ibuf \in [0 .. N - 1 -> Keys \union {Free}]
    BY <1>2, RingFacts
  <2> PICK H : H = ihead + (E + icursor)
    OBVIOUS
  <2>h. H \in Int /\ itail \in Int /\ ihead \in Int /\ H % N = itail % N /\ N > 0
    BY <2>1
  <2>2. N \in Nat /\ N > 0
    BY <2>1, <2>h
  <2>3. ASSUME NEW k \in Int PROVE (H + k) % N = (itail + k) % N
    <3> PICK t : t = itail
      OBVIOUS
    <3>1. t \in Int /\ H \in Int /\ H % N = t % N
      BY <2>h
    <3>2. (H + k) % N = (t + k) % N
      BY ONLY <2>2, <3>1, k \in Int, SameShift
    <3> QED BY <3>2
  <2>4. ASSUME NEW t \in 0 .. N, NEW F, NEW c, ihead' = ihead, itail' = t, Entered' = F, icursor' = c,
               F \in Int, c \in Nat, F + c <= N, (ihead + (F + c)) % N = t % N,
               ibuf' \in [0 .. N - 1 -> Keys \union {Free}]
        PROVE  RingOk'
    BY <2>1, <2>4 DEF RingOk
  <2>5. CASE RingStays
    BY <2>1, <2>5 DEF RingOk, RingStays
  <2>6. CASE RingTakes
    <3>1. ihead' = (ihead + 1) % N /\ ihead' \in 0 .. N - 1
      <4>1. ihead + 1 \in Int /\ ihead' = (ihead + 1) % N
        BY <2>h, <2>6 DEF RingTakes
      <4> QED BY <2>2, <4>1, RemainderFacts
    <3>2. ibuf' \in [0 .. N - 1 -> Keys \union {Free}]
      BY <2>1, <2>6 DEF RingTakes
    <3>3. (((ihead + 1) % N) + (E - 1 + icursor)) % N = ((ihead + 1) + (E - 1 + icursor)) % N
      <4>1. ihead + 1 \in Int /\ E - 1 + icursor \in Int
        BY <2>1
      <4> QED BY ONLY <2>1, <2>h, <4>1, ModularSum
    <3>4. (ihead + 1) + (E - 1 + icursor) = H
      BY <2>1
    <3>5. (ihead' + (Entered' + icursor')) % N = itail' % N
      BY <2>h, <2>6, <3>1, <3>3, <3>4 DEF RingTakes
    <3>6. Entered' = E - 1 /\ icursor' = icursor /\ itail' = itail /\ E - 1 + icursor <= N
      BY <2>1, <2>6 DEF RingTakes
    <3> QED BY <2>1, <3>1, <3>2, <3>5, <3>6 DEF RingOk
  <2>7. CASE \E c \in Keys : RingStores(c)
    <3> PICK c \in Keys : RingStores(c)
      BY <2>7
    <3>1. /\ E + icursor < N /\ itail < N /\ itail' \in {itail + 1, (itail + 1) % N} /\ ihead' = ihead
          /\ ibuf' = [ibuf EXCEPT ![itail] = c]
          /\ \/ Entered' = E /\ icursor' = icursor + 1
             \/ Entered' = E + 1 /\ icursor' = icursor
             \/ Entered' = E + (icursor + 1) /\ icursor' = 0
      BY DEF RingStores
    <3>2. ibuf' \in [0 .. N - 1 -> Keys \union {Free}]
      BY <2>1, <3>1
    <3>3. itail' \in 0 .. N /\ itail' % N = (itail + 1) % N
      <4>1. itail + 1 \in 0 .. N
        BY <2>1, <3>1
      <4> PICK r : r = (itail + 1) % N
        OBVIOUS
      <4>2. r \in 0 .. N - 1 /\ r % N = r
        BY <2>2, <4>1, RemainderFacts
      <4>3. itail' \in {itail + 1, r} /\ r \in 0 .. N
        BY <2>1, <3>1, <4>2
      <4>4. CASE itail' = itail + 1
        BY <4>1, <4>4
      <4>5. CASE itail' = r
        BY <4>2, <4>3, <4>5
      <4> QED BY <4>3, <4>4, <4>5
    <3>4. ihead + (Entered' + icursor') = H + 1 /\ Entered' \in Int /\ icursor' \in Nat /\ Entered' + icursor' <= N
      BY <2>1, <3>1
    <3>5. (ihead + (Entered' + icursor')) % N = itail' % N
      BY <2>3, <3>3, <3>4
    <3> QED BY <2>4, <3>1, <3>2, <3>3, <3>4, <3>5
  <2>8. CASE RingErases
    <3>1. /\ icursor > 0 /\ icursor' = icursor - 1 /\ itail' = (itail - 1) % N /\ ihead' = ihead /\ Entered' = E
          /\ ibuf' = [ibuf EXCEPT ![(itail - 1) % N] = Free]
      BY <2>8 DEF RingErases
    <3>2. ibuf' \in [0 .. N - 1 -> Keys \union {Free}]
      BY <2>1, <3>1
    <3>3. itail' \in 0 .. N /\ itail' % N = (itail - 1) % N
      <4> PICK r : r = (itail - 1) % N
        OBVIOUS
      <4>1. itail - 1 \in Int
        BY <2>h
      <4>2. r \in 0 .. N - 1 /\ r % N = r
        BY <2>2, <4>1, RemainderFacts
      <4>3. r \in 0 .. N
        BY <2>1, <4>2
      <4> QED BY <3>1, <4>2, <4>3
    <3>4. ihead + (Entered' + icursor') = H + -1 /\ icursor' \in Nat /\ Entered' + icursor' <= N
      BY <2>1, <3>1
    <3>5. (H + -1) % N = (itail + -1) % N /\ itail + -1 = itail - 1
      <4>1. -1 \in Int /\ itail + -1 = itail - 1
        BY <2>h
      <4> QED BY <2>3, <4>1
    <3>6. (ihead + (Entered' + icursor')) % N = itail' % N
      BY <3>3, <3>4, <3>5
    <3>7. E \in Int /\ Entered' = E /\ icursor' \in Nat
      BY <2>1, <3>1
    <3> QED BY <2>4, <3>1, <3>2, <3>3, <3>4, <3>6, <3>7
  <2>9. CASE RingKills
    <3>1. /\ icursor <= itail /\ icursor' = 0 /\ itail' = itail - icursor /\ ihead' = ihead /\ Entered' = E
          /\ ibuf' = [i \in DOMAIN ibuf |-> IF i \in itail - icursor .. itail - 1 THEN Free ELSE ibuf[i]]
      BY <2>9 DEF RingKills
    <3>2. ibuf' \in [0 .. N - 1 -> Keys \union {Free}]
      BY <2>1, <3>1
    <3>3. itail' \in 0 .. N
      BY <2>1, <3>1
    <3>4. ihead + (Entered' + icursor') = H + -icursor /\ Entered' + icursor' <= N
      BY <2>1, <3>1
    <3>5. (H + -icursor) % N = (itail + -icursor) % N /\ itail + -icursor = itail'
      <4>1. -icursor \in Int /\ itail + -icursor = itail'
        BY <2>1, <3>1
      <4> QED BY <2>3, <4>1
    <3>6. (ihead + (Entered' + icursor')) % N = itail' % N
      BY <3>4, <3>5
    <3>7. E \in Int /\ Entered' = E /\ icursor' \in Nat
      BY <2>1, <3>1
    <3> QED BY <2>4, <3>1, <3>2, <3>3, <3>4, <3>6, <3>7
  <2> QED BY <1>2, <2>5, <2>6, <2>7, <2>8, <2>9 DEF RingStep, RingBreaks
<1> QED BY <1>1, <1>2

----------------------------------------------------------------------------
LEMMA CallsKeep ==
  ASSUME TtyInv, (\E p \in Readers : ReaderCall(p)) \/ (\E p \in Writers : WriterCall(p))
  PROVE  Types' /\ OutputOk' /\ InputOk' /\ RingStep
<1> DEFINE Done == Types' /\ OutputOk' /\ InputOk' /\ RingStep
<1>1. isem.count \in Int /\ Lengths \subseteq Nat
  BY QueueFacts, TtyFacts DEF TtyInv, InputOk
<1>2. ASSUME NEW p \in Readers, NEW op \in ReadOps, NEW n \in Int, Begin(p, op, n) PROVE Done
  BY <1>2, BeginKeeps, ProcFacts
<1>3. ASSUME NEW p \in Writers, NEW op \in OutputOps, NEW n \in Int, Begin(p, op, n) PROVE Done
  BY <1>3, BeginKeeps, ProcFacts
<1>4. ASSUME NEW p \in Readers, ReaderCall(p) PROVE Done
  <2>0. {"getc", "nextc", "line", "raw", "fgets"} \subseteq ReadOps
    BY DEF ReadOps, InputOps
  <2>1. CASE CallGetc(p)
    BY <1>2, <2>0, <2>1 DEF CallGetc
  <2>2. CASE CallNextc(p)
    BY <1>2, <2>0, <2>2 DEF CallNextc
  <2>3. ASSUME NEW n \in Lengths, CallRead(p, n) PROVE Done
    <3>1. CASE Begin(p, "line", n)
      BY <1>1, <1>2, <2>0, <3>1
    <3>2. ASSUME NEW k, k = (IF n = 0 THEN semcount(isem) ELSE n), Begin(p, "raw", k) PROVE Done
      <4>1. k \in Int
        BY <1>1, <3>2 DEF semcount
      <4> QED BY <1>2, <2>0, <3>2, <4>1
    <3> QED BY <2>3, <3>1, <3>2 DEF CallRead
  <2>4. ASSUME NEW n \in Lengths, CallFgets(p, n) PROVE Done
    <3>1. n - 1 \in Int
      BY <1>1
    <3> QED BY <1>2, <2>0, <2>4, <3>1 DEF CallFgets
  <2>5. ASSUME NEW m, SetMode(p, m) PROVE Done
    BY <2>5, ModesKeep DEF SetMode
  <2>6. ASSUME NEW on, SetEcho(p, on) PROVE Done
    BY <2>6, ModesKeep DEF SetEcho
  <2> QED BY <1>4, <2>1, <2>2, <2>3, <2>4, <2>5, <2>6 DEF ReaderCall
<1>5. ASSUME NEW p \in Writers, NEW n \in Lengths, CallWrite(p, n) \/ CallFputs(p, n) PROVE Done
  <2>1. {"write", "fputs"} \subseteq OutputOps /\ n \in Int
    BY <1>1 DEF OutputOps
  <2>2. CASE CallWrite(p, n)
    BY <1>3, <2>1, <2>2 DEF CallWrite
  <2>3. CASE CallFputs(p, n)
    BY <1>3, <2>1, <2>3 DEF CallFputs
  <2> QED BY <1>5, <2>2, <2>3
<1> QED BY <1>4, <1>5 DEF WriterCall

----------------------------------------------------------------------------
\* resched takes a process that waits on neither semaphore, or the null process.
LEMMA Rescheduled ==
  ASSUME \/ Resched
         \/ \E p \in Proc : p \in NextOf(Awake(isem', osem'), current) /\ current' = p
  PROVE  RunsOk'
<1> PICK S : S = Awake(isem', osem')
  OBVIOUS
<1>1. current' \in NextOf(S, current)
  BY DEF Resched
<1>2. current' \in S \/ current' = NoProc
  BY <1>1 DEF NextOf, Highest
<1>3. NoProc \notin Proc
  BY TtyAssumption DEF NoProc, Proc
<1> QED BY <1>2, <1>3 DEF RunsOk, Awake

\* The current process goes on, and nobody has joined a queue.
LEMMA GoesOn ==
  ASSUME RunsOk, UNCHANGED current,
         ToSet(isem'.queue) \subseteq ToSet(isem.queue), ToSet(osem'.queue) \subseteq ToSet(osem.queue)
  PROVE  RunsOk'
BY DEF RunsOk

LEMMA Leaves ==
  ASSUME NEW P, NEW R, NEW sem, SemOk(sem, P, R), NEW n \in Nat
  PROVE  ToSet(Signalled(sem, n).queue) \subseteq ToSet(sem.queue)
BY SignalledOk DEF Signals

LEMMA CallRuns ==
  ASSUME TtyInv, NEW p \in Proc, Goes(p)
  PROVE  RunsOk'
<1>1. RunsOk /\ SemOk(isem, Readers, Granted) /\ SemOk(osem, Writers, Owed)
  BY DEF TtyInv, InputOk, OutputOk
<1>2. ASSUME UNCHANGED <<isem, osem, current>> PROVE RunsOk'
  BY <1>1, <1>2 DEF RunsOk
<1>3. CASE Sleep
  BY <1>3, Rescheduled DEF Sleep
<1>4. CASE ttyGetc(p)
  <2>1. isem.count > 0 => Waited(isem, p).queue = isem.queue
    BY DEF Waited
  <2>2. CASE isem' = Waited(isem, p) /\ isem.count > 0 /\ UNCHANGED <<osem, current>>
    BY <1>1, <2>1, <2>2, GoesOn
  <2> QED BY <1>2, <1>3, <1>4, <2>2 DEF ttyGetc
<1>5. CASE ttyPutc(p)
  <2>1. osem.count > 0 => Waited(osem, p).queue = osem.queue
    BY DEF Waited
  <2>2. CASE osem' = Waited(osem, p) /\ osem.count > 0 /\ UNCHANGED <<isem, current>>
    BY <1>1, <2>1, <2>2, GoesOn
  <2> QED BY <1>2, <1>3, <1>5, <2>2 DEF ttyPutc
<1>6. CASE Nextc(p)
  <2> PICK s : s = IF p \in woken THEN isem ELSE Waited(isem, p)
    OBVIOUS
  <2>1. CASE /\ p \in woken \/ isem.count > 0
             /\ isem' = Signalled(s, 1) /\ UNCHANGED <<osem, current>>
    <3>1. s.queue = isem.queue
      BY <2>1 DEF Waited
    <3>2. Signalled(s, 1).queue = Signalled(isem, 1).queue
      BY <3>1 DEF Signalled
    <3>3. ToSet(isem'.queue) \subseteq ToSet(isem.queue)
      BY <1>1, <2>1, <3>2, Leaves
    <3> QED BY <1>1, <2>1, <3>3, GoesOn
  <2>2. CASE Resched
    BY <2>2, Rescheduled
  <2> QED BY <1>3, <1>6, <2>1, <2>2 DEF Nextc
<1> QED BY <1>4, <1>5, <1>6 DEF Goes

\* The semaphore of the readers after a character has arrived.
LEMMA ArrivesAt ==
  ASSUME TtyInv, fault = "none", NEW c, ttyInter_in(c)
  PROVE  ToSet(isem'.queue) \subseteq ToSet(isem.queue)
<1>1. icursor \in Nat /\ SemOk(isem, Readers, Granted)
  BY DEF TtyInv, RingOk, InputOk
<1>2. icursor + 1 \in Nat
  BY <1>1
<1>3. NoSignal \/ SignalInput(1) \/ SignalInput(icursor + 1)
  BY DEF ttyInter_in, Raw, Start, Stop, Cbreak, KillLine, Erase, Newline, Bell, EndOfFile, Ordinary
<1>4. CASE NoSignal
  BY <1>4 DEF NoSignal
<1>5. ASSUME NEW n \in Nat, SignalInput(n) PROVE ToSet(isem'.queue) \subseteq ToSet(isem.queue)
  BY <1>1, <1>5, Leaves DEF SignalInput
<1> QED BY <1>2, <1>3, <1>4, <1>5

LEMMA RunsKept ==
  ASSUME TtyInv, [Next]_vars
  PROVE  RunsOk'
<1>1. RunsOk /\ SemOk(osem, Writers, Owed)
  BY DEF TtyInv, OutputOk
<1>2. ASSUME UNCHANGED <<isem, osem, current>> PROVE RunsOk'
  BY <1>1, <1>2 DEF RunsOk
<1>3. ASSUME NEW p \in Proc, Goes(p) PROVE RunsOk'
  BY <1>3, CallRuns
<1>4. ASSUME NEW p \in Proc, Preempt(p) PROVE RunsOk'
  <2>1. p \in NextOf(Awake(isem', osem'), current) /\ current' = p
    BY <1>4 DEF Preempt
  <2> QED BY <2>1, Rescheduled
<1>5. ASSUME NEW c \in Keys, Arrive(c) PROVE RunsOk'
  <2>1. ToSet(isem'.queue) \subseteq ToSet(isem.queue) /\ UNCHANGED osem
    BY <1>5, ArrivesAt DEF Arrive
  <2>2. Resched \/ UNCHANGED current
    BY <1>5 DEF Arrive
  <2> QED BY <1>1, <2>1, <2>2, Rescheduled, GoesOn
<1>6. CASE OutInterrupt
  <2>1. CASE NothingSent
    BY <1>2, <1>6, <2>1 DEF NothingSent, OutInterrupt
  <2>2. CASE Resched
    BY <2>2, Rescheduled
  <2>3. ASSUME NEW o \in Nat, osem' = Signalled(osem, o), UNCHANGED <<isem, current>> PROVE RunsOk'
    BY <1>1, <2>3, Leaves, GoesOn
  <2>4. CASE Send
    <3> PICK e : e = LeastOf(FIFO, epend)
      OBVIOUS
    <3> PICK o : o = Sendable(FIFO - e)
      OBVIOUS
    <3>1. SendAnd(e, o, o)
      BY <2>4 DEF Send
    <3>2. o \in Nat
      BY SendIsNat
    <3> QED BY <1>6, <2>2, <2>3, <3>1, <3>2 DEF SendAnd, OutInterrupt
  <2> QED BY <1>6, <2>1, <2>4 DEF OutInterrupt, ttyInter_out
<1>7. CASE UartDrain \/ UNCHANGED vars
  BY <1>2, <1>7 DEF UartDrain, vars, svars
<1>8. ASSUME NEW p, NEW op, NEW n, Begin(p, op, n) PROVE UNCHANGED <<isem, osem, current>>
  BY <1>8 DEF Begin, svars
<1>9. ASSUME NEW p, ReaderCall(p) \/ WriterCall(p) PROVE UNCHANGED <<isem, osem, current>>
  BY <1>8, <1>9 DEF ReaderCall, WriterCall, CallGetc, CallNextc, CallRead, CallFgets, SetMode, SetEcho,
     CallWrite, CallFputs, svars
<1> QED BY <1>2, <1>3, <1>4, <1>5, <1>6, <1>7, <1>9 DEF Next

LEMMA StepKeeps ==
  ASSUME TtyInv, [Next]_vars
  PROVE  TtyInv' /\ RingStep
<1> DEFINE Done == Types' /\ OutputOk' /\ InputOk' /\ RingStep
<1> SUFFICES Done
  BY RingKept, RunsKept DEF TtyInv
<1>1. ASSUME NEW p \in Proc, Goes(p) PROVE Done
  BY <1>1, GetcKeeps, PutcKeeps, NextcKeeps DEF Goes
<1>2. ASSUME NEW c \in Keys, Arrive(c) PROVE Done
  BY <1>2, ArriveKeeps
<1>3. CASE OutInterrupt
  BY <1>3, OutKeeps
<1>4. CASE UartDrain
  BY <1>4, DrainKeeps
<1>5. CASE UNCHANGED vars
  BY <1>5, ModesKeep DEF vars, ivars
<1>6. CASE (\E p \in Readers : ReaderCall(p)) \/ (\E p \in Writers : WriterCall(p))
  BY <1>6, CallsKeep
<1>7. ASSUME NEW p \in Proc, Preempt(p) PROVE Done
  BY <1>7, ModesKeep DEF Preempt, ivars
<1> QED BY <1>1, <1>2, <1>3, <1>4, <1>5, <1>6, <1>7 DEF Next

LEMMA InitTtyInv ==
  ASSUME Init
  PROVE  TtyInv
<1>1. /\ OBUFLEN \in Nat /\ IBUFLEN \in Nat /\ IBUFLEN > 1
  BY TtyFacts
<1>2. Owed = {} /\ Granted = {}
  BY DEF Init, Owed, Granted
<1>3. Cardinality({}) = 0 /\ IsFiniteSet({})
  BY FS_EmptySet
<1>4. Types
  <2>1. Idle \in Calls /\ Idle.op = "none"
    BY DEF Idle, Calls
  <2>2. task \in [Proc -> Calls] /\ \A p \in Proc : task[p].op = "none"
    BY <2>1 DEF Init
  <2>3. "none" \notin ReadOps /\ "none" \notin OutputOps
    BY DEF ReadOps, InputOps, OutputOps
  <2>4. uart \in [ier : BOOLEAN, thre : BOOLEAN, busy : BOOLEAN]
    BY DEF Init
  <2>5. oheld \in BOOLEAN /\ quiet \in BOOLEAN
    BY DEF Init
  <2>6. stored \in Int /\ epend \in Nat /\ woken \subseteq Proc /\ IsFiniteSet(woken)
    BY <1>3 DEF Init
  <2>7. \A p \in Proc : task[p].op \notin ReadOps /\ task[p].op \notin OutputOps
    BY <2>2, <2>3
  <2> QED BY <2>2, <2>4, <2>5, <2>6, <2>7, ProcFacts DEF Types
<1>5. ASSUME NEW n \in Nat, NEW P, NEW sem, sem = [count |-> n, queue |-> <<>>]
      PROVE  SemOk(sem, P, {}) /\ ToSet(sem.queue) = {} /\ Len(sem.queue) = 0
  <2>1. sem.count = n /\ sem.queue = <<>> /\ sem \in [count : Int, queue : Seq(P)]
    BY <1>5
  <2>2. ~(n < 0)
    OBVIOUS
  <2> QED BY <2>1, <2>2 DEF SemOk, OnceEach, ToSet
<1>6. OutputOk
  <2>1. SemOk(osem, Writers, {}) /\ Len(osem.queue) = 0 /\ osem.count = OBUFLEN
    BY <1>1, <1>5 DEF Init
  <2>2. stored = 0 /\ uart.ier = TRUE /\ uart.thre = TRUE
    BY DEF Init
  <2>3. osem.count = OBUFLEN - stored - Cardinality(Owed) - Len(osem.queue)
    BY <1>1, <1>2, <1>3, <2>1, <2>2
  <2> QED BY <1>2, <2>1, <2>2, <2>3 DEF OutputOk, DeviceOk
<1>7. InputOk /\ isem.count = 0
  <2>1. SemOk(isem, Readers, {}) /\ ToSet(isem.queue) = {} /\ isem.count = 0
    BY <1>5 DEF Init
  <2> QED BY <1>2, <2>1 DEF InputOk
<1>8. Entered = 0
  BY <1>2, <1>3, <1>7 DEF Entered, avail, semcount
<1>9. RingOk
  <2>1. ihead = 0 /\ itail = 0 /\ icursor = 0 /\ ibuf = [i \in 0 .. IBUFLEN - 1 |-> Free]
    BY DEF Init
  <2>2. ihead + (Entered + icursor) = itail
    BY <1>8, <2>1
  <2> QED BY <1>1, <1>8, <2>1, <2>2 DEF RingOk
<1>10. RunsOk
  BY DEF Init, RunsOk, ToSet
<1> QED BY <1>4, <1>6, <1>7, <1>9, <1>10 DEF TtyInv

LEMMA AlwaysTtyInv == Spec => []TtyInv
<1>1. TtyInv /\ [Next]_vars => TtyInv'
  BY StepKeeps
<1> QED BY InitTtyInv, <1>1, PTL DEF Spec

\* While output is not held, characters that are left are on their way: every change of
\* the four conditions that could strand them kicks the device or says so in quiet.
THEOREM OutputDoesNotStall == Spec => []NoStall
<1>1. ASSUME TtyInv PROVE NoStall
  <2>1. DeviceOk /\ stored \in Int
    BY <1>1 DEF TtyInv, OutputOk, Types
  <2>2. stored > 0 => ~(stored <= 0)
    BY <2>1
  <2>3. epend > 0 => ~(epend = 0)
    OBVIOUS
  <2> QED BY <2>1, <2>2, <2>3 DEF DeviceOk, NoStall
<1> QED BY <1>1, AlwaysTtyInv, PTL

\* What bounds the places that are sent before anybody has filled them: the semaphore
\* never counts more than the ring has; a writer is released when the ring holds a
\* character for every other writer at least, and every interrupt that sends passes it by.
Late(p) == stored >= OBUFLEN - (Cardinality(Writers) - 1) - FIFO * (passed[p] + 1)

LateOk ==
  /\ passed \in [Writers -> Nat]
  /\ osem.count <= OBUFLEN
  /\ \A p \in Writers \ Owed : passed[p] = 0
  /\ \A p \in Owed : Late(p)

\* The steps that neither fill a place nor send what is in one.
LEMMA OthersKeep ==
  ASSUME TtyInv, [Next]_vars
  PROVE  \/ OutInterrupt
         \/ \E p \in Proc : ttyPutc(p)
         \/ UNCHANGED <<stored, passed, osem>> /\ Owed' = Owed
<1> DEFINE Done == UNCHANGED <<stored, passed, osem>> /\ Owed' = Owed
<1>1. ASSUME NEW p, NEW op, NEW n, Begin(p, op, n) PROVE Done
  BY <1>1 DEF Begin, ovars, Owed
<1>2. ASSUME NEW p \in Readers, ReaderCall(p) PROVE Done
  BY <1>1, <1>2 DEF ReaderCall, CallGetc, CallNextc, CallRead, CallFgets, SetMode, SetEcho, ovars, Owed
<1>3. ASSUME NEW p \in Writers, WriterCall(p) PROVE Done
  BY <1>1, <1>3 DEF WriterCall, CallWrite, CallFputs
<1>4. ASSUME NEW p \in Proc, ttyGetc(p) \/ Nextc(p) PROVE Done
  BY <1>4, GetcKeeps, NextcKeeps DEF ttyGetc, Nextc, ovars
<1>5. ASSUME NEW c \in Keys, Arrive(c) PROVE Done
  BY <1>5, ArriveKeeps DEF Arrive
<1>6. ASSUME NEW p, Preempt(p) PROVE Done
  BY <1>6 DEF Preempt, ovars, Owed
<1>7. CASE UartDrain \/ UNCHANGED vars
  BY <1>7 DEF UartDrain, vars, ovars, Owed
<1> QED BY <1>2, <1>3, <1>4, <1>5, <1>6, <1>7 DEF Next, Goes

\* One interrupt more.
LEMMA OneMore ==
  ASSUME NEW x \in Nat, NEW s \in Int, NEW o \in 0 .. FIFO, NEW B \in Int, s >= B - FIFO * (x + 1)
  PROVE  s - o >= B - FIFO * ((x + 1) + 1)
<1>1. FIFO \in Nat
  BY TtyFacts
<1>2. FIFO * ((x + 1) + 1) = FIFO * (x + 1) + FIFO
  BY <1>1
<1> PICK y : y = FIFO * (x + 1)
  OBVIOUS
<1>3. y \in Nat
  BY <1>1
<1> QED BY <1>1, <1>2, <1>3

LEMMA SendIsLate ==
  ASSUME TtyInv, LateOk, Send
  PROVE  LateOk'
<1> PICK e : e = LeastOf(FIFO, epend)
  OBVIOUS
<1> PICK o : o = Sendable(FIFO - e)
  OBVIOUS
<1> PICK A : A = Released(osem, o)
  OBVIOUS
<1> PICK B : B = OBUFLEN - (Cardinality(Writers) - 1)
  OBVIOUS
<1>1. SendAnd(e, o, o) /\ o \in 0 .. FIFO /\ o \in Nat
  BY SendIsNat DEF Send
<1>2. /\ osem' = Signalled(osem, o) /\ stored' = stored - o /\ woken' = woken \union A
      /\ passed' = [p \in Writers |-> IF o > 0 /\ p \in Owed THEN passed[p] + 1 ELSE passed[p]]
  BY <1>1 DEF SendAnd
<1>3. /\ SemOk(osem, Writers, Owed) /\ stored \in Int /\ osem.count \in Int /\ Cardinality(Owed) \in Nat
      /\ OBUFLEN \in Nat /\ Len(osem.queue) \in Nat /\ Len(osem.queue) = IF osem.count < 0 THEN -osem.count ELSE 0
      /\ IsFiniteSet(Writers) /\ Cardinality(Writers) \in Nat /\ B \in Int /\ FIFO \in Nat
  <2>1. Types /\ SemOk(osem, Writers, Owed) /\ stored \in Int
    BY DEF TtyInv, OutputOk, Types
  <2>2. osem.count \in Int /\ Len(osem.queue) \in Nat /\ Cardinality(Owed) \in Nat
    BY <2>1, QueueFacts, WokenParts
  <2>3. Len(osem.queue) = IF osem.count < 0 THEN -osem.count ELSE 0
    BY <2>1 DEF SemOk
  <2>4. OBUFLEN \in Nat /\ FIFO \in Nat /\ IsFiniteSet(Writers)
    BY TtyFacts, TtyAssumption
  <2>5. Cardinality(Writers) \in Nat
    BY <2>4, FS_CardinalityType
  <2>6. B \in Int
    BY <2>4, <2>5
  <2> QED BY <2>1, <2>2, <2>3, <2>4, <2>5, <2>6
<1>4. Signals(osem', A, osem, o)
  BY <1>1, <1>2, <1>3, SignalledOk
<1>5. A \subseteq ToSet(osem.queue) /\ A \subseteq Writers /\ A \cap Owed = {} /\ osem'.count = osem.count + o
  BY <1>3, <1>4, QueueFacts DEF Signals, SemOk
<1>6. Owed' = Owed \union A /\ Owed \subseteq Writers
  BY <1>2, <1>5 DEF Owed
<1>7. passed' \in [Writers -> Nat]
  BY <1>2 DEF LateOk
<1>8. osem'.count <= OBUFLEN
  <2>1. o <= OBUFLEN - osem.count \/ o = 0
    BY <1>1, <1>3 DEF Sendable, LeastOf, semcount
  <2> QED BY <1>1, <1>3, <1>5, <2>1 DEF LateOk
<1>9. ASSUME NEW p \in Writers \ Owed' PROVE passed'[p] = 0
  BY <1>2, <1>6, <1>9 DEF LateOk
<1>10. ASSUME NEW p \in Owed PROVE Late(p)'
  <2>1. stored >= B - FIFO * (passed[p] + 1) /\ passed[p] \in Nat /\ p \in Writers
    BY <1>6, <1>10 DEF LateOk, Late
  <2>2. CASE o = 0
    BY <1>2, <1>3, <2>1, <2>2 DEF Late
  <2>3. CASE o > 0
    <3>1. passed'[p] = passed[p] + 1
      BY <1>2, <1>10, <2>1, <2>3
    <3>2. stored - o >= B - FIFO * ((passed[p] + 1) + 1)
      BY <1>1, <1>3, <2>1, OneMore
    <3> QED BY <1>2, <3>1, <3>2 DEF Late
  <2> QED BY <1>1, <2>2, <2>3
<1>11. ASSUME NEW p \in A PROVE Late(p)'
  <2>1. p \in Writers \ Owed /\ passed'[p] = 0
    BY <1>2, <1>5, <1>11 DEF LateOk
  <2>2. osem.count < 0
    <3>1. Len(osem.queue) # 0
      BY <1>3, <1>5, <1>11, QueueFacts, EmptySeq DEF ToSet
    <3> QED BY <1>3, <3>1
  <2>3. stored = OBUFLEN - Cardinality(Owed)
    BY <2>2, OutputPlaces
  <2>4. Cardinality(Owed) <= Cardinality(Writers) - 1
    <3>1. Owed \subseteq Writers \ {p} /\ IsFiniteSet(Writers \ {p}) /\ Cardinality(Writers \ {p}) = Cardinality(Writers) - 1
      BY <1>3, <1>6, <2>1, FS_RemoveElement
    <3> QED BY <3>1, FS_Subset
  <2>5. stored - o >= B - FIFO * (0 + 1)
    <3> PICK c, w : c = Cardinality(Owed) /\ w = Cardinality(Writers)
      OBVIOUS
    <3>1. FIFO * (0 + 1) = FIFO /\ FIFO \in Nat
      BY TtyFacts
    <3>2. stored = OBUFLEN - c /\ c <= w - 1 /\ B = OBUFLEN - (w - 1)
      BY <2>3, <2>4
    <3>3. c \in Nat /\ w \in Nat /\ OBUFLEN \in Nat /\ stored \in Int
      BY <1>3, <1>6, FS_Subset, FS_CardinalityType
    <3> QED BY ONLY <1>1, <3>1, <3>2, <3>3
  <2> QED BY <1>2, <2>1, <2>5 DEF Late
<1> QED BY <1>6, <1>7, <1>8, <1>9, <1>10, <1>11 DEF LateOk

LEMMA PutIsLate ==
  ASSUME TtyInv, LateOk, NEW p \in Proc, ttyPutc(p)
  PROVE  LateOk'
<1>1. p \in Writers /\ stored \in Int /\ osem.count \in Int
  BY WhoRuns, OutputPlaces DEF TtyInv, ttyPutc
<1>2. OBUFLEN \in Nat /\ FIFO \in Nat /\ Cardinality(Writers) \in Nat
  BY TtyFacts, TtyAssumption, FS_CardinalityType
<1>3. Waited(osem, p).count = osem.count - 1
  BY DEF Waited
<1>4. osem'.count <= OBUFLEN
  BY <1>1, <1>2, <1>3 DEF ttyPutc, LateOk
<1>5. \A q \in Owed : FIFO * (passed[q] + 1) \in Nat
  BY <1>2 DEF LateOk, Owed
<1>6. CASE Put(p) /\ Owed' \subseteq Owed /\ Owed \ {p} \subseteq Owed'
           /\ p \notin Owed'
  <2>1. stored' = stored + 1 /\ passed' = [passed EXCEPT ![p] = 0]
    BY <1>6 DEF Put
  <2>2. passed' \in [Writers -> Nat] /\ \A q \in Writers \ Owed' : passed'[q] = 0
    BY <1>1, <1>6, <2>1 DEF LateOk
  <2>3. ASSUME NEW q \in Owed' PROVE Late(q)'
    <3>1. q \in Owed /\ q # p /\ Late(q)
      BY <1>6, <2>3 DEF LateOk
    <3>2. passed'[q] = passed[q]
      BY <1>1, <2>1, <3>1 DEF LateOk, Owed
    <3> QED BY <1>1, <1>2, <1>5, <2>1, <3>1, <3>2 DEF Late
  <2> QED BY <1>4, <2>2, <2>3 DEF LateOk
<1>7. CASE UNCHANGED <<stored, passed>> /\ Owed' = Owed
  <2>1. \A q \in Owed' : Late(q)'
    BY <1>7 DEF LateOk, Late
  <2> QED BY <1>4, <1>7, <2>1 DEF LateOk
<1>8. CASE p \in woken /\ woken' = woken \ {p} /\ Put(p)
  BY <1>6, <1>8 DEF Owed
<1>9. CASE p \notin woken /\ UNCHANGED woken /\ Put(p)
  BY <1>6, <1>9 DEF Owed
<1>10. CASE Sleep /\ UNCHANGED ovars
  BY <1>7, <1>10 DEF Sleep, ovars, Owed
<1> QED BY <1>8, <1>9, <1>10 DEF ttyPutc

LEMMA LateKept ==
  ASSUME TtyInv, LateOk, [Next]_vars
  PROVE  LateOk'
<1>1. CASE UNCHANGED <<stored, passed, osem>> /\ Owed' = Owed
  <2>1. \A q \in Owed' : Late(q)'
    BY <1>1 DEF LateOk, Late
  <2> QED BY <1>1, <2>1 DEF LateOk
<1>2. CASE OutInterrupt
  <2>1. CASE NothingSent
    BY <1>1, <2>1 DEF NothingSent, Owed
  <2> QED BY <1>2, <2>1, SendIsLate DEF OutInterrupt, ttyInter_out
<1> QED BY <1>1, <1>2, PutIsLate, OthersKeep

LEMMA InitLate ==
  ASSUME Init
  PROVE  LateOk
<1>1. OBUFLEN \in Nat /\ osem.count = OBUFLEN /\ Owed = {}
  BY TtyFacts DEF Init, Owed
<1> QED BY <1>1 DEF Init, LateOk

\* Writers never overwrite a character that waits to be sent, and a place that nobody
\* has filled is sent only after every writer that was released has been passed over by
\* all the interrupts it takes to send the rest: whatever the number of processes, their
\* keys and the scheduling.
THEOREM GhostsComeLate == Spec => []GhostsAreLate
<1>1. ASSUME TtyInv, LateOk PROVE GhostsAreLate
  <2> PICK w, n, c : w = Cardinality(Writers) /\ n = Cardinality(Owed) /\ c = osem.count
    OBVIOUS
  <2>1. /\ stored \in Int /\ OBUFLEN \in Nat /\ c \in Int /\ n \in Nat /\ FIFO \in Nat /\ w \in Nat
        /\ stored <= OBUFLEN - n
        /\ c >= 0 => stored = OBUFLEN - c - n
        /\ c < 0 => stored = OBUFLEN - n
        /\ c <= OBUFLEN
    BY <1>1, OutputPlaces, TtyFacts, TtyAssumption, FS_CardinalityType DEF LateOk
  <2>2. stored <= OBUFLEN
    BY ONLY <2>1
  <2>3. ASSUME stored < 0 PROVE Owed # {}
    <3>1. n # 0
      BY ONLY <2>1, <2>3
    <3> QED BY <3>1, FS_EmptySet
  <2>4. ASSUME stored < 0, NEW p \in Owed PROVE OBUFLEN - w + 1 < FIFO * (passed[p] + 1)
    <3> PICK y : y = FIFO * (passed[p] + 1)
      OBVIOUS
    <3>1. passed[p] \in Nat /\ stored >= OBUFLEN - (w - 1) - y
      BY <1>1, <2>4 DEF LateOk, Late, Owed
    <3>2. y \in Nat
      BY <2>1, <3>1
    <3>3. OBUFLEN - w + 1 < y
      BY ONLY <2>1, <2>4, <3>1, <3>2
    <3> QED BY <3>3
  <2> QED BY <2>2, <2>3, <2>4 DEF GhostsAreLate
<1>2. TtyInv /\ LateOk /\ [Next]_vars => LateOk'
  BY LateKept
<1>3. Spec => []LateOk
  BY InitLate, <1>2, AlwaysTtyInv, PTL DEF Spec
<1> QED BY <1>1, <1>3, AlwaysTtyInv, PTL

----------------------------------------------------------------------------
\* The n characters of the ring b from the head h on.
TextOf(b, h, n) == [i \in 1 .. n |-> b[(h + i - 1) % IBUFLEN]]

Ring(S) == [0 .. IBUFLEN - 1 -> S]

LEMMA PlaceFacts ==
  ASSUME NEW x \in Int
  PROVE  x % IBUFLEN \in 0 .. IBUFLEN - 1
BY TtyFacts

Reads(f, b, h, n, S) ==
  f \in Seq(S) /\ Len(f) = n /\ \A i \in 1 .. n : f[i] = b[(h + i - 1) % IBUFLEN]

LEMMA TextSeq ==
  ASSUME NEW S, NEW b \in Ring(S), NEW h \in Int, NEW n \in Nat, NEW f, f = TextOf(b, h, n)
  PROVE  Reads(f, b, h, n, S)
<1>1. \A i \in 1 .. n : h + i - 1 \in Int
  OBVIOUS
<1>2. \A i \in 1 .. n : b[(h + i - 1) % IBUFLEN] \in S
  BY <1>1, PlaceFacts DEF Ring
<1>3. f \in [1 .. n -> S] /\ \A i \in 1 .. n : f[i] = b[(h + i - 1) % IBUFLEN]
  BY <1>2 DEF TextOf
<1>4. f \in Seq(S)
  BY <1>3
<1>5. Len(f) = n
  <2>1. DOMAIN f = 1 .. Len(f) /\ Len(f) \in Nat
    BY ONLY <1>4, LenProperties
  <2>2. DOMAIN f = 1 .. n
    BY <1>3
  <2> PICK m : m = Len(f)
    OBVIOUS
  <2>3. m \in Nat /\ 1 .. m = 1 .. n
    BY ONLY <2>1, <2>2, m = Len(f)
  <2>4. m = n
    <3>1. m <= n
      BY ONLY <2>3, n \in Nat, (m \in 1 .. m) \/ (m = 0)
    <3>2. n <= m
      BY ONLY <2>3, n \in Nat, (n \in 1 .. n) \/ (n = 0)
    <3> QED BY ONLY <2>3, <3>1, <3>2, n \in Nat
  <2> QED BY <2>4
<1> QED BY <1>3, <1>4, <1>5 DEF Reads

\* Two places of the text are two places of the ring.
LEMMA PlacesApart ==
  ASSUME NEW h \in Int, NEW i \in Int, NEW j \in Int, i # j, i - j < IBUFLEN, j - i < IBUFLEN
  PROVE  (h + i) % IBUFLEN # (h + j) % IBUFLEN
<1> PICK N : N = IBUFLEN
  OBVIOUS
<1>0. N \in Nat /\ N > 0
  BY TtyFacts
<1> PICK x : x = h + i
  OBVIOUS
<1> PICK y : y = h + j
  OBVIOUS
<1>1. x \in Int /\ y \in Int /\ ((x < y /\ y - x < N) \/ (y < x /\ x - y < N))
  OBVIOUS
<1>2. CASE x < y /\ y - x < N
  BY ONLY <1>0, <1>1, <1>2, x = h + i, y = h + j, N = IBUFLEN, DifferentPlaces
<1>3. CASE y < x /\ x - y < N
  BY ONLY <1>0, <1>1, <1>3, x = h + i, y = h + j, N = IBUFLEN, DifferentPlaces
<1> QED BY <1>1, <1>2, <1>3

LEMMA TakenText ==
  ASSUME NEW S, NEW b \in Ring(S), NEW h \in 0 .. IBUFLEN - 1, NEW n \in Nat, 0 < n, n <= IBUFLEN,
         NEW f \in S, NEW r, r = [b EXCEPT ![h] = f], NEW g, g = (h + 1) % IBUFLEN
  PROVE  TextOf(r, g, n - 1) = Tail(TextOf(b, h, n))
<1> PICK N : N = IBUFLEN
  OBVIOUS
<1>0. N \in Nat /\ N > 1 /\ h \in Int /\ n \in Nat /\ n > 0 /\ n <= N /\ n - 1 \in Nat
  BY TtyFacts
<1> PICK t : t = TextOf(b, h, n)
  OBVIOUS
<1> PICK u : u = TextOf(r, g, n - 1)
  OBVIOUS
<1>1. r \in Ring(S) /\ g \in Int
  <2>1. h + 1 \in Int
    BY <1>0
  <2>2. g \in 0 .. N - 1
    BY <2>1, PlaceFacts
  <2>3. r \in Ring(S)
    BY DEF Ring
  <2> QED BY <2>2, <2>3
<1>8. Reads(t, b, h, n, S)
  BY ONLY b \in Ring(S), <1>0, t = TextOf(b, h, n), TextSeq
<1>9. Reads(u, r, g, n - 1, S)
  BY ONLY <1>0, <1>1, u = TextOf(r, g, n - 1), TextSeq
<1>2. t \in Seq(S) /\ Len(t) = n /\ \A i \in 1 .. n : t[i] = b[(h + i - 1) % N]
  BY <1>8 DEF Reads
<1>3. u \in Seq(S) /\ Len(u) = n - 1 /\ \A i \in 1 .. n - 1 : u[i] = r[(g + i - 1) % N]
  BY <1>9 DEF Reads
<1>4. t # <<>>
  BY <1>0, <1>2
<1>5. Tail(t) \in Seq(S) /\ Len(Tail(t)) = n - 1 /\ \A i \in 1 .. n - 1 : Tail(t)[i] = t[i + 1]
  BY ONLY <1>2, <1>4, HeadTailProperties
<1>6. ASSUME NEW i \in 1 .. n - 1 PROVE u[i] = Tail(t)[i]
  <2> PICK p : p = (h + i) % N
    OBVIOUS
  <2>1. i \in Int /\ i >= 1 /\ i < N /\ i + 1 \in 1 .. n
    BY <1>0
  <2>2. (g + i - 1) % N = p
    <3> PICK x : x = h + 1
      OBVIOUS
    <3> PICK y : y = i - 1
      OBVIOUS
    <3>1. x \in Int /\ y \in Int /\ x + y = h + i /\ g + i - 1 = g + y
      BY <1>0, <1>1, <2>1
    <3>2. N \in Nat /\ N > 0
      BY <1>0
    <3>3. ((x % N) + y) % N = (x + y) % N
      BY ONLY <3>1, <3>2, ModularSum
    <3> QED BY <3>1, <3>3
  <2>3. (h + (i + 1) - 1) % N = p
    BY <1>0, <2>1
  <2>4. p # h
    <3>1. (h + i) % N # (h + 0) % N
      BY <1>0, <2>1, PlacesApart
    <3>2. (h + 0) % N = h
      <4>1. h + 0 = h /\ N > 0
        BY <1>0
      <4>2. h % N = h
        BY <1>0, <4>1, Reduced
      <4> QED BY <4>1, <4>2
    <3> QED BY <3>1, <3>2
  <2>5. p \in 0 .. N - 1
    <3>1. h + i \in Int
      BY <1>0, <2>1
    <3> QED BY <3>1, PlaceFacts
  <2>6. r[p] = b[p]
    BY <2>4, <2>5 DEF Ring
  <2> QED BY <1>2, <1>3, <1>5, <2>1, <2>2, <2>3, <2>6
<1>7. u = Tail(t)
  BY ONLY <1>3, <1>5, <1>6, SeqEqual
<1> QED BY <1>7

Longer(u, v, c) == u = Append(v, c)

LEMMA StoredText ==
  ASSUME NEW S, NEW b \in Ring(S), NEW h \in 0 .. IBUFLEN - 1, NEW n \in Nat, n < IBUFLEN,
         NEW c \in S, NEW t, t = (h + n) % IBUFLEN, NEW r, r = [b EXCEPT ![t] = c]
  PROVE  Longer(TextOf(r, h, n + 1), TextOf(b, h, n), c)
<1> PICK N : N = IBUFLEN
  OBVIOUS
<1>0. N \in Nat /\ N > 1 /\ h \in Int /\ n \in Nat /\ n < N /\ n + 1 \in Nat
  BY TtyFacts
<1> PICK v : v = TextOf(b, h, n)
  OBVIOUS
<1> PICK u : u = TextOf(r, h, n + 1)
  OBVIOUS
<1>1. r \in Ring(S) /\ r[t] = c /\ \A p \in 0 .. N - 1 : p # t => r[p] = b[p]
  <2>1. h + n \in Int
    BY <1>0
  <2>2. t \in 0 .. N - 1
    BY <2>1, PlaceFacts
  <2> QED BY <2>2 DEF Ring
<1>8. Reads(v, b, h, n, S)
  BY ONLY b \in Ring(S), <1>0, v = TextOf(b, h, n), TextSeq
<1>9. Reads(u, r, h, n + 1, S)
  BY ONLY <1>0, <1>1, u = TextOf(r, h, n + 1), TextSeq
<1>2. v \in Seq(S) /\ Len(v) = n /\ \A i \in 1 .. n : v[i] = b[(h + i - 1) % N]
  BY <1>8 DEF Reads
<1>3. u \in Seq(S) /\ Len(u) = n + 1 /\ \A i \in 1 .. n + 1 : u[i] = r[(h + i - 1) % N]
  BY <1>9 DEF Reads
<1> PICK a : a = Append(v, c)
  OBVIOUS
<1>4. a \in Seq(S) /\ Len(a) = n + 1 /\ (\A i \in 1 .. n : a[i] = v[i]) /\ a[n + 1] = c
  <2>1. /\ Append(v, c) \in Seq(S) /\ Len(Append(v, c)) = Len(v) + 1
        /\ \A i \in 1 .. Len(v) : Append(v, c)[i] = v[i]
        /\ Append(v, c)[Len(v) + 1] = c
    <3>1. v \in Seq(S) /\ c \in S
      BY <1>2
    <3> QED BY ONLY <3>1, AppendProperties
  <2> QED BY <1>2, <2>1
<1>5. ASSUME NEW i \in 1 .. n + 1 PROVE u[i] = a[i]
  <2>1. CASE i = n + 1
    <3>1. (h + i - 1) % N = t
      BY <1>0, <2>1
    <3> QED BY <1>1, <1>3, <1>4, <2>1, <3>1
  <2>2. CASE i # n + 1
    <3>1. i \in 1 .. n /\ i \in Int /\ i - 1 \in Int /\ i - 1 # n /\ i - 1 - n < N /\ n - (i - 1) < N
      BY <1>0, <2>2
    <3>2. (h + (i - 1)) % N # (h + n) % N
      <4> PICK j : j = i - 1
        OBVIOUS
      <4>1. h \in Int /\ j \in Int /\ n \in Int /\ j # n /\ j - n < N /\ n - j < N
        BY <1>0, <3>1
      <4>2. (h + j) % N # (h + n) % N
        BY ONLY <4>1, N = IBUFLEN, PlacesApart
      <4> QED BY <4>2
    <3> PICK p : p = (h + (i - 1)) % N
      OBVIOUS
    <3>3. p # t /\ h + i - 1 = h + (i - 1) /\ h + (i - 1) \in Int
      BY <1>0, <3>1, <3>2
    <3>4. p \in 0 .. N - 1
      BY <3>3, PlaceFacts
    <3>5. r[p] = b[p]
      BY <1>1, <3>3, <3>4
    <3> QED BY <1>2, <1>3, <1>4, <3>1, <3>3, <3>5
  <2> QED BY <2>1, <2>2
<1>6. u = a
  BY ONLY <1>3, <1>4, <1>5, SeqEqual
<1> QED BY <1>6 DEF Longer

\* A shorter text, when the places it loses are the only ones that change.
LEMMA ShortenedText ==
  ASSUME NEW S, NEW b \in Ring(S), NEW h \in 0 .. IBUFLEN - 1, NEW n \in Nat, NEW m \in 0 .. n,
         NEW r \in Ring(S),
         \A i \in 1 .. m : r[(h + i - 1) % IBUFLEN] = b[(h + i - 1) % IBUFLEN]
  PROVE  TextOf(r, h, m) = SubSeq(TextOf(b, h, n), 1, m)
<1> PICK N : N = IBUFLEN
  OBVIOUS
<1>0. N \in Nat /\ h \in Int /\ n \in Nat /\ m \in Nat /\ m <= n
  BY TtyFacts
<1> PICK v : v = TextOf(b, h, n)
  OBVIOUS
<1> PICK u : u = TextOf(r, h, m)
  OBVIOUS
<1>8. Reads(v, b, h, n, S)
  BY ONLY b \in Ring(S), <1>0, v = TextOf(b, h, n), TextSeq
<1>9. Reads(u, r, h, m, S)
  BY ONLY r \in Ring(S), <1>0, u = TextOf(r, h, m), TextSeq
<1>2. v \in Seq(S) /\ Len(v) = n /\ \A i \in 1 .. n : v[i] = b[(h + i - 1) % N]
  BY <1>8 DEF Reads
<1>3. u \in Seq(S) /\ Len(u) = m /\ \A i \in 1 .. m : u[i] = r[(h + i - 1) % N]
  BY <1>9 DEF Reads
<1> PICK a : a = SubSeq(v, 1, m)
  OBVIOUS
<1>4. a \in Seq(S) /\ Len(a) = m /\ \A i \in 1 .. m : a[i] = v[i]
  <2>1. \A i \in 1 .. m : i \in 1 .. n /\ 1 + i - 1 = i
    BY ONLY <1>0
  <2>2. \A i \in 1 .. m : v[i] \in S
    BY <1>2, <2>1
  <2>3. 1 \in Int /\ m \in Int
    BY <1>0
  <2>4. /\ a \in Seq(S) /\ Len(a) = IF 1 <= m THEN m - 1 + 1 ELSE 0
        /\ \A i \in 1 .. m - 1 + 1 : a[i] = v[1 + i - 1]
    BY ONLY a = SubSeq(v, 1, m), <2>2, <2>3, SubSeqProperties
  <2>5. m - 1 + 1 = m /\ Len(a) = m
    BY <1>0, <2>4
  <2> QED BY <2>1, <2>4, <2>5
<1>5. \A i \in 1 .. m : u[i] = a[i]
  <2>1. \A i \in 1 .. m : i \in 1 .. n
    BY ONLY <1>0
  <2> QED BY <1>2, <1>3, <1>4, <2>1
<1>6. u = a
  BY ONLY <1>3, <1>4, <1>5, SeqEqual
<1> QED BY <1>6

----------------------------------------------------------------------------
\* The text in the ring.
Buffered == TextOf(ibuf, ihead, Entered + icursor)
Marks    == Keys \union {Free}

\* What the driver's state says of the line, until a fault.
Maps ==
  /\ LineText  = (IF fault = "none" THEN Buffered ELSE <<>>)
  /\ LineReady = (IF fault = "none" THEN Entered ELSE 0)
  /\ fault = "none" => /\ Entered \in Nat /\ icursor \in Nat /\ Entered + icursor <= IBUFLEN
                       /\ ihead \in 0 .. IBUFLEN - 1 /\ ibuf \in Ring(Marks)
                       /\ Reads(Buffered, ibuf, ihead, Entered + icursor, Marks)

LEMMA StateMaps == TtyInv => Maps
<1> SUFFICES ASSUME TtyInv PROVE Maps
  OBVIOUS
<1>1. Unread = Entered /\ Held = Entered + icursor
  BY UnreadEntered DEF Held
<1>2. Text = Buffered
  BY <1>1 DEF Text, Buffered, TextOf
<1>3. fault = "none" => /\ Entered \in Nat /\ icursor \in Nat /\ Entered + icursor <= IBUFLEN
                        /\ ihead \in 0 .. IBUFLEN - 1 /\ ibuf \in Ring(Marks)
  BY RingFacts DEF Ring, Marks
<1>4. ASSUME fault = "none" PROVE Reads(Buffered, ibuf, ihead, Entered + icursor, Marks)
  <2>1. ibuf \in Ring(Marks) /\ ihead \in Int /\ Entered + icursor \in Nat
    BY <1>3, <1>4
  <2>2. Buffered = TextOf(ibuf, ihead, Entered + icursor)
    BY DEF Buffered
  <2> QED BY ONLY <2>1, <2>2, TextSeq
<1> QED BY <1>1, <1>2, <1>3, <1>4 DEF Maps, LineText, LineReady

\* The steps of the ring as the line sees them.
LEMMA LineTakes ==
  ASSUME TtyInv, Maps, Maps', fault = "none", RingTakes
  PROVE  Promise!Take
<1> PICK N : N = IBUFLEN
  OBVIOUS
<1> PICK E : E = Entered
  OBVIOUS
<1> PICK n : n = E + icursor
  OBVIOUS
<1>1. /\ E \in Nat /\ icursor \in Nat /\ n <= N /\ ihead \in 0 .. N - 1 /\ ibuf \in Ring(Marks)
      /\ LineText = TextOf(ibuf, ihead, n) /\ LineReady = E
  BY DEF Maps, Buffered
<1>2. /\ E > 0 /\ Entered' = E - 1 /\ icursor' = icursor /\ fault' = "none"
      /\ ihead' = (ihead + 1) % N /\ ibuf' = [ibuf EXCEPT ![ihead] = Free]
  BY DEF RingTakes
<1>3. Entered' + icursor' = n - 1 /\ n \in Nat /\ 0 < n /\ Free \in Marks
  BY <1>1, <1>2 DEF Marks
<1>4. LineText' = TextOf(ibuf', ihead', n - 1) /\ LineReady' = E - 1
  BY <1>2, <1>3 DEF Maps, Buffered
<1>5. TextOf(ibuf', ihead', n - 1) = Tail(TextOf(ibuf, ihead, n))
  <2> PICK b : b = ibuf
    OBVIOUS
  <2> PICK r : r = ibuf'
    OBVIOUS
  <2> PICK h : h = ihead
    OBVIOUS
  <2> PICK g : g = ihead'
    OBVIOUS
  <2> PICK S : S = Marks
    OBVIOUS
  <2>1. /\ b \in Ring(S) /\ h \in 0 .. IBUFLEN - 1 /\ n \in Nat /\ 0 < n /\ n <= IBUFLEN
        /\ Free \in S /\ r = [b EXCEPT ![h] = Free] /\ g = (h + 1) % IBUFLEN
    BY <1>1, <1>2, <1>3
  <2>2. TextOf(r, g, n - 1) = Tail(TextOf(b, h, n))
    BY ONLY ZenonT(60), <2>1, TakenText
  <2> QED BY <2>2
<1> QED BY <1>1, <1>2, <1>4, <1>5 DEF Promise!Take

LEMMA LineStores ==
  ASSUME TtyInv, Maps, Maps', NEW c \in Keys, RingStores(c)
  PROVE  Promise!Type(c) \/ Promise!Pass(c) \/ Promise!Enter
<1> PICK N : N = IBUFLEN
  OBVIOUS
<1> PICK E : E = Entered
  OBVIOUS
<1> PICK n : n = E + icursor
  OBVIOUS
<1>0. /\ fault = "none" /\ fault' = "none" /\ n < N /\ itail < N /\ ihead' = ihead
      /\ ibuf' = [ibuf EXCEPT ![itail] = c]
      /\ \/ Entered' = E /\ icursor' = icursor + 1
         \/ Entered' = E + 1 /\ icursor' = icursor
         \/ c = "nl" /\ Entered' = E + (icursor + 1) /\ icursor' = 0
  BY DEF RingStores
<1>1. /\ E \in Nat /\ icursor \in Nat /\ ihead \in 0 .. N - 1 /\ ibuf \in Ring(Marks)
      /\ LineText = TextOf(ibuf, ihead, n) /\ LineReady = E /\ Reads(LineText, ibuf, ihead, n, Marks)
  BY <1>0 DEF Maps, Buffered
<1>2. n \in Nat /\ c \in Marks /\ Entered' + icursor' = n + 1
  BY <1>0, <1>1 DEF Marks
<1>3. itail = (ihead + n) % N
  <2>1. N \in Nat /\ N > 0 /\ itail \in 0 .. N /\ (ihead + n) % N = itail % N
    BY <1>0, RingFacts
  <2>2. itail \in 0 .. N - 1
    BY <1>0, <2>1
  <2> PICK t : t = itail
    OBVIOUS
  <2>3. t % N = t
    BY ONLY <2>1, <2>2, t = itail, Reduced
  <2> QED BY <2>1, <2>3
<1>4. LineText' = TextOf(ibuf', ihead, n + 1) /\ LineReady' = Entered'
  BY <1>0, <1>2 DEF Maps, Buffered
<1>5. TextOf(ibuf', ihead, n + 1) = Append(TextOf(ibuf, ihead, n), c)
  <2> PICK b : b = ibuf
    OBVIOUS
  <2> PICK r : r = ibuf'
    OBVIOUS
  <2> PICK h : h = ihead
    OBVIOUS
  <2> PICK t : t = itail
    OBVIOUS
  <2> PICK S : S = Marks
    OBVIOUS
  <2>1. b \in Ring(S) /\ h \in 0 .. IBUFLEN - 1
    BY <1>1
  <2>3. n \in Nat /\ n < IBUFLEN /\ c \in S
    BY <1>0, <1>2
  <2>4. t = (h + n) % IBUFLEN
    BY <1>3
  <2>5. r = [b EXCEPT ![t] = c]
    BY <1>0
  <2>2. Longer(TextOf(r, h, n + 1), TextOf(b, h, n), c)
    BY ONLY <2>1, <2>3, <2>4, <2>5, StoredText
  <2> QED BY <2>2 DEF Longer
<1>6. LineText' = Append(LineText, c)
  BY <1>1, <1>4, <1>5
<1>7. Len(LineText') = n + 1
  BY <1>0, <1>2 DEF Maps, Reads
<1>8. CASE Entered' = E
  BY <1>1, <1>4, <1>6, <1>8 DEF Promise!Type
<1>9. CASE Entered' = E + 1
  BY <1>1, <1>4, <1>6, <1>9 DEF Promise!Pass
<1>10. CASE c = "nl" /\ Entered' = E + (icursor + 1)
  <2>1. E + (icursor + 1) = n + 1
    BY <1>1
  <2> QED BY <1>4, <1>6, <1>7, <1>10, <2>1 DEF Promise!Enter
<1> QED BY <1>0, <1>8, <1>9, <1>10

LEMMA LineErases ==
  ASSUME TtyInv, Maps, Maps', RingErases
  PROVE  Promise!Erase
<1> PICK N : N = IBUFLEN
  OBVIOUS
<1> PICK E : E = Entered
  OBVIOUS
<1> PICK n : n = E + icursor
  OBVIOUS
<1> PICK p : p = (itail - 1) % N
  OBVIOUS
<1>0. /\ fault = "none" /\ fault' = "none" /\ icursor > 0 /\ icursor' = icursor - 1
      /\ ibuf' = [ibuf EXCEPT ![p] = Free] /\ ihead' = ihead /\ Entered' = E
  BY DEF RingErases
<1>1. /\ E \in Nat /\ icursor \in Nat /\ n <= N /\ ihead \in 0 .. N - 1 /\ ibuf \in Ring(Marks)
      /\ LineText = TextOf(ibuf, ihead, n) /\ LineReady = E /\ Reads(LineText, ibuf, ihead, n, Marks)
  BY <1>0 DEF Maps, Buffered
<1>2. n \in Nat /\ n - 1 \in 0 .. n /\ n > E /\ Entered' + icursor' = n - 1 /\ ihead \in Int
  BY <1>0, <1>1
<1>3. /\ LineText' = TextOf(ibuf', ihead, n - 1) /\ LineReady' = E /\ ibuf' \in Ring(Marks)
  BY <1>0, <1>2 DEF Maps, Buffered
<1>4. N \in Nat /\ N > 0 /\ itail \in Int /\ (ihead + n) % N = itail % N
  BY <1>0, RingFacts
<1>5. p = (ihead + (n - 1)) % N
  <2> PICK t : t = itail
    OBVIOUS
  <2> PICK x : x = ihead + n
    OBVIOUS
  <2>1. t \in Int /\ x \in Int /\ x % N = t % N /\ -1 \in Int
    BY <1>2, <1>4
  <2>2. (x + -1) % N = (t + -1) % N
    BY ONLY <1>4, <2>1, SameShift
  <2>3. t + -1 = itail - 1 /\ x + -1 = ihead + (n - 1)
    BY <1>2, <2>1
  <2> QED BY <2>2, <2>3
<1>6. ASSUME NEW i \in 1 .. n - 1
      PROVE  ibuf'[(ihead + i - 1) % N] = ibuf[(ihead + i - 1) % N]
  <2> PICK j : j = i - 1
    OBVIOUS
  <2> PICK k : k = n - 1
    OBVIOUS
  <2>1. j \in Int /\ k \in Int /\ j # k /\ j - k < N /\ k - j < N /\ ihead + i - 1 = ihead + j /\ ihead + j \in Int
    <3>1. n \in Nat /\ i \in Int /\ 1 <= i /\ i <= n - 1 /\ N \in Nat /\ n <= N
      BY <1>1, <1>2, <1>4
    <3>2. j \in Int /\ k \in Int /\ j # k /\ j - k < N /\ k - j < N
      BY ONLY <3>1, j = i - 1, k = n - 1
    <3> QED BY <1>2, <3>1, <3>2
  <2>2. (ihead + j) % N # (ihead + k) % N
    BY ONLY <1>2, <2>1, N = IBUFLEN, PlacesApart
  <2> PICK o : o = (ihead + j) % N
    OBVIOUS
  <2>3. o \in 0 .. N - 1
    BY <2>1, PlaceFacts
  <2>4. o # p
    BY <1>5, <2>2
  <2>5. ibuf'[o] = ibuf[o]
    BY <1>0, <1>1, <2>3, <2>4 DEF Ring
  <2> QED BY <2>1, <2>5
<1>7. TextOf(ibuf', ihead, n - 1) = SubSeq(TextOf(ibuf, ihead, n), 1, n - 1)
  <2> PICK m : m = n - 1
    OBVIOUS
  <2>1. m \in 0 .. n /\ \A i \in 1 .. m : ibuf'[(ihead + i - 1) % N] = ibuf[(ihead + i - 1) % N]
    BY <1>2, <1>6
  <2> PICK b : b = ibuf
    OBVIOUS
  <2> PICK r : r = ibuf'
    OBVIOUS
  <2> PICK h : h = ihead
    OBVIOUS
  <2> PICK S : S = Marks
    OBVIOUS
  <2>2. /\ b \in Ring(S) /\ h \in 0 .. IBUFLEN - 1 /\ n \in Nat /\ m \in 0 .. n /\ r \in Ring(S)
        /\ \A i \in 1 .. m : r[(h + i - 1) % IBUFLEN] = b[(h + i - 1) % IBUFLEN]
    BY <1>1, <1>2, <1>3, <2>1
  <2>3. TextOf(r, h, m) = SubSeq(TextOf(b, h, n), 1, m)
    BY ONLY <2>2, ShortenedText
  <2> QED BY <2>3
<1>8. Len(LineText) = n
  BY <1>1 DEF Reads
<1>9. LineText' = SubSeq(LineText, 1, Len(LineText) - 1)
  BY <1>1, <1>3, <1>7, <1>8
<1>10. Len(LineText) > LineReady /\ LineReady' = LineReady
  BY <1>1, <1>2, <1>3, <1>8
<1> QED BY <1>9, <1>10 DEF Promise!Erase, Promise!Front

LEMMA LineKilled ==
  ASSUME TtyInv, Maps, Maps', RingKills, fault' = "none"
  PROVE  Promise!Kill
<1> PICK N : N = IBUFLEN
  OBVIOUS
<1> PICK E : E = Entered
  OBVIOUS
<1> PICK n : n = E + icursor
  OBVIOUS
<1>0. /\ fault = "none" /\ icursor' = 0 /\ ihead' = ihead /\ Entered' = E
      /\ ibuf' = [i \in DOMAIN ibuf |-> IF i \in itail - icursor .. itail - 1 THEN Free ELSE ibuf[i]]
  BY DEF RingKills
<1>1. /\ E \in Nat /\ icursor \in Nat /\ n <= N /\ ihead \in 0 .. N - 1 /\ ibuf \in Ring(Marks)
      /\ LineText = TextOf(ibuf, ihead, n) /\ LineReady = E
  BY <1>0 DEF Maps, Buffered
<1>2. n \in Nat /\ E \in 0 .. n /\ Entered' + icursor' = E /\ ihead \in Int
  BY <1>0, <1>1
<1>3. LineText' = TextOf(ibuf', ihead, E) /\ LineReady' = E /\ ibuf' \in Ring(Marks)
  BY <1>0, <1>2 DEF Maps, Buffered
<1>4. N \in Nat /\ N > 0 /\ itail \in Int /\ (ihead + n) % N = itail % N
  BY <1>0, RingFacts
<1>5. ASSUME NEW i \in 1 .. E
      PROVE  ibuf'[(ihead + i - 1) % N] = ibuf[(ihead + i - 1) % N]
  <2> PICK j : j = i - 1
    OBVIOUS
  <2>1. j \in Int /\ j < E /\ j >= 0 /\ ihead + i - 1 = ihead + j /\ ihead + j \in Int
    BY <1>1, <1>2
  <2> PICK o : o = (ihead + j) % N
    OBVIOUS
  <2>2. o \in 0 .. N - 1
    BY <2>1, PlaceFacts
  <2>3. ASSUME o \in itail - icursor .. itail - 1 PROVE FALSE
    <3> PICK t : t = itail
      OBVIOUS
    <3> PICK x : x = ihead + n
      OBVIOUS
    <3> PICK d : d = o - t
      OBVIOUS
    <3> PICK k : k = n + d
      OBVIOUS
    <3>1. /\ t \in Int /\ x \in Int /\ d \in Int /\ x % N = t % N /\ t + d = o
          /\ d <= -1 /\ -icursor <= d /\ k \in Int /\ x + d = ihead + k
      BY <1>1, <1>2, <1>4, <2>2, <2>3
    <3>2. (x + d) % N = (t + d) % N
      BY ONLY ZenonT(60), <1>4, <3>1, SameShift
    <3>3. o % N = o
      BY ONLY <1>4, <2>2, Reduced
    <3>4. (ihead + k) % N = (ihead + j) % N
      BY <3>1, <3>2, <3>3
    <3>5. k >= E /\ k < N
      <4> PICK c : c = icursor
        OBVIOUS
      <4>1. E \in Nat /\ c \in Nat /\ N \in Nat /\ n = E + c /\ n <= N /\ d \in Int /\ d <= -1 /\ -c <= d /\ k = n + d
        BY <1>1, <1>4, <3>1
      <4> QED BY ONLY <4>1
    <3>6. j # k /\ j - k < N /\ k - j < N
      BY <1>4, <1>1, <2>1, <3>1, <3>5
    <3>7. (ihead + j) % N # (ihead + k) % N
      BY ONLY <1>2, <2>1, <3>1, <3>6, N = IBUFLEN, PlacesApart
    <3> QED BY <3>4, <3>7
  <2>4. ibuf'[o] = ibuf[o]
    BY <1>0, <1>1, <2>2, <2>3 DEF Ring
  <2> QED BY <2>1, <2>4
<1>6. TextOf(ibuf', ihead, E) = SubSeq(TextOf(ibuf, ihead, n), 1, E)
  <2> PICK b : b = ibuf
    OBVIOUS
  <2> PICK r : r = ibuf'
    OBVIOUS
  <2> PICK h : h = ihead
    OBVIOUS
  <2> PICK S : S = Marks
    OBVIOUS
  <2>2. /\ b \in Ring(S) /\ h \in 0 .. IBUFLEN - 1 /\ n \in Nat /\ E \in 0 .. n /\ r \in Ring(S)
        /\ \A i \in 1 .. E : r[(h + i - 1) % IBUFLEN] = b[(h + i - 1) % IBUFLEN]
    BY <1>1, <1>2, <1>3, <1>5
  <2>3. TextOf(r, h, E) = SubSeq(TextOf(b, h, n), 1, E)
    BY ONLY <2>2, ShortenedText
  <2> QED BY <2>3
<1> QED BY <1>1, <1>3, <1>6 DEF Promise!Kill

----------------------------------------------------------------------------
\* Every step of the driver is a step of the line, or changes nothing there.
LEMMA LineFollows ==
  ASSUME TtyInv, TtyInv', Maps, Maps', RingStep
  PROVE  [Promise!LineNext]_(Promise!lineVars)
<1>1. CASE fault # "none"
  <2>1. fault' = fault
    BY <1>1 DEF RingStep, RingStays, RingTakes, RingStores, RingErases, RingKills, RingBreaks
  <2>2. UNCHANGED <<LineText, LineReady, Broken>>
    BY <1>1, <2>1 DEF Maps, Broken
  <2> QED BY <2>2 DEF Promise!lineVars
<1>2. CASE fault = "none" /\ fault' # "none"
  <2>1. ~Broken /\ Broken' /\ LineText' = <<>> /\ LineReady' = 0
    BY <1>2 DEF Maps, Broken
  <2> QED BY <2>1 DEF Promise!LineNext, Promise!Break
<1>3. CASE fault = "none" /\ fault' = "none"
  <2>1. ~Broken /\ UNCHANGED Broken /\ Len(LineText') <= IBUFLEN
    BY <1>3 DEF Maps, Broken, Reads
  <2>2. ASSUME \/ Promise!Enter \/ Promise!Erase \/ Promise!Kill \/ Promise!Take
               \/ \E c \in Keys : Promise!Type(c) \/ Promise!Pass(c)
        PROVE  Promise!LineNext
    BY <2>1, <2>2 DEF Promise!LineNext, Promise!Works
  <2>3. CASE RingStays
    <3>1. UNCHANGED <<ibuf, ihead, icursor>> /\ Entered' = Entered
      BY <2>3 DEF RingStays
    <3>2. Buffered' = Buffered
      BY <3>1 DEF Buffered
    <3>3. UNCHANGED <<LineText, LineReady, Broken>>
      BY <1>3, <2>1, <3>1, <3>2 DEF Maps
    <3> QED BY <3>3 DEF Promise!lineVars
  <2>4. CASE RingTakes
    BY <1>3, <2>2, <2>4, LineTakes
  <2>5. CASE RingErases
    BY <2>2, <2>5, LineErases
  <2>6. CASE RingKills
    BY <1>3, <2>2, <2>6, LineKilled
  <2>7. CASE RingBreaks
    BY <1>3, <2>7 DEF RingBreaks
  <2>8. CASE \E c \in Keys : RingStores(c)
    BY <2>2, <2>8, LineStores
  <2> QED BY <2>3, <2>4, <2>5, <2>6, <2>7, <2>8 DEF RingStep
<1> QED BY <1>1, <1>2, <1>3

\* The input half of the console keeps the promise of LineDiscipline.
THEOREM ImplementsLineDiscipline == Spec => KeepsText
<1>1. ASSUME Init PROVE Promise!LineInit
  <2>1. TtyInv /\ fault = "none" /\ icursor = 0 /\ isem.count = 0 /\ woken = {}
    BY <1>1, InitTtyInv DEF Init
  <2>2. Entered = 0
    <3>1. Granted = {}
      BY <2>1 DEF Granted
    <3> QED BY <2>1, <3>1, FS_EmptySet DEF Entered, avail, semcount
  <2>3. Maps
    BY <2>1, StateMaps
  <2>4. LineText \in Seq(Marks) /\ Len(LineText) = 0 /\ LineReady = 0 /\ Broken = FALSE
    BY <2>1, <2>2, <2>3 DEF Maps, Reads, Broken
  <2>5. LineText = <<>>
    BY <2>4, EmptySeq
  <2> QED BY <2>4, <2>5 DEF Promise!LineInit
<1>2. TtyInv /\ [Next]_vars => TtyInv' /\ RingStep
  BY StepKeeps
<1>3. TtyInv /\ TtyInv' /\ Maps /\ Maps' /\ RingStep => [Promise!LineNext]_(Promise!lineVars)
  BY LineFollows
<1> QED BY <1>1, <1>2, <1>3, StateMaps, AlwaysTtyInv, PTL DEF Spec, KeepsText, Promise!LineSpec
=============================================================================
