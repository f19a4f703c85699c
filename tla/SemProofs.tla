----------------------------- MODULE SemProofs -----------------------------
(***************************************************************************)
(* Proofs about Semaphores and the scheduler under it, for every number of *)
(* processes, semaphores and priorities, while no process that waits on a  *)
(* semaphore is killed: the process states agree with the queues, the      *)
(* processes are counted, the ready queue is in order and the processor    *)
(* does not idle while a process is ready, and the semaphores keep the     *)
(* promise of CountingSemaphore.                                           *)
(*                                                                         *)
(* In three parts.  The queues of KeyQueue: where enqueue puts an entry,   *)
(* what dequeue and remove leave, and what that means for the set of       *)
(* processes on a queue and for the order of their keys.  The scheduler of *)
(* Sched: making a process ready and rescheduling keep the process table   *)
(* and the ready queue in step, and leave the processes alone that are     *)
(* neither ready nor current.  The semaphores, and the theorems.           *)
(***************************************************************************)
EXTENDS Semaphores, KeyQueue, FiniteSetTheorems, SequenceTheorems, WellFoundedInduction, TLAPS

Entries(P) == [pid : P, key : Int]

PidsOf(q)   == {q[i].pid : i \in DOMAIN q}
OnceEach(q) == \A i, j \in DOMAIN q : q[i].pid = q[j].pid => i = j
Sorted(q)   == \A i, j \in DOMAIN q : i < j => q[i].key >= q[j].key

\* Every key is what the table of priorities says.
KeyedBy(q, prio) == \A i \in DOMAIN q : q[i].key = prio[q[i].pid]

----------------------------------------------------------------------------
\* The least member of a set of numbers.
LEMMA LeastMember ==
  ASSUME NEW S, S \subseteq Nat, S # {}
  PROVE  \E x \in S : x = Min(S) /\ \A y \in S : x <= y
<1>2. PICK x \in S : \A y \in S : <<y, x>> \notin OpToRel(<, Nat)
  BY NatLessThanWellFounded, WFMin
<1>3. ASSUME NEW y \in S PROVE x <= y
  <2>1. ~(y < x)
    BY <1>2 DEF OpToRel
  <2> QED BY <2>1
<1>4. Min(S) = CHOOSE z \in S : \A y \in S : z <= y
  BY DEF Min
<1> QED BY <1>3, <1>4

\* Induction as far as m, over a set of numbers.
LEMMA StepByStep ==
  ASSUME NEW m \in Nat, NEW T, 0 \in T, \A k \in 0 .. m - 1 : k \in T => k + 1 \in T
  PROVE  \A k \in 0 .. m : k \in T
<1> SUFFICES ASSUME \E k \in 0 .. m : k \notin T PROVE FALSE
  OBVIOUS
<1> PICK C : C = {k \in 0 .. m : k \notin T}
  OBVIOUS
<1>1. C \subseteq Nat /\ C # {}
  OBVIOUS
<1>2. PICK n \in C : \A y \in C : n <= y
  BY ONLY <1>1, LeastMember
<1>3. n \in 0 .. m /\ n \notin T /\ n # 0
  OBVIOUS
<1>4. n - 1 \in 0 .. m - 1 /\ n - 1 \in 0 .. m
  BY <1>3
<1>5. n - 1 \in T
  BY <1>2, <1>3, <1>4
<1>6. (n - 1) + 1 \in T
  BY <1>4, <1>5
<1> QED BY <1>3, <1>6

\* A sequence with an element inserted at a place.
LEMMA Inserted ==
  ASSUME NEW S, NEW q \in Seq(S), NEW e \in S, NEW i \in 1 .. Len(q) + 1,
         NEW r, r = InsertAt(q, i, e)
  PROVE  /\ r \in Seq(S) /\ Len(r) = Len(q) + 1 /\ DOMAIN r = 1 .. Len(q) + 1
         /\ r[i] = e
         /\ \A j \in 1 .. Len(q) : j < i => r[j] = q[j]
         /\ \A j \in 1 .. Len(q) : j >= i => r[j + 1] = q[j]
<1> DEFINE lo == SubSeq(q, 1, i - 1)
<1> DEFINE hi == SubSeq(q, i, Len(q))
<1>1. i \in Int /\ 1 <= i /\ i <= Len(q) + 1 /\ Len(q) \in Nat
  OBVIOUS
<1>2. /\ lo \in Seq(S) /\ Len(lo) = i - 1 /\ \A j \in 1 .. i - 1 : lo[j] = q[j]
  BY <1>1
<1>3. /\ hi \in Seq(S) /\ Len(hi) = Len(q) - i + 1
      /\ \A j \in 1 .. Len(q) - i + 1 : hi[j] = q[i + j - 1]
  BY <1>1
<1> HIDE DEF lo, hi
<1>5. r = (lo \o <<e>>) \o hi
  BY DEF InsertAt, lo, hi
<1>4. /\ r \in Seq(S) /\ Len(r) = Len(q) + 1
      /\ \A j \in 1 .. i - 1 : r[j] = lo[j]
      /\ r[i] = e
      /\ \A j \in i + 1 .. Len(q) + 1 : r[j] = hi[j - i]
  <2> DEFINE m == lo \o <<e>>
  <2>1. <<e>> \in Seq(S) /\ Len(<<e>>) = 1 /\ <<e>>[1] = e
    OBVIOUS
  <2>2. /\ m \in Seq(S) /\ Len(m) = i
        /\ \A j \in 1 .. i : m[j] = IF j <= i - 1 THEN lo[j] ELSE <<e>>[j - (i - 1)]
    BY <1>1, <1>2, <2>1, ConcatProperties
  <2>3. (\A j \in 1 .. i - 1 : m[j] = lo[j]) /\ m[i] = e
    BY <1>1, <2>1, <2>2
  <2> HIDE DEF m
  <2>4. /\ m \o hi \in Seq(S) /\ Len(m \o hi) = Len(m) + Len(hi)
        /\ \A j \in 1 .. Len(m) + Len(hi) :
             (m \o hi)[j] = IF j <= Len(m) THEN m[j] ELSE hi[j - Len(m)]
    BY <1>3, <2>2, ConcatProperties
  <2>5. r = m \o hi
    BY <1>5 DEF m
  <2> QED BY <1>1, <1>3, <2>2, <2>3, <2>4, <2>5
<1>6. \A j \in 1 .. Len(q) : j < i => r[j] = q[j]
  BY <1>1, <1>2, <1>4
<1>7. \A j \in 1 .. Len(q) : j >= i => r[j + 1] = q[j]
  <2> SUFFICES ASSUME NEW j \in 1 .. Len(q), j >= i PROVE r[j + 1] = q[j]
    OBVIOUS
  <2>1. j + 1 \in i + 1 .. Len(q) + 1 /\ (j + 1) - i \in 1 .. Len(q) - i + 1
    BY <1>1
  <2>2. r[j + 1] = hi[(j + 1) - i] /\ hi[(j + 1) - i] = q[i + ((j + 1) - i) - 1]
    BY <1>3, <1>4, <2>1
  <2> QED BY <1>1, <2>2
<1>8. DOMAIN r = 1 .. Len(q) + 1
  BY <1>1, <1>4
<1> QED BY <1>4, <1>6, <1>7, <1>8

\* r is q without the element at i.
Without(r, q, i) ==
  /\ Len(r) = Len(q) - 1 /\ DOMAIN r = 1 .. Len(q) - 1
  /\ \A j \in 1 .. Len(q) - 1 : r[j] = IF j < i THEN q[j] ELSE q[j + 1]

\* A sequence without the element at a place.
LEMMA TakenOut ==
  ASSUME NEW S, NEW q \in Seq(S), NEW i \in 1 .. Len(q), NEW r, r = RemoveAt(q, i)
  PROVE  r \in Seq(S) /\ Without(r, q, i)
<1> DEFINE lo == SubSeq(q, 1, i - 1)
<1> DEFINE hi == SubSeq(q, i + 1, Len(q))
<1>1. i \in Int /\ 1 <= i /\ i <= Len(q) /\ Len(q) \in Nat
  OBVIOUS
<1>2. /\ lo \in Seq(S) /\ Len(lo) = i - 1 /\ \A j \in 1 .. i - 1 : lo[j] = q[j]
  BY <1>1
<1>3. /\ hi \in Seq(S) /\ Len(hi) = Len(q) - i
      /\ \A j \in 1 .. Len(q) - i : hi[j] = q[i + j]
  BY <1>1
<1> HIDE DEF lo, hi
<1>5. r = lo \o hi
  BY DEF RemoveAt, lo, hi
<1>4. /\ r \in Seq(S) /\ Len(r) = Len(q) - 1
      /\ \A j \in 1 .. i - 1 : r[j] = lo[j]
      /\ \A j \in i .. Len(q) - 1 : r[j] = hi[j - (i - 1)]
  <2>1. /\ lo \o hi \in Seq(S) /\ Len(lo \o hi) = Len(lo) + Len(hi)
        /\ \A j \in 1 .. Len(lo) + Len(hi) :
             (lo \o hi)[j] = IF j <= Len(lo) THEN lo[j] ELSE hi[j - Len(lo)]
    BY <1>2, <1>3, ConcatProperties
  <2> QED BY SMTT(40), <1>1, <1>2, <1>3, <1>5, <2>1
<1>6. ASSUME NEW j \in 1 .. Len(q) - 1 PROVE r[j] = IF j < i THEN q[j] ELSE q[j + 1]
  <2>1. CASE j < i
    <3>1. j \in 1 .. i - 1
      BY <1>1, <2>1
    <3>2. r[j] = lo[j] /\ lo[j] = q[j]
      BY <1>2, <1>4, <3>1
    <3> QED BY <2>1, <3>2
  <2>2. CASE j >= i
    <3>1. j \in i .. Len(q) - 1 /\ j - (i - 1) \in 1 .. Len(q) - i /\ i + (j - (i - 1)) = j + 1
      BY <1>1, <2>2
    <3>2. r[j] = hi[j - (i - 1)] /\ hi[j - (i - 1)] = q[i + (j - (i - 1))]
      BY <1>3, <1>4, <3>1
    <3>3. r[j] = q[j + 1] /\ ~(j < i)
      BY <1>1, <2>2, <3>1, <3>2
    <3> QED BY <3>3
  <2> QED BY <1>1, <2>1, <2>2
<1>7. DOMAIN r = 1 .. Len(q) - 1
  BY <1>1, <1>4
<1> QED BY <1>4, <1>6, <1>7 DEF Without

----------------------------------------------------------------------------
\* enqueue puts the entry at a place with no smaller key before it and a smaller key at it.
LEMMA EnqueuePlace ==
  ASSUME NEW P, NEW q \in Seq(Entries(P)), NEW p \in P, NEW k \in Int, NEW c \in Nat, Len(q) < c
  PROVE  \E i \in 1 .. Len(q) + 1 :
           /\ Enqueue(q, p, k, c) = InsertAt(q, i, [pid |-> p, key |-> k])
           /\ \A j \in 1 .. Len(q) : j < i => q[j].key >= k
           /\ i <= Len(q) => q[i].key < k
<1>1. Len(q) \in Nat /\ \A j \in 1 .. Len(q) : q[j].key \in Int
  <2>1. \A j \in 1 .. Len(q) : q[j] \in Entries(P)
    OBVIOUS
  <2> QED BY <2>1 DEF Entries
<1> DEFINE I == {i \in 1 .. Len(q) : q[i].key < k}
<1> DEFINE at == IF I # {} THEN Min(I) ELSE 0
<1> DEFINE i == IF at = 0 THEN Len(q) + 1 ELSE at
<1> PICK place : place = i
  OBVIOUS
<1> PICK r : r = Enqueue(q, p, k, c)
  OBVIOUS
<1> PICK e : e = [pid |-> p, key |-> k]
  OBVIOUS
<1>2. r = InsertAt(q, place, e)
  BY <1>1 DEF Enqueue, SelectInSeq
<1>3. CASE I = {}
  <2>1. place = Len(q) + 1
    BY <1>3
  <2>2. \A j \in 1 .. Len(q) : q[j].key >= k
    BY <1>1, <1>3
  <2>3. Len(q) + 1 \in 1 .. Len(q) + 1 /\ ~(Len(q) + 1 <= Len(q))
    BY <1>1
  <2> QED BY <1>2, <2>1, <2>2, <2>3
<1>4. CASE I # {}
  <2>1. PICK x : x = Min(I)
    OBVIOUS
  <2>2. x \in I /\ \A y \in I : x <= y
    <3> PICK J : J = I
      OBVIOUS
    <3>1. J \subseteq Nat /\ J # {} /\ x = Min(J)
      BY <1>1, <1>4, <2>1
    <3>2. x \in J /\ \A y \in J : x <= y
      BY ONLY <3>1, LeastMember
    <3> QED BY <3>2
  <2>3. place = x
    BY <1>1, <1>4, <2>1, <2>2
  <2>4. ASSUME NEW j \in 1 .. Len(q), j < x PROVE q[j].key >= k
    <3>1. j \notin I /\ q[j].key \in Int
      BY <1>1, <2>2, <2>4
    <3> QED BY <3>1
  <2>5. x \in 1 .. Len(q) /\ q[x].key < k
    BY <2>2
  <2>6. x \in 1 .. Len(q) + 1
    BY <1>1, <2>5
  <2>7. r = InsertAt(q, x, e)
    BY ONLY <1>2, <2>3
  <2> QED BY <2>4, <2>5, <2>6, <2>7
<1> QED BY <1>3, <1>4

\* The processes on the queue afterwards, each once.
LEMMA EnqueuePids ==
  ASSUME NEW P, NEW q \in Seq(Entries(P)), NEW p \in P, NEW k \in Int, NEW c \in Nat, Len(q) < c,
         OnceEach(q), p \notin PidsOf(q)
  PROVE  LET r == Enqueue(q, p, k, c)
         IN  /\ r \in Seq(Entries(P)) /\ Len(r) = Len(q) + 1
             /\ OnceEach(r) /\ PidsOf(r) = PidsOf(q) \union {p}
<1> PICK e : e = [pid |-> p, key |-> k]
  OBVIOUS
<1> PICK r : r = Enqueue(q, p, k, c)
  OBVIOUS
<1>1. PICK i \in 1 .. Len(q) + 1 : r = InsertAt(q, i, e)
  BY EnqueuePlace
<1>2. e \in Entries(P) /\ e.pid = p /\ Len(q) \in Nat /\ DOMAIN q = 1 .. Len(q)
  BY DEF Entries
<1>3. /\ r \in Seq(Entries(P)) /\ Len(r) = Len(q) + 1 /\ DOMAIN r = 1 .. Len(q) + 1
      /\ r[i] = e
      /\ \A j \in 1 .. Len(q) : j < i => r[j] = q[j]
      /\ \A j \in 1 .. Len(q) : j >= i => r[j + 1] = q[j]
  <2> PICK A : A = Entries(P)
    OBVIOUS
  <2>1. q \in Seq(A) /\ e \in A
    BY <1>2
  <2>2. /\ r \in Seq(A) /\ Len(r) = Len(q) + 1 /\ DOMAIN r = 1 .. Len(q) + 1
        /\ r[i] = e
        /\ \A j \in 1 .. Len(q) : j < i => r[j] = q[j]
        /\ \A j \in 1 .. Len(q) : j >= i => r[j + 1] = q[j]
    BY ONLY SMTT(40), <1>1, <2>1, i \in 1 .. Len(q) + 1, Inserted
  <2> QED BY <2>2
<1>4. \A x \in 1 .. Len(q) + 1 :
        \/ x = i
        \/ \E j \in 1 .. Len(q) : r[x] = q[j] /\ j = IF x < i THEN x ELSE x - 1
  <2> TAKE x \in 1 .. Len(q) + 1
  <2>1. CASE x < i
    BY <1>2, <1>3, <2>1
  <2>2. CASE x > i
    <3>1. x - 1 \in 1 .. Len(q) /\ x - 1 >= i /\ (x - 1) + 1 = x /\ ~(x < i)
      BY <1>2, <2>2
    <3>2. r[x] = q[x - 1]
      BY <1>3, <3>1
    <3> QED BY <3>1, <3>2
  <2> QED BY <2>1, <2>2
<1>5. \A j \in 1 .. Len(q) : q[j].pid # p
  BY <1>2 DEF PidsOf
<1>6. OnceEach(r)
  <2> SUFFICES ASSUME NEW x \in 1 .. Len(q) + 1, NEW y \in 1 .. Len(q) + 1, r[x].pid = r[y].pid
               PROVE  x = y
    BY <1>3 DEF OnceEach
  <2>1. CASE x = i \/ y = i
    BY <1>2, <1>3, <1>4, <1>5, <2>1
  <2>2. CASE x # i /\ y # i
    <3>1. PICK j \in 1 .. Len(q) : r[x] = q[j] /\ j = IF x < i THEN x ELSE x - 1
      BY <1>4, <2>2
    <3>2. PICK m \in 1 .. Len(q) : r[y] = q[m] /\ m = IF y < i THEN y ELSE y - 1
      BY <1>4, <2>2
    <3>3. j = m
      BY <1>2, <3>1, <3>2 DEF OnceEach
    <3> QED BY <2>2, <3>1, <3>2, <3>3
  <2> QED BY <2>1, <2>2
<1>7. ASSUME NEW v PROVE v \in PidsOf(r) <=> v \in PidsOf(q) \union {p}
  <2>1. ASSUME v \in PidsOf(r) PROVE v \in PidsOf(q) \union {p}
    <3>1. PICK x \in 1 .. Len(q) + 1 : v = r[x].pid
      BY <1>3, <2>1 DEF PidsOf
    <3> QED BY <1>2, <1>3, <1>4, <3>1 DEF PidsOf
  <2>2. ASSUME v \in PidsOf(q) PROVE v \in PidsOf(r)
    <3>1. PICK j \in 1 .. Len(q) : v = q[j].pid
      BY <1>2, <2>2 DEF PidsOf
    <3>2. r[j] = q[j] \/ r[j + 1] = q[j]
      BY <1>3
    <3>3. j \in DOMAIN r /\ j + 1 \in DOMAIN r
      BY <1>2, <1>3
    <3> QED BY <3>1, <3>2, <3>3 DEF PidsOf
  <2>3. p \in PidsOf(r)
    BY <1>2, <1>3 DEF PidsOf
  <2> QED BY <2>1, <2>2, <2>3
<1>8. PidsOf(r) = PidsOf(q) \union {p}
  BY <1>7
<1> QED BY <1>3, <1>6, <1>8

\* Their keys stay in order, and every entry behind the new one has a smaller key.
LEMMA EnqueueOrder ==
  ASSUME NEW P, NEW q \in Seq(Entries(P)), NEW p \in P, NEW k \in Int, NEW c \in Nat, Len(q) < c,
         Sorted(q), NEW r, r = Enqueue(q, p, k, c)
  PROVE  /\ Sorted(r)
         /\ \E i \in DOMAIN r : /\ r[i] = [pid |-> p, key |-> k]
                                /\ \A j \in DOMAIN r : j > i => r[j].key < k
                                /\ \A j \in DOMAIN r : j # i => \E x \in DOMAIN q : r[j] = q[x]
<1> PICK e : e = [pid |-> p, key |-> k]
  OBVIOUS
<1>1. PICK i \in 1 .. Len(q) + 1 : /\ r = InsertAt(q, i, e)
                                   /\ \A j \in 1 .. Len(q) : j < i => q[j].key >= k
                                   /\ i <= Len(q) => q[i].key < k
  BY EnqueuePlace
<1> PICK A : A = Entries(P)
  OBVIOUS
<1>0. q \in Seq(A) /\ e \in A /\ r = InsertAt(q, i, e)
  BY <1>1 DEF Entries
<1>2. /\ e.key = k /\ Len(q) \in Nat /\ DOMAIN q = 1 .. Len(q) /\ i \in Int
      /\ \A j \in 1 .. Len(q) : q[j].key \in Int
  <2>1. \A j \in 1 .. Len(q) : q[j] \in Entries(P)
    OBVIOUS
  <2> QED BY <2>1 DEF Entries
<1>3. /\ r \in Seq(A) /\ Len(r) = Len(q) + 1 /\ DOMAIN r = 1 .. Len(q) + 1
      /\ r[i] = e
      /\ \A j \in 1 .. Len(q) : j < i => r[j] = q[j]
      /\ \A j \in 1 .. Len(q) : j >= i => r[j + 1] = q[j]
  BY ONLY <1>0, i \in 1 .. Len(q) + 1, Inserted
<1>s. \A x, y \in 1 .. Len(q) : x < y => q[x].key >= q[y].key
  BY <1>2 DEF Sorted
<1>4. \A j \in 1 .. Len(q) : j >= i => q[j].key < k
  <2> SUFFICES ASSUME NEW j \in 1 .. Len(q), j >= i PROVE q[j].key < k
    OBVIOUS
  <2>1. i \in 1 .. Len(q) /\ q[i].key < k
    BY <1>1, <1>2
  <2>2. i = j \/ q[i].key >= q[j].key
    BY <1>s, <1>2, <2>1
  <2> QED BY <1>2, <2>1, <2>2
<1>5. \A x \in 1 .. Len(q) + 1 :
        /\ x < i => x \in 1 .. Len(q) /\ r[x] = q[x]
        /\ x > i => x - 1 \in 1 .. Len(q) /\ x - 1 >= i /\ r[x] = q[x - 1]
  <2> TAKE x \in 1 .. Len(q) + 1
  <2>1. x < i => x \in 1 .. Len(q) /\ r[x] = q[x]
    BY <1>2, <1>3
  <2>2. x > i => x - 1 \in 1 .. Len(q) /\ x - 1 >= i /\ (x - 1) + 1 = x
    BY <1>2
  <2>3. x > i => r[x] = q[x - 1]
    BY <1>3, <2>2
  <2> QED BY <2>1, <2>2, <2>3
<1>6. Sorted(r)
  <2> SUFFICES ASSUME NEW x \in 1 .. Len(q) + 1, NEW y \in 1 .. Len(q) + 1, x < y
               PROVE  r[x].key >= r[y].key
    BY <1>3 DEF Sorted
  <2>0. /\ x < i => x \in 1 .. Len(q) /\ r[x] = q[x]
        /\ x > i => x - 1 \in 1 .. Len(q) /\ x - 1 >= i /\ r[x] = q[x - 1]
        /\ y < i => y \in 1 .. Len(q) /\ r[y] = q[y]
        /\ y > i => y - 1 \in 1 .. Len(q) /\ y - 1 >= i /\ r[y] = q[y - 1]
    BY <1>5
  <2>1. CASE y < i
    BY <1>2, <1>s, <2>0, <2>1
  <2>2. CASE y = i
    <3>1. q[x].key >= k
      BY <1>1, <1>2, <2>0, <2>2
    <3> QED BY <1>2, <1>3, <2>0, <2>2, <3>1
  <2>3. CASE y > i /\ x = i
    <3>1. q[y - 1].key < k /\ q[y - 1].key \in Int
      BY <1>2, <1>4, <2>0, <2>3
    <3> QED BY <1>2, <1>3, <2>0, <2>3, <3>1
  <2>4. CASE y > i /\ x < i
    <3>1. x < y - 1
      BY <1>2, <2>0, <2>4
    <3> QED BY <1>s, <2>0, <2>4, <3>1
  <2>5. CASE y > i /\ x > i
    <3>1. x - 1 < y - 1
      BY <1>2
    <3> QED BY <1>s, <2>0, <2>5, <3>1
  <2> QED BY <1>2, <2>1, <2>2, <2>3, <2>4, <2>5
<1>7. \A j \in DOMAIN r : j > i => r[j].key < k
  BY <1>3, <1>4, <1>5
<1>8. \A j \in DOMAIN r : j # i => \E x \in DOMAIN q : r[j] = q[x]
  <2> SUFFICES ASSUME NEW j \in 1 .. Len(q) + 1, j # i PROVE \E x \in 1 .. Len(q) : r[j] = q[x]
    BY <1>2, <1>3
  <2>1. j < i \/ j > i
    BY <1>2
  <2> QED BY <1>5, <2>1
<1> QED BY SMTT(40), <1>3, <1>6, <1>7, <1>8

\* A queue of which all keys are the same is first in, first out.
LEMMA EnqueueLast ==
  ASSUME NEW P, NEW q \in Seq(Entries(P)), NEW p \in P, NEW k \in Int, NEW c \in Nat, Len(q) < c,
         \A j \in DOMAIN q : q[j].key = k
  PROVE  Enqueue(q, p, k, c) = Append(q, [pid |-> p, key |-> k])
<1> PICK e : e = [pid |-> p, key |-> k]
  OBVIOUS
<1>1. PICK i \in 1 .. Len(q) + 1 : /\ Enqueue(q, p, k, c) = InsertAt(q, i, e)
                                   /\ i <= Len(q) => q[i].key < k
  BY EnqueuePlace
<1> PICK A : A = Entries(P)
  OBVIOUS
<1>0. q \in Seq(A) /\ e \in A
  BY DEF Entries
<1>2. Len(q) \in Nat /\ DOMAIN q = 1 .. Len(q)
  OBVIOUS
<1>3. i = Len(q) + 1
  BY <1>1, <1>2
<1> PICK r : r = InsertAt(q, i, e)
  OBVIOUS
<1>4. /\ r \in Seq(A) /\ Len(r) = Len(q) + 1
      /\ r[i] = e
      /\ \A j \in 1 .. Len(q) : j < i => r[j] = q[j]
  BY ONLY r = InsertAt(q, i, e), <1>0, i \in 1 .. Len(q) + 1, Inserted
<1>5. /\ Append(q, e) \in Seq(A) /\ Len(Append(q, e)) = Len(q) + 1
      /\ \A j \in 1 .. Len(q) : Append(q, e)[j] = q[j]
      /\ Append(q, e)[Len(q) + 1] = e
  BY ONLY <1>0, AppendProperties
<1>6. \A j \in 1 .. Len(r) : r[j] = Append(q, e)[j]
  BY <1>2, <1>3, <1>4, <1>5
<1>7. r = Append(q, e)
  BY ONLY <1>4, <1>5, <1>6, SeqEqual
<1> QED BY <1>1, <1>7

----------------------------------------------------------------------------
\* r is q one place further on.
Behind(r, q) == \A j \in DOMAIN r : j + 1 \in DOMAIN q /\ r[j] = q[j + 1]

\* The rest of a queue when its head has been taken.
LEMMA WithoutHead ==
  ASSUME NEW P, NEW q \in Seq(Entries(P)), q # <<>>, OnceEach(q), NEW r, r = Tail(q)
  PROVE  /\ r \in Seq(Entries(P)) /\ Len(r) = Len(q) - 1
         /\ Head(q) = q[1] /\ 1 \in DOMAIN q /\ Head(q) \in Entries(P)
         /\ Behind(r, q)
         /\ OnceEach(r) /\ PidsOf(r) = PidsOf(q) \ {Head(q).pid} /\ Head(q).pid \in PidsOf(q)
         /\ Sorted(q) => Sorted(r)
<1>1. /\ Len(q) \in Nat /\ Len(q) > 0 /\ DOMAIN q = 1 .. Len(q) /\ Head(q) = q[1]
      /\ r \in Seq(Entries(P)) /\ Len(r) = Len(q) - 1 /\ DOMAIN r = 1 .. Len(q) - 1
      /\ \A j \in 1 .. Len(q) - 1 : r[j] = q[j + 1]
  <2>1. /\ Head(q) \in Entries(P) /\ Tail(q) \in Seq(Entries(P)) /\ Len(Tail(q)) = Len(q) - 1
        /\ \A j \in 1 .. Len(Tail(q)) : Tail(q)[j] = q[j + 1]
    BY HeadTailProperties
  <2>2. Len(q) \in Nat /\ Len(q) > 0 /\ DOMAIN q = 1 .. Len(q) /\ Head(q) = q[1]
    OBVIOUS
  <2> QED BY <2>1, <2>2
<1>2. \A j \in 1 .. Len(q) - 1 : j + 1 \in 1 .. Len(q)
  BY <1>1
<1>3. OnceEach(r)
  BY <1>1, <1>2 DEF OnceEach
<1>4. Sorted(q) => Sorted(r)
  <2> SUFFICES ASSUME Sorted(q), NEW x \in 1 .. Len(q) - 1, NEW y \in 1 .. Len(q) - 1, x < y
               PROVE  r[x].key >= r[y].key
    BY <1>1 DEF Sorted
  <2>1. x + 1 \in DOMAIN q /\ y + 1 \in DOMAIN q /\ x + 1 < y + 1
    BY <1>1, <1>2
  <2> QED BY <1>1, <2>1 DEF Sorted
<1>5. ASSUME NEW v PROVE v \in PidsOf(r) <=> v \in PidsOf(q) \ {Head(q).pid}
  <2>1. ASSUME v \in PidsOf(r) PROVE v \in PidsOf(q) \ {Head(q).pid}
    <3>1. PICK j \in 1 .. Len(q) - 1 : v = q[j + 1].pid
      BY <1>1, <2>1 DEF PidsOf
    <3>2. j + 1 \in DOMAIN q /\ 1 \in DOMAIN q /\ j + 1 # 1
      BY <1>1
    <3> QED BY <1>1, <3>1, <3>2 DEF PidsOf, OnceEach
  <2>2. ASSUME v \in PidsOf(q) \ {Head(q).pid} PROVE v \in PidsOf(r)
    <3>1. PICK j \in 1 .. Len(q) : v = q[j].pid
      BY <1>1, <2>2 DEF PidsOf
    <3>2. j # 1
      BY <1>1, <2>2, <3>1
    <3>3. j - 1 \in 1 .. Len(q) - 1 /\ (j - 1) + 1 = j
      BY <1>1, <3>2
    <3>4. r[j - 1] = q[j]
      BY <1>1, <3>3
    <3> QED BY <1>1, <3>1, <3>3, <3>4 DEF PidsOf
  <2> QED BY <2>1, <2>2
<1>6. PidsOf(r) = PidsOf(q) \ {Head(q).pid}
  BY <1>5
<1>7. Head(q) \in Entries(P) /\ Head(q).pid \in PidsOf(q) /\ 1 \in DOMAIN q
  BY <1>1 DEF PidsOf
<1>8. Behind(r, q)
  BY <1>1, <1>2 DEF Behind
<1> QED BY <1>1, <1>3, <1>4, <1>6, <1>7, <1>8

\* remove leaves everybody else where they were.
LEMMA RemovedFacts ==
  ASSUME NEW P, NEW q \in Seq(Entries(P)), NEW p, OnceEach(q), NEW r, r = Removed(q, p)
  PROVE  /\ r \in Seq(Entries(P)) /\ Len(r) <= Len(q)
         /\ OnceEach(r) /\ PidsOf(r) = PidsOf(q) \ {p}
         /\ Sorted(q) => Sorted(r)
         /\ \A j \in DOMAIN r : \E x \in DOMAIN q : r[j] = q[x]
<1> DEFINE I == {i \in 1 .. Len(q) : q[i].pid = p}
<1>1. Len(q) \in Nat /\ DOMAIN q = 1 .. Len(q)
  OBVIOUS
<1>2. CASE I = {}
  <2>1. r = q
    BY <1>2 DEF Removed, RemoveFirstMatch
  <2>2. p \notin PidsOf(q)
    BY <1>1, <1>2 DEF PidsOf
  <2> QED BY <1>1, <2>1, <2>2
<1>3. CASE I # {}
  <2>0. PICK i : i = Min(I)
    OBVIOUS
  <2>1. i \in I
    BY SMTT(40), <1>1, <1>3, <2>0, LeastMember
  <2>2. r = RemoveAt(q, i)
    BY <1>3, <2>0 DEF Removed, RemoveFirstMatch, SelectInSeq
  <2> HIDE DEF I
  <2>3. i \in 1 .. Len(q) /\ q[i].pid = p
    BY <2>1 DEF I
  <2> PICK A : A = Entries(P)
    OBVIOUS
  <2>13. i \in 1 .. Len(q)
    BY <2>3
  <2>14. q \in Seq(A)
    OBVIOUS
  <2>15. r \in Seq(A) /\ Without(r, q, i)
    BY ONLY <2>2, <2>13, <2>14, TakenOut
  <2>4. /\ r \in Seq(A) /\ Len(r) = Len(q) - 1 /\ DOMAIN r = 1 .. Len(q) - 1
        /\ \A j \in 1 .. Len(q) - 1 : r[j] = IF j < i THEN q[j] ELSE q[j + 1]
    BY <2>15 DEF Without
  <2> DEFINE at(j) == IF j < i THEN j ELSE j + 1
  <2>5. \A j \in 1 .. Len(q) - 1 : at(j) \in 1 .. Len(q) /\ at(j) # i /\ r[j] = q[at(j)]
    BY <1>1, <2>3, <2>4
  <2>6. \A j, m \in 1 .. Len(q) - 1 : (at(j) = at(m) => j = m) /\ (j < m => at(j) < at(m))
    BY <1>1, <2>3
  <2>7. \A x \in 1 .. Len(q) : x # i => \E j \in 1 .. Len(q) - 1 : x = at(j)
    <3> TAKE x \in 1 .. Len(q)
    <3> HAVE x # i
    <3>1. CASE x < i
      <4>1. x \in 1 .. Len(q) - 1 /\ x = at(x)
        BY <1>1, <2>3, <3>1
      <4> QED BY <4>1
    <3>2. CASE x > i
      <4>1. x - 1 \in 1 .. Len(q) - 1 /\ x = at(x - 1)
        BY <1>1, <2>3, <3>2
      <4> QED BY <4>1
    <3> QED BY <2>3, <3>1, <3>2
  <2> HIDE DEF at
  <2>8. OnceEach(r)
    BY <1>1, <2>4, <2>5, <2>6 DEF OnceEach
  <2>9. Sorted(q) => Sorted(r)
    <3> SUFFICES ASSUME Sorted(q), NEW x \in 1 .. Len(q) - 1, NEW y \in 1 .. Len(q) - 1, x < y
                 PROVE  r[x].key >= r[y].key
      BY <2>4 DEF Sorted
    <3>1. at(x) \in DOMAIN q /\ at(y) \in DOMAIN q /\ at(x) < at(y)
      BY <1>1, <2>5, <2>6
    <3> QED BY <2>5, <3>1 DEF Sorted
  <2>10. ASSUME NEW v PROVE v \in PidsOf(r) <=> v \in PidsOf(q) \ {p}
    <3>1. ASSUME v \in PidsOf(r) PROVE v \in PidsOf(q) \ {p}
      <4>1. PICK j \in 1 .. Len(q) - 1 : v = q[at(j)].pid
        BY <2>4, <2>5, <3>1 DEF PidsOf
      <4> QED BY <1>1, <2>3, <2>5, <4>1 DEF PidsOf, OnceEach
    <3>2. ASSUME v \in PidsOf(q) \ {p} PROVE v \in PidsOf(r)
      <4>1. PICK x \in 1 .. Len(q) : v = q[x].pid
        BY <1>1, <3>2 DEF PidsOf
      <4>2. x # i
        BY <2>3, <3>2, <4>1
      <4>3. PICK j \in 1 .. Len(q) - 1 : x = at(j)
        BY <2>7, <4>2
      <4> QED BY <2>4, <2>5, <4>1, <4>3 DEF PidsOf
    <3> QED BY <3>1, <3>2
  <2>11. PidsOf(r) = PidsOf(q) \ {p}
    BY <2>10
  <2>12. \A j \in DOMAIN r : \E x \in DOMAIN q : r[j] = q[x]
    BY <1>1, <2>4, <2>5
  <2> QED BY <1>1, <2>4, <2>8, <2>9, <2>11, <2>12
<1> QED BY <1>2, <1>3

----------------------------------------------------------------------------
\* On a queue without repetitions a process occurs once or not at all.
LEMMA OccurrencesOnce ==
  ASSUME NEW P, NEW q \in Seq(Entries(P)), OnceEach(q), NEW p
  PROVE  Occurrences(q, p) = IF p \in PidsOf(q) THEN 1 ELSE 0
<1> DEFINE I == {i \in DOMAIN q : q[i].pid = p}
<1>1. Occurrences(q, p) = Cardinality(I)
  BY DEF Occurrences
<1>2. CASE p \in PidsOf(q)
  <2>1. PICK i \in DOMAIN q : q[i].pid = p
    BY <1>2 DEF PidsOf
  <2>2. I = {i}
    BY <2>1 DEF OnceEach
  <2> QED BY <1>1, <1>2, <2>2, FS_Singleton
<1>3. CASE p \notin PidsOf(q)
  <2>1. I = {}
    BY <1>3 DEF PidsOf
  <2> QED BY <1>1, <1>3, <2>1, FS_EmptySet
<1> QED BY <1>2, <1>3

\* It is as long as there are processes on it.
LEMMA LengthOfQueue ==
  ASSUME NEW P, NEW q \in Seq(Entries(P)), OnceEach(q)
  PROVE  IsFiniteSet(PidsOf(q)) /\ Cardinality(PidsOf(q)) = Len(q)
<1> PICK n : n = Len(q)
  OBVIOUS
<1>0. n \in Nat
  OBVIOUS
<1>1. DOMAIN q = 1 .. n
  OBVIOUS
<1>2. IsFiniteSet(1 .. n) /\ Cardinality(1 .. n) = n
  <2>1. IsFiniteSet(1 .. n) /\ Cardinality(1 .. n) = IF 1 > n THEN 0 ELSE n - 1 + 1
    BY ONLY <1>0, FS_Interval
  <2> QED BY ONLY <1>0, <2>1
<1> DEFINE f == [i \in 1 .. n |-> q[i].pid]
<1>3. f \in [1 .. n -> PidsOf(q)]
  BY <1>1 DEF PidsOf
<1>4. \A v \in PidsOf(q) : \E i \in 1 .. n : f[i] = v
  BY <1>1 DEF PidsOf
<1>5. \A i, j \in 1 .. n : f[i] = f[j] => i = j
  BY <1>1 DEF OnceEach
<1> HIDE DEF f
<1>6. f \in Surjection(1 .. n, PidsOf(q)) /\ f \in Injection(1 .. n, PidsOf(q))
  BY <1>3, <1>4, <1>5 DEF Surjection, Injection, IsInjective
<1> PICK T : T = PidsOf(q)
  OBVIOUS
<1> PICK S : S = 1 .. n
  OBVIOUS
<1>7. IsFiniteSet(T) /\ (Cardinality(T) = Cardinality(S) <=> f \in Injection(S, T))
  BY ONLY <1>2, <1>6, S = 1 .. n, T = PidsOf(q), FS_Surjection
<1> QED BY <1>2, <1>6, <1>7

\* A queue without repetitions that leaves somebody out is not full.
LEMMA RoomForAnother ==
  ASSUME NEW n \in Nat, NEW P, P = 0 .. n - 1, NEW q \in Seq(Entries(P)), OnceEach(q)
  PROVE  Len(q) <= n /\ \A p \in P \ PidsOf(q) : Len(q) < n
<1>1. IsFiniteSet(PidsOf(q)) /\ Cardinality(PidsOf(q)) = Len(q) /\ PidsOf(q) \subseteq P
  <2>1. \A i \in DOMAIN q : q[i] \in Entries(P)
    OBVIOUS
  <2> QED BY <2>1, LengthOfQueue DEF PidsOf, Entries
<1>2. IsFiniteSet(P) /\ Cardinality(P) = n
  BY FS_Interval
<1>3. Len(q) \in Nat
  OBVIOUS
<1>4. Len(q) <= n /\ (Len(q) = n => PidsOf(q) = P)
  <2> PICK T : T = PidsOf(q)
    OBVIOUS
  <2>1. Cardinality(T) <= Cardinality(P) /\ (Cardinality(P) = Cardinality(T) => P = T)
    BY ONLY <1>1, <1>2, T = PidsOf(q), FS_Subset
  <2> QED BY <1>1, <1>2, <2>1
<1> QED BY <1>3, <1>4

----------------------------------------------------------------------------
PrState  == {"FREE", "CURR", "READY", "SUSP", "WAIT"}
Runnable == {"CURR", "READY"}

\* The ready queue holds the READY processes, once each; nobody is current but cur,
\* who may have left that state already, and the null process can always run.
Balanced(st, rq, cur) ==
  /\ st \in [Pid -> PrState] /\ cur \in Pid
  /\ rq \in Seq(Entries(Pid)) /\ OnceEach(rq)
  /\ PidsOf(rq) = {p \in Pid : st[p] = "READY"}
  /\ \A p \in Pid : st[p] = "CURR" => p = cur
  /\ st[NULLPROC] \in Runnable

\* From the states a to the states b, only the runnable processes changed, among
\* themselves.
SwitchOnly(a, b) ==
  \A p \in Pid : /\ a[p] \in Runnable <=> b[p] \in Runnable
                 /\ a[p] \notin Runnable => b[p] = a[p]

\* The processes there are.
Live(st) == {p \in Pid : st[p] # "FREE"}

\* The process table, the ready queue and the count of processes in step.
SchedInv ==
  /\ Balanced(prstate, readyqueue, currpid) /\ prstate[currpid] = "CURR"
  /\ prprio \in [Pid -> MinPrio .. MaxPrio]
  /\ Defer \in [ndefers : 0 .. 1, attempt : BOOLEAN]
  /\ cpu \in {"up", "halted"} /\ nextpid \in Pid
  /\ prcount \in 0 .. NPROC /\ (cpu = "up" => prcount = Cardinality(Live(prstate)))

----------------------------------------------------------------------------
\* The process table as a set.
LEMMA PidFacts ==
  /\ NULLPROC \in Pid /\ User \subseteq Pid /\ Pid \subseteq Nat /\ 1 \in User
  /\ IsFiniteSet(Pid) /\ Cardinality(Pid) = NPROC
  /\ MinPrio \in Int /\ MaxPrio \in Int /\ MinPrio <= MaxPrio /\ 0 \in MinPrio .. MaxPrio
<1>1. NPROC \in Nat /\ NPROC > 1
  BY SchedAssumption
<1>2. Pid = 0 .. NPROC - 1 /\ NULLPROC = 0 /\ User = Pid \ {0}
  BY DEF Pid, NULLPROC, User
<1>3. IsFiniteSet(Pid) /\ Cardinality(Pid) = NPROC
  BY <1>1, <1>2, FS_Interval
<1>4. MinPrio \in Int /\ MaxPrio \in Int /\ MinPrio <= MaxPrio /\ 0 \in MinPrio .. MaxPrio
  BY SchedAssumption DEF MinPrio, MaxPrio
<1> QED BY <1>1, <1>2, <1>3, <1>4

\* Arithmetic on a priority stays in its range, and is exact there.
LEMMA WrapFacts ==
  ASSUME NEW k \in Int
  PROVE  /\ Wrap(k) \in MinPrio .. MaxPrio
         /\ k \in MinPrio .. MaxPrio => Wrap(k) = k
<1>1. PRIOHALF \in Nat /\ PRIOHALF > 0
  BY SchedAssumption
<1>2. Wrap(k) = ((k + PRIOHALF) % (2 * PRIOHALF)) - PRIOHALF
  BY <1>1 DEF Wrap, MinPrio
<1>3. (k + PRIOHALF) % (2 * PRIOHALF) \in 0 .. 2 * PRIOHALF - 1
  BY <1>1
<1>4. k \in MinPrio .. MaxPrio => (k + PRIOHALF) % (2 * PRIOHALF) = k + PRIOHALF
  BY <1>1 DEF MinPrio, MaxPrio
<1> QED BY <1>1, <1>2, <1>3, <1>4 DEF MinPrio, MaxPrio

\* A process that is not on a balanced ready queue finds room there.
LEMMA RoomToReady ==
  ASSUME NEW st, NEW rq, NEW cur, Balanced(st, rq, cur)
  PROVE  Len(rq) <= NPROC /\ \A p \in Pid : st[p] # "READY" => Len(rq) < NPROC
<1>1. NPROC \in Nat /\ Pid = 0 .. NPROC - 1
  BY SchedAssumption DEF Pid
<1>2. rq \in Seq(Entries(Pid)) /\ OnceEach(rq)
  BY DEF Balanced
<1>3. Len(rq) <= NPROC /\ \A p \in Pid \ PidsOf(rq) : Len(rq) < NPROC
  BY ONLY <1>1, <1>2, RoomForAnother
<1> QED BY <1>3 DEF Balanced

\* ready moves a live process that is not yet READY to the ready queue.
LEMMA ReadiedBalanced ==
  ASSUME NEW s, NEW cur, Balanced(s.st, s.rq, cur), NEW p \in Pid,
         s.st[p] \notin {"FREE", "READY"}, prprio \in [Pid -> Int],
         NEW r, r = Readied(s, p)
  PROVE  /\ Balanced(r.st, r.rq, cur)
         /\ r.st = [s.st EXCEPT ![p] = "READY"]
         /\ r.rq = Enqueue(s.rq, p, prprio[p], NPROC)
<1>1. /\ r.st = [s.st EXCEPT ![p] = "READY"]
      /\ r.rq = Enqueue(s.rq, p, prprio[p], NPROC)
  BY DEF Readied
<1>2. /\ NPROC \in Nat /\ s.rq \in Seq(Entries(Pid)) /\ Len(s.rq) < NPROC
      /\ OnceEach(s.rq) /\ p \notin PidsOf(s.rq) /\ prprio[p] \in Int
  BY RoomToReady, SchedAssumption DEF Balanced
<1>3. /\ r.rq \in Seq(Entries(Pid)) /\ OnceEach(r.rq)
      /\ PidsOf(r.rq) = PidsOf(s.rq) \union {p}
  BY ONLY <1>1, <1>2, p \in Pid, EnqueuePids
<1>4. PidsOf(r.rq) = {x \in Pid : r.st[x] = "READY"}
  BY <1>1, <1>3 DEF Balanced
<1>5. /\ r.st \in [Pid -> PrState] /\ r.st[NULLPROC] \in Runnable
      /\ \A x \in Pid : r.st[x] = "CURR" => x = cur
  BY <1>1, PidFacts DEF Balanced, PrState, Runnable
<1> QED BY <1>1, <1>3, <1>4, <1>5 DEF Balanced

\* The keys are the priorities, and in descending order.
Ordered(q) == Sorted(q) /\ KeyedBy(q, prprio)

\* It keeps the order, and puts the process before every one with a smaller key.
LEMMA ReadiedOrdered ==
  ASSUME NEW s, NEW cur, Balanced(s.st, s.rq, cur), NEW p \in Pid,
         s.st[p] \notin {"FREE", "READY"}, prprio \in [Pid -> Int],
         NEW r, r = Readied(s, p), Ordered(s.rq)
  PROVE  /\ Ordered(r.rq)
         /\ \A i, j \in DOMAIN r.rq : r.rq[i].pid = p /\ j > i => r.rq[j].key < prprio[p]
<1> PICK q : q = s.rq
  OBVIOUS
<1> PICK x : x = r.rq
  OBVIOUS
<1> PICK k : k = prprio[p]
  OBVIOUS
<1>1. /\ x = Enqueue(q, p, k, NPROC) /\ NPROC \in Nat /\ q \in Seq(Entries(Pid))
      /\ Len(q) < NPROC /\ k \in Int /\ Sorted(q)
  <2>1. x = Enqueue(q, p, k, NPROC)
    BY DEF Readied
  <2>2. NPROC \in Nat /\ Len(s.rq) < NPROC
    BY RoomToReady, SchedAssumption
  <2> QED BY <2>1, <2>2 DEF Balanced, Ordered
<1>2. /\ Sorted(x)
      /\ \E i \in DOMAIN x : /\ x[i] = [pid |-> p, key |-> k]
                             /\ \A j \in DOMAIN x : j > i => x[j].key < k
                             /\ \A j \in DOMAIN x : j # i => \E y \in DOMAIN q : x[j] = q[y]
  BY ONLY <1>1, p \in Pid, EnqueueOrder
<1>3. PICK i \in DOMAIN x : /\ x[i] = [pid |-> p, key |-> k]
                            /\ \A j \in DOMAIN x : j > i => x[j].key < k
                            /\ \A j \in DOMAIN x : j # i => \E y \in DOMAIN q : x[j] = q[y]
  BY <1>2
<1>4. x[i].pid = p /\ x[i].key = k
  BY <1>3
<1>5. KeyedBy(x, prprio)
  BY <1>3, <1>4 DEF KeyedBy, Ordered
<1>6. OnceEach(x)
  BY ZenonT(60), ReadiedBalanced DEF Balanced
<1>7. \A y, j \in DOMAIN x : x[y].pid = p /\ j > y => x[j].key < k
  BY <1>3, <1>4, <1>6 DEF OnceEach
<1> QED BY <1>2, <1>5, <1>7 DEF Ordered

\* f is what there is after each of the first m of pids has been made ready in turn.
Readying(f, a, pids, m) ==
  f = [k \in 0 .. m |-> IF k = 0 THEN a ELSE Readied(f[k - 1], pids[k])]

\* Processes can be made ready one after the other: the recursive function exists.
LEMMA ReadyingExists ==
  ASSUME NEW a, NEW pids, NEW m \in Nat
  PROVE  \E f : Readying(f, a, pids, m)
<1> DEFINE Exists(n) ==
      \E f : f = [k \in 0 .. n |-> IF k = 0 THEN a ELSE Readied(f[k - 1], pids[k])]
<1>1. Exists(0)
  <2> DEFINE g == [k \in 0 .. 0 |-> a]
  <2>1. g = [k \in 0 .. 0 |-> IF k = 0 THEN a ELSE Readied(g[k - 1], pids[k])]
    OBVIOUS
  <2> QED BY <2>1
<1>2. ASSUME NEW n \in 0 .. m - 1, Exists(n)
      PROVE  Exists(n + 1)
  <2>1. PICK h : h = [k \in 0 .. n |-> IF k = 0 THEN a ELSE Readied(h[k - 1], pids[k])]
    BY <1>2
  <2> DEFINE g == [k \in 0 .. n + 1 |-> IF k = n + 1 THEN Readied(h[n], pids[n + 1]) ELSE h[k]]
  <2>2. ASSUME NEW k \in 0 .. n + 1
        PROVE  g[k] = IF k = 0 THEN a ELSE Readied(g[k - 1], pids[k])
    <3>1. CASE k = n + 1
      <4>1. g[k] = Readied(h[n], pids[n + 1]) /\ g[n] = h[n]
        BY <3>1
      <4>2. n = k - 1 /\ k # 0
        BY <3>1
      <4> HIDE DEF g
      <4> QED BY <3>1, <4>1, <4>2
    <3>2. CASE k # n + 1
      <4>1. k \in 0 .. n /\ g[k] = h[k] /\ (k # 0 => g[k - 1] = h[k - 1])
        BY <3>2
      <4> HIDE DEF g
      <4> QED BY <2>1, <4>1
    <3> QED BY <3>1, <3>2
  <2>3. g = [k \in 0 .. n + 1 |-> g[k]]
    OBVIOUS
  <2> HIDE DEF g
  <2>4. g = [k \in 0 .. n + 1 |-> IF k = 0 THEN a ELSE Readied(g[k - 1], pids[k])]
    BY <2>2, <2>3
  <2> QED BY <2>4
<1> HIDE DEF Exists
<1> DEFINE T == {n \in 0 .. m : Exists(n)}
<1>3. 0 \in T /\ \A n \in 0 .. m - 1 : n \in T => n + 1 \in T
  BY <1>1, <1>2
<1> HIDE DEF T
<1>4. \A n \in 0 .. m : n \in T
  BY ONLY m \in Nat, <1>3, StepByStep
<1>5. Exists(m)
  BY <1>4 DEF T
<1> QED BY <1>5 DEF Exists, Readying

\* What they leave: those processes READY, the ready queue in step and in order.
LEMMA ReadiedInTurn ==
  ASSUME NEW a, NEW cur, Balanced(a.st, a.rq, cur), prprio \in [Pid -> Int],
         NEW m \in Nat, NEW pids,
         \A i \in 1 .. m : pids[i] \in Pid /\ a.st[pids[i]] = "WAIT",
         \A i, j \in 1 .. m : pids[i] = pids[j] => i = j,
         NEW f, Readying(f, a, pids, m)
  PROVE  /\ Balanced(f[m].st, f[m].rq, cur)
         /\ \A p \in Pid : f[m].st[p] = IF \E i \in 1 .. m : p = pids[i] THEN "READY" ELSE a.st[p]
         /\ Ordered(a.rq) => Ordered(f[m].rq)
<1> DEFINE Turn(k) ==
      /\ Balanced(f[k].st, f[k].rq, cur)
      /\ \A p \in Pid : f[k].st[p] = IF \E i \in 1 .. k : p = pids[i] THEN "READY" ELSE a.st[p]
      /\ Ordered(a.rq) => Ordered(f[k].rq)
<1>0. f = [k \in 0 .. m |-> IF k = 0 THEN a ELSE Readied(f[k - 1], pids[k])]
  BY DEF Readying
<1>1. Turn(0)
  <2>1. f[0] = a
    BY <1>0
  <2> QED BY <2>1
<1>2. ASSUME NEW n \in 0 .. m - 1, Turn(n)
      PROVE  Turn(n + 1)
  <2> PICK s, r, p : s = f[n] /\ r = f[n + 1] /\ p = pids[n + 1]
    OBVIOUS
  <2>1. r = Readied(s, p)
    <3>1. n + 1 \in 0 .. m /\ n + 1 # 0 /\ (n + 1) - 1 = n
      OBVIOUS
    <3>2. f[n + 1] = Readied(f[n], pids[n + 1])
      BY ONLY <1>0, <3>1
    <3> QED BY <3>2
  <2>2. /\ Balanced(s.st, s.rq, cur) /\ (Ordered(a.rq) => Ordered(s.rq))
        /\ \A x \in Pid : s.st[x] = IF \E i \in 1 .. n : x = pids[i] THEN "READY" ELSE a.st[x]
    BY <1>2
  <2>3. n + 1 \in 1 .. m /\ \A i \in 1 .. n : i \in 1 .. m /\ i # n + 1
    OBVIOUS
  <2>4. p \in Pid /\ a.st[p] = "WAIT" /\ ~\E i \in 1 .. n : p = pids[i]
    BY <2>3
  <2>5. s.st[p] = "WAIT"
    BY <2>2, <2>4
  <2>6. /\ Balanced(r.st, r.rq, cur) /\ r.st = [s.st EXCEPT ![p] = "READY"]
    BY ONLY <2>1, <2>2, <2>4, <2>5, prprio \in [Pid -> Int], ReadiedBalanced
  <2>7. Ordered(a.rq) => Ordered(r.rq)
    BY ONLY <2>1, <2>2, <2>4, <2>5, prprio \in [Pid -> Int], ReadiedOrdered
  <2>8. \A x \in Pid : r.st[x] = IF x = p THEN "READY" ELSE s.st[x]
    BY <2>2, <2>6 DEF Balanced
  <2>9. \A x \in Pid : (\E i \in 1 .. n + 1 : x = pids[i])
                         <=> x = p \/ \E i \in 1 .. n : x = pids[i]
    <3>1. 1 .. n + 1 = (1 .. n) \union {n + 1}
      OBVIOUS
    <3> QED BY <3>1
  <2>10. \A x \in Pid : r.st[x] = IF \E i \in 1 .. n + 1 : x = pids[i] THEN "READY" ELSE a.st[x]
    BY <2>2, <2>8, <2>9
  <2> QED BY <2>6, <2>7, <2>10
<1> HIDE DEF Turn
<1> DEFINE T == {k \in 0 .. m : Turn(k)}
<1>3. 0 \in T /\ \A n \in 0 .. m - 1 : n \in T => n + 1 \in T
  BY <1>1, <1>2
<1> HIDE DEF T
<1>4. \A k \in 0 .. m : k \in T
  BY ONLY m \in Nat, <1>3, StepByStep
<1>5. Turn(m)
  BY <1>4 DEF T
<1> QED BY <1>5 DEF Turn

\* Aging changes keys, not processes or places.
LEMMA AgedFacts ==
  ASSUME NEW q \in Seq(Entries(Pid)), NEW old, NEW new, NEW r, r = Aged(q, old, new)
  PROVE  /\ r \in Seq(Entries(Pid)) /\ DOMAIN r = DOMAIN q /\ Len(r) = Len(q)
         /\ \A i \in DOMAIN q :
              /\ r[i].pid = q[i].pid
              /\ r[i].key = q[i].key + (IF Ages(q[i].pid, old, new) THEN 1 ELSE 0)
              /\ q[i].key \in Int /\ q[i].pid \in Pid
         /\ PidsOf(r) = PidsOf(q) /\ (OnceEach(q) => OnceEach(r))
<1>1. Len(q) \in Nat /\ DOMAIN q = 1 .. Len(q)
  OBVIOUS
<1>2. \A i \in DOMAIN q : q[i] \in Entries(Pid)
  OBVIOUS
<1>3. /\ DOMAIN r = DOMAIN q
      /\ \A i \in DOMAIN q :
           r[i] = IF Ages(q[i].pid, old, new) THEN [q[i] EXCEPT !.key = @ + 1] ELSE q[i]
  BY DEF Aged
<1>4. \A i \in DOMAIN q :
        /\ q[i].key \in Int /\ q[i].pid \in Pid
        /\ r[i] \in Entries(Pid) /\ r[i].pid = q[i].pid
        /\ r[i].key = q[i].key + (IF Ages(q[i].pid, old, new) THEN 1 ELSE 0)
  <2> SUFFICES ASSUME NEW i \in DOMAIN q
               PROVE  /\ q[i].key \in Int /\ q[i].pid \in Pid
                      /\ r[i] \in Entries(Pid) /\ r[i].pid = q[i].pid
                      /\ r[i].key = q[i].key + (IF Ages(q[i].pid, old, new) THEN 1 ELSE 0)
    OBVIOUS
  <2> HIDE DEF Ages
  <2>1. q[i] \in [pid : Pid, key : Int]
    BY <1>2 DEF Entries
  <2>2. CASE Ages(q[i].pid, old, new)
    BY <1>3, <2>1, <2>2 DEF Entries
  <2>3. CASE ~Ages(q[i].pid, old, new)
    BY <1>3, <2>1, <2>3 DEF Entries
  <2> QED BY <2>2, <2>3
<1>5. r \in Seq(Entries(Pid)) /\ Len(r) = Len(q)
  <2>1. r = [i \in 1 .. Len(q) |-> r[i]]
    BY <1>1 DEF Aged
  <2> QED BY <1>1, <1>4, <2>1
<1>6. PidsOf(r) = PidsOf(q)
  BY <1>3, <1>4 DEF PidsOf
<1>7. OnceEach(q) => OnceEach(r)
  BY <1>3, <1>4 DEF OnceEach
<1> QED BY <1>3, <1>4, <1>5, <1>6, <1>7

\* Aging keeps the priorities in their range.
LEMMA AgedPriosType ==
  ASSUME prprio \in [Pid -> MinPrio .. MaxPrio],
         NEW q \in Seq(Entries(Pid)), OnceEach(q), NEW old, NEW new
  PROVE  AgedPrios(q, old, new) \in [Pid -> MinPrio .. MaxPrio]
<1> SUFFICES ASSUME NEW p \in Pid
             PROVE  (IF Ages(p, old, new) THEN Wrap(prprio[p] + Occurrences(q, p)) ELSE prprio[p])
                      \in MinPrio .. MaxPrio
  BY DEF AgedPrios
<1>1. Occurrences(q, p) \in Int
  <2> PICK A : A = Pid
    OBVIOUS
  <2>1. q \in Seq(Entries(A)) /\ OnceEach(q)
    OBVIOUS
  <2>2. Occurrences(q, p) = IF p \in PidsOf(q) THEN 1 ELSE 0
    BY ONLY <2>1, OccurrencesOnce
  <2> QED BY <2>2
<1>2. prprio[p] \in Int
  BY PidFacts
<1>3. Wrap(prprio[p] + Occurrences(q, p)) \in MinPrio .. MaxPrio
  BY <1>1, <1>2, WrapFacts
<1> QED BY <1>3

----------------------------------------------------------------------------
\* The context switch finds a process on the ready queue: the one switched out, or
\* else the null process is there.
LEMMA SwitchShape ==
  ASSUME NEW s, Balanced(s.st, s.rq, currpid), prprio \in [Pid -> MinPrio .. MaxPrio], Switch(s)
  PROVE  \E s1 :
           /\ s1 = IF s.st[currpid] = "CURR" THEN Readied(s, currpid) ELSE s
           /\ Balanced(s1.st, s1.rq, currpid) /\ SwitchOnly(s.st, s1.st)
           /\ \A p \in Pid : s1.st[p] # "CURR"
           /\ s1.rq # <<>> /\ currpid' = Head(s1.rq).pid
           /\ \A i \in DOMAIN Tail(s1.rq) : Tail(s1.rq)[i].key < MaxKey
           /\ prstate' = [s1.st EXCEPT ![currpid'] = "CURR"]
           /\ readyqueue' = Aged(Tail(s1.rq), currpid, currpid')
           /\ prprio' = AgedPrios(Tail(s1.rq), currpid, currpid')
           /\ cpu' = IF s1.st[currpid'] = "FREE" THEN "wild" ELSE "up"
<1> PICK s1 : s1 = IF s.st[currpid] = "CURR" THEN Readied(s, currpid) ELSE s
  OBVIOUS
<1>0. currpid \in Pid /\ prprio \in [Pid -> Int]
  BY PidFacts DEF Balanced
<1>1. /\ Balanced(s1.st, s1.rq, currpid)
      /\ s1.st = IF s.st[currpid] = "CURR" THEN [s.st EXCEPT ![currpid] = "READY"] ELSE s.st
  <2>1. CASE s.st[currpid] = "CURR"
    BY <1>0, <2>1, ReadiedBalanced
  <2>2. CASE s.st[currpid] # "CURR"
    BY <2>2
  <2> QED BY <2>1, <2>2
<1>2. SwitchOnly(s.st, s1.st)
  BY <1>0, <1>1 DEF Balanced, SwitchOnly, Runnable
<1>3. \A p \in Pid : s1.st[p] # "CURR"
  BY <1>0, <1>1 DEF Balanced
<1>4. NULLPROC \in PidsOf(s1.rq)
  BY <1>1, <1>3, PidFacts DEF Balanced, Runnable
<1>5. s1.rq # <<>>
  BY <1>4 DEF PidsOf
<1>6. /\ currpid' = Head(s1.rq).pid
      /\ \A i \in DOMAIN Tail(s1.rq) : Tail(s1.rq)[i].key < MaxKey
      /\ prstate' = [s1.st EXCEPT ![currpid'] = "CURR"]
      /\ readyqueue' = Aged(Tail(s1.rq), currpid, currpid')
      /\ prprio' = AgedPrios(Tail(s1.rq), currpid, currpid')
      /\ cpu' = IF s1.st[currpid'] = "FREE" THEN "wild" ELSE "up"
  BY <1>5 DEF Switch
<1> QED BY <1>1, <1>2, <1>3, <1>5, <1>6

\* It keeps the process table and the ready queue in step.
LEMMA SwitchBalanced ==
  ASSUME NEW s, Balanced(s.st, s.rq, currpid), prprio \in [Pid -> MinPrio .. MaxPrio], Switch(s)
  PROVE  /\ Balanced(prstate', readyqueue', currpid') /\ prstate'[currpid'] = "CURR"
         /\ cpu' = "up" /\ prprio' \in [Pid -> MinPrio .. MaxPrio]
         /\ SwitchOnly(s.st, prstate')
<1>1. PICK s1 :
        /\ Balanced(s1.st, s1.rq, currpid) /\ SwitchOnly(s.st, s1.st)
        /\ \A p \in Pid : s1.st[p] # "CURR"
        /\ s1.rq # <<>> /\ currpid' = Head(s1.rq).pid
        /\ prstate' = [s1.st EXCEPT ![currpid'] = "CURR"]
        /\ readyqueue' = Aged(Tail(s1.rq), currpid, currpid')
        /\ prprio' = AgedPrios(Tail(s1.rq), currpid, currpid')
        /\ cpu' = IF s1.st[currpid'] = "FREE" THEN "wild" ELSE "up"
  BY SwitchShape
<1> PICK q, r : q = s1.rq /\ r = Tail(q)
  OBVIOUS
<1>2. q \in Seq(Entries(Pid)) /\ OnceEach(q) /\ q # <<>> /\ r = Tail(q)
  BY <1>1 DEF Balanced
<1>3. /\ r \in Seq(Entries(Pid)) /\ OnceEach(r)
      /\ PidsOf(r) = PidsOf(q) \ {Head(q).pid} /\ Head(q).pid \in PidsOf(q)
  BY ONLY <1>2, WithoutHead
<1>4. currpid' \in Pid /\ s1.st[currpid'] = "READY" /\ PidsOf(r) = PidsOf(q) \ {currpid'}
  BY <1>1, <1>3 DEF Balanced
<1>5. /\ readyqueue' \in Seq(Entries(Pid)) /\ OnceEach(readyqueue')
      /\ PidsOf(readyqueue') = PidsOf(r)
  <2>1. readyqueue' = Aged(r, currpid, currpid')
    BY <1>1
  <2> QED BY ONLY <1>3, <2>1, AgedFacts
<1>6. prprio' \in [Pid -> MinPrio .. MaxPrio]
  BY <1>1, <1>3, AgedPriosType
<1>7. PidsOf(readyqueue') = {p \in Pid : prstate'[p] = "READY"}
  BY <1>1, <1>4, <1>5 DEF Balanced
<1>8. /\ prstate' \in [Pid -> PrState] /\ prstate'[NULLPROC] \in Runnable
      /\ \A p \in Pid : prstate'[p] = "CURR" => p = currpid'
      /\ prstate'[currpid'] = "CURR"
  BY <1>1, <1>4, PidFacts DEF Balanced, PrState, Runnable
<1>9. SwitchOnly(s.st, prstate')
  BY <1>1, <1>4 DEF SwitchOnly, Runnable, Balanced
<1> QED BY <1>1, <1>4, <1>5, <1>6, <1>7, <1>8, <1>9 DEF Balanced

\* While no priority overflows, aging raises those of the processes that stay on the
\* queue by one, and their keys with them.
LEMMA AgedPriosFacts ==
  ASSUME prprio \in [Pid -> MinPrio .. MaxPrio], MaxKey <= MaxPrio,
         NEW r \in Seq(Entries(Pid)), OnceEach(r), KeyedBy(r, prprio),
         \A i \in DOMAIN r : r[i].key < MaxKey, NEW old, NEW new, NEW p \in Pid
  PROVE  AgedPrios(r, old, new)[p]
           = prprio[p] + (IF Ages(p, old, new) /\ p \in PidsOf(r) THEN 1 ELSE 0)
<1>1. AgedPrios(r, old, new)[p]
        = IF Ages(p, old, new) THEN Wrap(prprio[p] + Occurrences(r, p)) ELSE prprio[p]
  BY DEF AgedPrios
<1>2. Occurrences(r, p) = IF p \in PidsOf(r) THEN 1 ELSE 0
  <2> PICK A : A = Pid
    OBVIOUS
  <2>1. r \in Seq(Entries(A)) /\ OnceEach(r)
    OBVIOUS
  <2> QED BY ONLY <2>1, OccurrencesOnce
<1>3. prprio[p] \in MinPrio .. MaxPrio /\ prprio[p] \in Int /\ MinPrio \in Int /\ MaxPrio \in Int
  BY PidFacts
<1>4. CASE p \in PidsOf(r)
  <2>1. prprio[p] < MaxKey
    BY <1>4 DEF PidsOf, KeyedBy
  <2>2. prprio[p] + 1 \in MinPrio .. MaxPrio /\ prprio[p] + 1 \in Int
    BY <1>3, <2>1, SchedAssumption
  <2>3. Wrap(prprio[p] + 1) = prprio[p] + 1
    BY ONLY <2>2, WrapFacts
  <2> HIDE DEF Ages
  <2> QED BY <1>1, <1>2, <1>3, <1>4, <2>3
<1>5. CASE p \notin PidsOf(r)
  <2>1. prprio[p] + 0 = prprio[p]
    BY <1>3
  <2>2. Wrap(prprio[p]) = prprio[p]
    BY ONLY <1>3, WrapFacts
  <2> HIDE DEF Ages
  <2> QED BY <1>1, <1>2, <1>3, <1>5, <2>1, <2>2
<1> QED BY <1>4, <1>5

\* The order that a switch finds and keeps: user processes come before the null process.
UsersAbove(st) == prprio[NULLPROC] = 0 /\ \A p \in User : st[p] # "FREE" => prprio[p] >= 1

\* Aging in place keeps the ready queue in order, although it passes over two of its
\* entries, and the head is the null process only if it is alone.
LEMMA SwitchOrdered ==
  ASSUME NEW s, Balanced(s.st, s.rq, currpid), prprio \in [Pid -> MinPrio .. MaxPrio],
         MaxKey <= MaxPrio, Ordered(s.rq), UsersAbove(s.st), s.st[currpid] # "READY",
         Switch(s)
  PROVE  /\ Ordered(readyqueue)'
         /\ prprio'[NULLPROC] = 0 /\ \A p \in Pid : prprio'[p] >= prprio[p]
         /\ currpid' = NULLPROC => \A p \in User : prstate'[p] # "READY"
<1> PICK old, new : old = currpid /\ new = currpid'
  OBVIOUS
<1>1. PICK s1 :
        /\ s1 = IF s.st[old] = "CURR" THEN Readied(s, old) ELSE s
        /\ Balanced(s1.st, s1.rq, old) /\ SwitchOnly(s.st, s1.st)
        /\ \A p \in Pid : s1.st[p] # "CURR"
        /\ s1.rq # <<>> /\ new = Head(s1.rq).pid
        /\ \A i \in DOMAIN Tail(s1.rq) : Tail(s1.rq)[i].key < MaxKey
        /\ prstate' = [s1.st EXCEPT ![new] = "CURR"]
        /\ readyqueue' = Aged(Tail(s1.rq), old, new)
        /\ prprio' = AgedPrios(Tail(s1.rq), old, new)
  BY SwitchShape
<1> PICK q, r : q = s1.rq /\ r = Tail(q)
  OBVIOUS
<1>2. old \in Pid /\ prprio \in [Pid -> Int] /\ NULLPROC \in Pid /\ User = Pid \ {NULLPROC}
  BY PidFacts DEF Balanced, User
<1>3. /\ Ordered(q)
      /\ \A i, j \in DOMAIN q : q[i].pid = old /\ j > i => q[j].key < prprio[old]
  <2>1. CASE s.st[old] = "CURR"
    BY ZenonT(60), <1>1, <1>2, <2>1, ReadiedOrdered
  <2>2. CASE s.st[old] # "CURR"
    <3>1. s1 = s /\ old \notin PidsOf(q)
      BY <1>1, <2>2 DEF Balanced
    <3> QED BY <3>1 DEF PidsOf
  <2> QED BY <2>1, <2>2
<1>4. q \in Seq(Entries(Pid)) /\ OnceEach(q) /\ q # <<>> /\ r = Tail(q)
  BY <1>1 DEF Balanced
<1>5. /\ r \in Seq(Entries(Pid)) /\ OnceEach(r)
      /\ Head(q) = q[1] /\ 1 \in DOMAIN q
      /\ \A j \in DOMAIN r : j + 1 \in DOMAIN q /\ r[j] = q[j + 1]
      /\ PidsOf(r) = PidsOf(q) \ {Head(q).pid} /\ Head(q).pid \in PidsOf(q)
      /\ Sorted(q) => Sorted(r)
  <2>1. /\ r \in Seq(Entries(Pid)) /\ OnceEach(r)
        /\ Head(q) = q[1] /\ 1 \in DOMAIN q /\ Behind(r, q)
        /\ PidsOf(r) = PidsOf(q) \ {Head(q).pid} /\ Head(q).pid \in PidsOf(q)
        /\ Sorted(q) => Sorted(r)
    BY ONLY <1>4, WithoutHead
  <2> QED BY <2>1 DEF Behind
<1>6. new \notin PidsOf(r) /\ new = q[1].pid /\ new \in Pid
  <2>1. new = Head(q).pid /\ PidsOf(q) \subseteq Pid
    BY <1>1 DEF Balanced
  <2> QED BY <1>5, <2>1
<1>7. /\ KeyedBy(r, prprio) /\ Sorted(r)
      /\ \A i, j \in DOMAIN r : r[i].pid = old /\ j > i => r[j].key < prprio[old]
      /\ \A j \in DOMAIN r : r[j].key < MaxKey
  <2>1. KeyedBy(r, prprio) /\ Sorted(r)
    BY <1>3, <1>5 DEF KeyedBy, Ordered
  <2>2. ASSUME NEW i \in DOMAIN r, NEW j \in DOMAIN r, r[i].pid = old, j > i
        PROVE  r[j].key < prprio[old]
    <3>1. i \in Int /\ j \in Int
      BY <1>5
    <3>2. i + 1 \in DOMAIN q /\ j + 1 \in DOMAIN q /\ j + 1 > i + 1
      BY <1>5, <2>2, <3>1
    <3> QED BY <1>3, <1>5, <2>2, <3>2
  <2>3. \A j \in DOMAIN r : r[j].key < MaxKey
    <3> PICK z : z = Tail(s1.rq)
      OBVIOUS
    <3>1. z = r /\ \A j \in DOMAIN z : z[j].key < MaxKey
      BY <1>1
    <3> QED BY ONLY <3>1
  <2> QED BY <2>1, <2>2, <2>3
<1>8. \A p \in User : p \in PidsOf(q) => prprio[p] >= 1
  BY <1>1, <1>2 DEF Balanced, SwitchOnly, Runnable, UsersAbove
<1> PICK x : x = readyqueue'
  OBVIOUS
<1>9. /\ DOMAIN x = DOMAIN r
      /\ \A i \in DOMAIN r :
           /\ x[i].pid = r[i].pid
           /\ x[i].key = r[i].key + (IF Ages(r[i].pid, old, new) THEN 1 ELSE 0)
           /\ r[i].key \in Int /\ r[i].pid \in Pid
  <2>1. x = Aged(r, old, new) /\ r \in Seq(Entries(Pid))
    BY <1>1, <1>5
  <2> QED BY ONLY <2>1, AgedFacts
<1>10. \A p \in Pid : prprio'[p] = prprio[p] + (IF Ages(p, old, new) /\ p \in PidsOf(r) THEN 1 ELSE 0)
  <2> TAKE p \in Pid
  <2> HIDE DEF Ages
  <2>1. prprio' = AgedPrios(r, old, new)
    BY <1>1
  <2>2. AgedPrios(r, old, new)[p]
          = prprio[p] + (IF Ages(p, old, new) /\ p \in PidsOf(r) THEN 1 ELSE 0)
    BY ONLY <1>5, <1>7, p \in Pid, prprio \in [Pid -> MinPrio .. MaxPrio], MaxKey <= MaxPrio,
            AgedPriosFacts
  <2> QED BY <2>1, <2>2
<1>11. KeyedBy(x, prprio')
  <2> SUFFICES ASSUME NEW i \in DOMAIN r PROVE x[i].key = prprio'[x[i].pid]
    BY <1>9 DEF KeyedBy
  <2>1. r[i].pid \in PidsOf(r) /\ r[i].key = prprio[r[i].pid] /\ r[i].pid \in Pid
    BY <1>7, <1>9 DEF PidsOf, KeyedBy
  <2> HIDE DEF Ages
  <2> QED BY <1>9, <1>10, <2>1
<1>12. Sorted(x)
  <2> SUFFICES ASSUME NEW i \in DOMAIN r, NEW j \in DOMAIN r, i < j PROVE x[i].key >= x[j].key
    BY <1>9 DEF Sorted
  <2>1. r[i].key >= r[j].key /\ r[i].key \in Int /\ r[j].key \in Int
    BY <1>7, <1>9 DEF Sorted
  <2>2. CASE Ages(r[i].pid, old, new) \/ ~Ages(r[j].pid, old, new)
    <3> HIDE DEF Ages
    <3> QED BY <1>9, <2>1, <2>2
  <2>3. CASE ~Ages(r[i].pid, old, new) /\ Ages(r[j].pid, old, new)
    <3>1. r[i].pid \in PidsOf(r) /\ r[j].pid \in PidsOf(r)
      BY DEF PidsOf
    <3>2. r[i].pid = NULLPROC \/ r[i].pid = old
      BY <1>6, <2>3, <3>1 DEF Ages
    <3>3. r[j].pid \in User /\ r[j].key = prprio[r[j].pid] /\ r[i].key = prprio[r[i].pid]
      BY <1>2, <1>7, <1>9, <2>3 DEF Ages, KeyedBy
    <3>4. prprio[r[j].pid] >= 1 /\ prprio[NULLPROC] = 0
      BY <1>5, <1>8, <3>1, <3>3 DEF UsersAbove
    <3>5. r[i].pid # NULLPROC
      BY <2>1, <3>3, <3>4
    <3>6. r[j].key < r[i].key
      BY <1>7, <3>2, <3>3, <3>5
    <3> HIDE DEF Ages
    <3> QED BY <1>9, <2>1, <2>3, <3>6
  <2> QED BY <2>2, <2>3
<1>13. prprio'[NULLPROC] = 0 /\ \A p \in Pid : prprio'[p] >= prprio[p]
  <2>1. ~Ages(NULLPROC, old, new)
    BY DEF Ages
  <2> HIDE DEF Ages
  <2>2. prprio'[NULLPROC] = 0
    <3>1. prprio'[NULLPROC] = prprio[NULLPROC] + 0
      BY <1>2, <1>10, <2>1
    <3> QED BY <3>1 DEF UsersAbove
  <2>3. ASSUME NEW p \in Pid PROVE prprio'[p] >= prprio[p]
    BY <1>2, <1>10
  <2> QED BY <2>2, <2>3
<1>14. new = NULLPROC => \A p \in User : prstate'[p] # "READY"
  <2> SUFFICES ASSUME new = NULLPROC, NEW p \in User, prstate'[p] = "READY" PROVE FALSE
    OBVIOUS
  <2>1. p \in PidsOf(q) /\ p # new
    BY <1>1, <1>2 DEF Balanced
  <2>2. PICK j \in DOMAIN q : q[j].pid = p
    BY <2>1 DEF PidsOf
  <2>3. DOMAIN q = 1 .. Len(q) /\ Len(q) \in Nat
    BY <1>4
  <2>4. 1 < j
    BY <1>6, <2>1, <2>2, <2>3
  <2>5. q[1].key = prprio[NULLPROC] /\ q[j].key = prprio[p] /\ q[1].key >= q[j].key
    BY <1>3, <1>5, <1>6, <2>2, <2>4 DEF Ordered, KeyedBy, Sorted
  <2> QED BY <1>8, <2>1, <2>5, <1>2 DEF UsersAbove
<1> QED BY <1>11, <1>12, <1>13, <1>14 DEF Ordered

\* So does resched: while it is deferred the current process goes on.
LEMMA ReschedBalanced ==
  ASSUME NEW s, Balanced(s.st, s.rq, currpid), prprio \in [Pid -> MinPrio .. MaxPrio],
         Defer \in [ndefers : 0 .. 1, attempt : BOOLEAN], cpu = "up",
         Defer.ndefers > 0 => s.st[currpid] = "CURR",
         Resched(s)
  PROVE  /\ Balanced(prstate', readyqueue', currpid') /\ prstate'[currpid'] = "CURR"
         /\ cpu' = "up" /\ prprio' \in [Pid -> MinPrio .. MaxPrio]
         /\ Defer' \in [ndefers : 0 .. 1, attempt : BOOLEAN]
         /\ SwitchOnly(s.st, prstate')
<1>1. CASE /\ Defer.ndefers > 0
           /\ Defer' = [Defer EXCEPT !.attempt = TRUE]
           /\ prstate' = s.st /\ readyqueue' = s.rq
           /\ UNCHANGED <<prprio, currpid, cpu>>
  <2>1. Defer' \in [ndefers : 0 .. 1, attempt : BOOLEAN]
    BY <1>1
  <2> QED BY <1>1, <2>1 DEF SwitchOnly
<1>2. CASE Defer.ndefers = 0 /\ Switch(s) /\ UNCHANGED Defer
  BY <1>2, SwitchBalanced
<1> QED BY <1>1, <1>2 DEF Resched

\* The invariant after a call that rescheduled, if nobody was born or died, and
\* the same with one process fewer.
LEMMA ReschedInv ==
  ASSUME SchedInv, cpu = "up", NEW s, Balanced(s.st, s.rq, currpid),
         Defer.ndefers > 0 => s.st[currpid] = "CURR",
         Resched(s), nextpid' = nextpid,
         prcount' \in 0 .. NPROC, prcount' = Cardinality(Live(s.st))
  PROVE  SchedInv' /\ SwitchOnly(s.st, prstate') /\ cpu' = "up"
<1>1. /\ Balanced(prstate', readyqueue', currpid') /\ prstate'[currpid'] = "CURR"
      /\ cpu' = "up" /\ prprio' \in [Pid -> MinPrio .. MaxPrio]
      /\ Defer' \in [ndefers : 0 .. 1, attempt : BOOLEAN]
      /\ SwitchOnly(s.st, prstate')
  BY ReschedBalanced DEF SchedInv
<1>2. Live(prstate') = Live(s.st)
  BY <1>1 DEF Live, SwitchOnly, Runnable
<1> QED BY <1>1, <1>2 DEF SchedInv

----------------------------------------------------------------------------
\* The search round a table of n entries, from entry a on, meets every entry.
LEMMA RoundTheTable ==
  ASSUME NEW n \in Nat \ {0}, NEW a \in 0 .. n - 1, NEW p \in 0 .. n - 1
  PROVE  /\ \E i \in 0 .. n - 1 : (a + i) % n = p
         /\ \A i \in Nat : (a + i) % n \in 0 .. n - 1
<1>1. CASE p >= a
  <2>1. p - a \in 0 .. n - 1 /\ (a + (p - a)) % n = p
    BY <1>1
  <2> QED BY <2>1
<1>2. CASE p < a
  <2>1. p - a + n \in 0 .. n - 1 /\ a + (p - a + n) = p + n /\ (p + n) % n = p
    BY <1>2
  <2> QED BY <2>1
<1> QED BY <1>1, <1>2

\* newpid finds a free entry if there is one.
LEMMA NewPidFree ==
  ASSUME nextpid \in Pid, \E p \in Pid : prstate[p] = "FREE"
  PROVE  NewPid \in Pid /\ prstate[NewPid] = "FREE" /\ (NewPid + 1) % NPROC \in Pid
<1>1. NPROC \in Nat \ {0} /\ Pid = 0 .. NPROC - 1
  BY SchedAssumption DEF Pid
<1> DEFINE at(i) == (nextpid + i) % NPROC
<1> DEFINE I == {i \in 0 .. NPROC - 1 : prstate[at(i)] = "FREE"}
<1>2. PICK p \in Pid : prstate[p] = "FREE"
  OBVIOUS
<1>3. PICK i \in 0 .. NPROC - 1 : at(i) = p
  BY <1>1, RoundTheTable
<1> PICK J : J = I
  OBVIOUS
<1>4. J \subseteq Nat /\ J # {}
  <2>1. prstate[at(i)] = "FREE"
    BY <1>2, <1>3
  <2> HIDE DEF at
  <2> QED BY <1>1, <2>1
<1>5. Min(J) \in J
  BY ONLY <1>4, LeastMember
<1>6. NewPid = at(Min(J))
  BY DEF NewPid, Min
<1>7. \A j \in Nat : (nextpid + j) % NPROC \in Pid
  BY <1>1, RoundTheTable
<1>8. NewPid \in Pid /\ prstate[NewPid] = "FREE"
  BY <1>4, <1>5, <1>6, <1>7
<1>9. (NewPid + 1) % NPROC \in Pid
  <2>1. NewPid \in 0 .. NPROC - 1
    BY <1>1, <1>8
  <2> QED BY <1>1, <2>1, RoundTheTable
<1> QED BY <1>8, <1>9

\* Where nobody was born or died the count is still right.
LEMMA LiveAgain ==
  ASSUME SchedInv, NEW p \in Pid
  PROVE  /\ IsFiniteSet(Live(prstate)) /\ Live(prstate) \subseteq Pid
         /\ p \notin Live(prstate) =>
              /\ Cardinality(Live(prstate) \union {p}) = Cardinality(Live(prstate)) + 1
              /\ Cardinality(Live(prstate) \union {p}) \in 0 .. NPROC
         /\ p \in Live(prstate) =>
              Cardinality(Live(prstate) \ {p}) = Cardinality(Live(prstate)) - 1
         /\ Cardinality(Live(prstate)) \in Nat
<1> PICK L : L = Live(prstate)
  OBVIOUS
<1>1. L \subseteq Pid /\ IsFiniteSet(Pid) /\ Cardinality(Pid) = NPROC
  BY PidFacts DEF Live
<1>2. IsFiniteSet(L)
  BY <1>1, FS_Subset
<1>3. p \notin L => Cardinality(L \union {p}) = Cardinality(L) + 1
  BY <1>2, FS_AddElement
<1>4. p \in L => Cardinality(L \ {p}) = Cardinality(L) - 1
  BY <1>2, FS_RemoveElement
<1>5. Cardinality(L) \in Nat /\ NPROC \in Nat
  BY <1>2, FS_CardinalityType, SchedAssumption
<1>6. Cardinality(L \union {p}) <= NPROC
  <2>1. L \union {p} \subseteq Pid
    BY <1>1
  <2> QED BY <1>1, <2>1, FS_Subset
<1> QED BY <1>1, <1>2, <1>3, <1>4, <1>5, <1>6

\* The processes that wait, and what they wait for, stay the same.
SameWaiters ==
  \A p \in Pid : /\ prstate[p] = "WAIT" <=> prstate'[p] = "WAIT"
                 /\ prstate[p] = "WAIT" => prsem'[p] = prsem[p]

\* create enters a suspended process, which nobody waited for and which waits for nothing.
LEMMA CreateInv ==
  ASSUME SchedInv, DOMAIN prsem = Pid, NEW k \in Prios, Create(k)
  PROVE  /\ SchedInv' /\ SameWaiters
         /\ NewPid \in Pid /\ prsem' = [prsem EXCEPT ![NewPid] = NoSem]
<1> PICK n : n = NewPid
  OBVIOUS
<1>1. /\ cpu = "up" /\ cpu' = "up"
      /\ prstate' = [prstate EXCEPT ![n] = "SUSP"]
      /\ prprio' = [prprio EXCEPT ![n] = k]
      /\ nextpid' = (n + 1) % NPROC /\ prcount' = prcount + 1
      /\ prsem' = [prsem EXCEPT ![n] = NoSem]
      /\ UNCHANGED <<currpid, readyqueue, Defer>>
  BY DEF Create, Caller
<1>2. n \in Pid /\ prstate[n] = "FREE" /\ nextpid' \in Pid
  BY <1>1, NewPidFree DEF SchedInv, Create
<1>3. prprio' \in [Pid -> MinPrio .. MaxPrio]
  <2>1. k \in MinPrio .. MaxPrio
    BY SchedAssumption, PidFacts DEF MinPrio, MaxPrio
  <2> QED BY <1>1, <2>1 DEF SchedInv
<1>4. Balanced(prstate', readyqueue', currpid') /\ prstate'[currpid'] = "CURR"
  BY <1>1, <1>2, PidFacts DEF SchedInv, Balanced, PrState, Runnable
<1>5. Live(prstate') = Live(prstate) \union {n} /\ n \notin Live(prstate)
  BY <1>1, <1>2 DEF Live, SchedInv, Balanced
<1>6. prcount' \in 0 .. NPROC /\ prcount' = Cardinality(Live(prstate'))
  BY <1>1, <1>2, <1>5, LiveAgain DEF SchedInv
<1>7. SameWaiters
  BY <1>1, <1>2 DEF SameWaiters, SchedInv, Balanced
<1> QED BY <1>1, <1>2, <1>3, <1>4, <1>6, <1>7 DEF SchedInv

\* A process made ready with no reschedule.
LEMMA ReadyInv ==
  ASSUME SchedInv, NEW p \in Pid, Ready(p)
  PROVE  SchedInv' /\ SameWaiters
<1> PICK s : s = Here(prstate)
  OBVIOUS
<1> PICK r : r = Readied(s, p)
  OBVIOUS
<1>1. /\ prstate[p] = "SUSP" /\ cpu = "up" /\ prstate' = r.st /\ readyqueue' = r.rq
      /\ UNCHANGED <<prprio, currpid, Defer, cpu, prcount, nextpid, prsem>>
  BY DEF Ready, Caller, tableVars
<1>2. s.st = prstate /\ s.rq = readyqueue /\ prprio \in [Pid -> Int]
  BY PidFacts DEF Here, SchedInv
<1>3. Balanced(r.st, r.rq, currpid) /\ r.st = [prstate EXCEPT ![p] = "READY"]
  BY <1>1, <1>2, ReadiedBalanced DEF SchedInv
<1>4. Live(prstate') = Live(prstate)
  BY <1>1, <1>3 DEF Live, SchedInv, Balanced
<1>5. SameWaiters /\ prstate'[currpid] = "CURR"
  BY <1>1, <1>3 DEF SameWaiters, SchedInv, Balanced
<1> QED BY <1>1, <1>3, <1>4, <1>5 DEF SchedInv

\* A process made ready, and a reschedule.
LEMMA ResumeInv ==
  ASSUME SchedInv, NEW p \in Pid, Resume(p)
  PROVE  SchedInv' /\ SameWaiters
<1> PICK s : s = Here(prstate)
  OBVIOUS
<1> PICK r : r = Readied(s, p)
  OBVIOUS
<1>1. /\ prstate[p] = "SUSP" /\ cpu = "up" /\ Defer.ndefers = 0 /\ Resched(r)
      /\ UNCHANGED <<prcount, nextpid, prsem>>
  BY DEF Resume, Caller, tableVars
<1>2. s.st = prstate /\ s.rq = readyqueue /\ prprio \in [Pid -> Int]
  BY PidFacts DEF Here, SchedInv
<1>3. Balanced(r.st, r.rq, currpid) /\ r.st = [prstate EXCEPT ![p] = "READY"]
  BY <1>1, <1>2, ReadiedBalanced DEF SchedInv
<1>4. Live(r.st) = Live(prstate)
  BY <1>1, <1>3 DEF Live, SchedInv, Balanced
<1>5. SchedInv' /\ SwitchOnly(r.st, prstate')
  BY <1>1, <1>3, <1>4, ReschedInv DEF SchedInv
<1>6. \A x \in Pid : r.st[x] = IF x = p THEN "READY" ELSE prstate[x]
  BY <1>3 DEF SchedInv, Balanced
<1>7. SameWaiters
  BY <1>1, <1>5, <1>6 DEF SameWaiters, SwitchOnly, Runnable
<1> QED BY <1>5, <1>7

\* A ready process taken off the ready queue, or the current one that stops itself.
LEMMA SuspendInv ==
  ASSUME SchedInv, NEW p \in Pid, Suspend(p)
  PROVE  SchedInv' /\ SameWaiters
<1>1. cpu = "up" /\ Defer.ndefers = 0 /\ p # NULLPROC /\ UNCHANGED <<prcount, nextpid, prsem>>
  BY DEF Suspend, Caller, tableVars
<1>2. CASE /\ prstate[p] = "READY" /\ prstate' = [prstate EXCEPT ![p] = "SUSP"]
           /\ readyqueue' = Removed(readyqueue, p)
           /\ UNCHANGED <<prprio, currpid, Defer, cpu>>
  <2>1. readyqueue \in Seq(Entries(Pid)) /\ OnceEach(readyqueue)
    BY DEF SchedInv, Balanced
  <2>2. /\ readyqueue' \in Seq(Entries(Pid)) /\ OnceEach(readyqueue')
        /\ PidsOf(readyqueue') = PidsOf(readyqueue) \ {p}
    BY ONLY <1>2, <2>1, RemovedFacts
  <2>3. Balanced(prstate', readyqueue', currpid') /\ prstate'[currpid'] = "CURR"
    BY <1>1, <1>2, <2>2, PidFacts DEF SchedInv, Balanced, PrState
  <2>4. Live(prstate') = Live(prstate)
    BY <1>2 DEF Live, SchedInv, Balanced
  <2>5. SameWaiters
    BY <1>1, <1>2 DEF SameWaiters, SchedInv, Balanced
  <2> QED BY <1>1, <1>2, <2>3, <2>4, <2>5 DEF SchedInv
<1>3. CASE prstate[p] = "CURR" /\ Resched(Here([prstate EXCEPT ![p] = "SUSP"]))
  <2> PICK s : s = Here([prstate EXCEPT ![p] = "SUSP"])
    OBVIOUS
  <2>1. s.st = [prstate EXCEPT ![p] = "SUSP"] /\ s.rq = readyqueue
    BY DEF Here
  <2>2. \A x \in Pid : s.st[x] = IF x = p THEN "SUSP" ELSE prstate[x]
    BY <2>1 DEF SchedInv, Balanced
  <2>3. Balanced(s.st, s.rq, currpid)
    <3>1. s.st \in [Pid -> PrState]
      BY <2>1 DEF SchedInv, Balanced, PrState
    <3>2. {x \in Pid : s.st[x] = "READY"} = {x \in Pid : prstate[x] = "READY"}
      BY <1>3, <2>2
    <3> QED BY <1>1, <2>1, <2>2, <3>1, <3>2, PidFacts DEF SchedInv, Balanced
  <2>4. Live(s.st) = Live(prstate)
    BY <1>3, <2>2 DEF Live
  <2>5. SchedInv' /\ SwitchOnly(s.st, prstate')
    BY <1>1, <1>3, <2>3, <2>4, ReschedInv DEF SchedInv
  <2>6. SameWaiters
    BY <1>1, <1>3, <2>2, <2>5 DEF SameWaiters, SwitchOnly, Runnable
  <2> QED BY <2>5, <2>6
<1> QED BY <1>2, <1>3 DEF Suspend

\* The clock, yield and the null process.
LEMMA PreemptInv ==
  ASSUME SchedInv, Preempt
  PROVE  SchedInv' /\ SameWaiters
<1> PICK s : s = Here(prstate)
  OBVIOUS
<1>1. /\ cpu = "up" /\ Defer.ndefers = 0 /\ Resched(s) /\ UNCHANGED <<prcount, nextpid, prsem>>
      /\ s.st = prstate /\ s.rq = readyqueue
  BY DEF Preempt, tableVars, Here
<1>2. SchedInv' /\ SwitchOnly(prstate, prstate')
  BY <1>1, ReschedInv DEF SchedInv
<1>3. SameWaiters
  BY <1>1, <1>2 DEF SameWaiters, SwitchOnly, Runnable
<1> QED BY <1>2, <1>3

\* The handler that defers rescheduling, from its beginning to its end.
LEMMA HandlerInv ==
  ASSUME SchedInv, HandlerStep
  PROVE  SchedInv' /\ SameWaiters
<1>1. CASE DeferStart
  BY <1>1 DEF DeferStart, SchedInv, SameWaiters, tableVars
<1>2. CASE DeferStop
  <2>1. /\ cpu = "up" /\ Defer.ndefers > 0 /\ UNCHANGED <<prcount, nextpid, prsem>>
        /\ Defer' = [Defer EXCEPT !.ndefers = @ - 1]
    BY <1>2 DEF DeferStop, tableVars
  <2>2. Defer' \in [ndefers : 0 .. 1, attempt : BOOLEAN]
    <3>1. Defer.ndefers - 1 \in 0 .. 1
      BY <2>1 DEF SchedInv
    <3> QED BY <2>1, <3>1 DEF SchedInv
  <2>3. CASE Switch(Here(prstate))
    <3> PICK s : s = Here(prstate)
      OBVIOUS
    <3>1. s.st = prstate /\ s.rq = readyqueue /\ Switch(s)
      BY <2>3 DEF Here
    <3>2. /\ Balanced(prstate', readyqueue', currpid') /\ prstate'[currpid'] = "CURR"
          /\ cpu' = "up" /\ prprio' \in [Pid -> MinPrio .. MaxPrio]
          /\ SwitchOnly(prstate, prstate')
      BY <3>1, SwitchBalanced DEF SchedInv
    <3>3. Live(prstate') = Live(prstate) /\ SameWaiters
      BY <2>1, <3>2 DEF Live, SwitchOnly, Runnable, SameWaiters
    <3> QED BY <2>1, <2>2, <3>2, <3>3 DEF SchedInv
  <2>4. CASE UNCHANGED <<prstate, prprio, currpid, readyqueue, cpu>>
    BY <2>1, <2>2, <2>4 DEF SchedInv, SameWaiters
  <2> QED BY <1>2, <2>3, <2>4 DEF DeferStop
<1> QED BY <1>1, <1>2 DEF HandlerStep

\* The machine starts with main current and the null process ready.
LEMMA SchedStart ==
  SchedInit => SchedInv
<1> SUFFICES ASSUME SchedInit PROVE SchedInv
  OBVIOUS
<1> PICK e : e = [pid |-> NULLPROC, key |-> 0]
  OBVIOUS
<1>1. /\ prstate = [p \in Pid |-> IF p = 0 THEN "READY" ELSE IF p = 1 THEN "CURR" ELSE "FREE"]
      /\ currpid = 1 /\ prcount = 2 /\ nextpid = 2 % NPROC
      /\ readyqueue = <<e>> /\ Defer = [ndefers |-> 0, attempt |-> FALSE] /\ cpu = "up"
  BY DEF SchedInit
<1>2. 0 \in Pid /\ 1 \in Pid /\ NULLPROC = 0
  BY PidFacts DEF User, NULLPROC
<1>3. e \in Entries(Pid) /\ e.pid = 0
  BY <1>2 DEF Entries
<1>4. /\ readyqueue \in Seq(Entries(Pid)) /\ DOMAIN readyqueue = {1} /\ readyqueue[1] = e
  BY <1>1, <1>3
<1>5. OnceEach(readyqueue) /\ PidsOf(readyqueue) = {0}
  BY <1>3, <1>4 DEF OnceEach, PidsOf
<1>6. Balanced(prstate, readyqueue, currpid) /\ prstate[currpid] = "CURR"
  BY <1>1, <1>2, <1>4, <1>5 DEF Balanced, PrState, Runnable
<1>7. Live(prstate) = {0, 1} /\ Cardinality({0, 1}) = 2
  <2>1. Live(prstate) = {0, 1}
    BY <1>1, <1>2 DEF Live
  <2>2. IsFiniteSet({0}) /\ Cardinality({0}) = 1
    BY FS_Singleton
  <2>3. Cardinality({0} \union {1}) = 2
    BY <2>2, FS_AddElement
  <2>4. {0} \union {1} = {0, 1}
    OBVIOUS
  <2> QED BY <2>1, <2>3, <2>4
<1>8. nextpid \in Pid /\ 2 \in 0 .. NPROC
  BY <1>1, SchedAssumption DEF Pid
<1>9. prprio \in [Pid -> MinPrio .. MaxPrio]
  <2>1. PICK k \in Prios : prprio = [p \in Pid |-> IF p = 1 THEN k ELSE 0]
    BY DEF SchedInit
  <2>2. k \in MinPrio .. MaxPrio
    BY SchedAssumption, PidFacts DEF MinPrio, MaxPrio
  <2> QED BY <2>1, <2>2, PidFacts
<1>10. Defer \in [ndefers : 0 .. 1, attempt : BOOLEAN]
  BY <1>1
<1> QED BY <1>1, <1>6, <1>7, <1>8, <1>9, <1>10 DEF SchedInv

----------------------------------------------------------------------------
\* Keys are priorities in descending order, and nobody is ready while the null process
\* runs, unless a reschedule is still owed.
OrderInv ==
  /\ Ordered(readyqueue) /\ UsersAbove(prstate)
  /\ currpid = NULLPROC /\ ~(Defer.ndefers > 0 /\ Defer.attempt)
       => \A p \in User : prstate[p] # "READY"

\* resched keeps that.
LEMMA ReschedOrdered ==
  ASSUME SchedInv, MaxKey <= MaxPrio, NEW s, Balanced(s.st, s.rq, currpid), Ordered(s.rq),
         UsersAbove(s.st), s.st[currpid] # "READY", SwitchOnly(s.st, prstate'), Resched(s)
  PROVE  OrderInv'
<1>0. prprio \in [Pid -> MinPrio .. MaxPrio] /\ User \subseteq Pid /\ MinPrio \in Int /\ MaxPrio \in Int
  BY PidFacts DEF SchedInv
<1>1. CASE /\ Defer.ndefers > 0
           /\ Defer' = [Defer EXCEPT !.attempt = TRUE]
           /\ prstate' = s.st /\ readyqueue' = s.rq
           /\ UNCHANGED <<prprio, currpid, cpu>>
  <2>1. Defer'.ndefers > 0 /\ Defer'.attempt
    BY <1>1 DEF SchedInv
  <2>2. Ordered(readyqueue)' /\ UsersAbove(prstate)'
    BY <1>1 DEF Ordered, UsersAbove
  <2> QED BY <2>1, <2>2 DEF OrderInv
<1>2. CASE Defer.ndefers = 0 /\ Switch(s) /\ UNCHANGED Defer
  <2>1. /\ Ordered(readyqueue)'
        /\ prprio'[NULLPROC] = 0 /\ \A p \in Pid : prprio'[p] >= prprio[p]
        /\ currpid' = NULLPROC => \A p \in User : prstate'[p] # "READY"
    BY <1>0, <1>2, SwitchOrdered
  <2>2. prprio' \in [Pid -> MinPrio .. MaxPrio]
    BY <1>0, <1>2, SwitchBalanced
  <2>3. ASSUME NEW p \in User, prstate'[p] # "FREE" PROVE prprio'[p] >= 1
    <3>1. p \in Pid /\ s.st[p] # "FREE"
      BY <1>0, <2>3 DEF SwitchOnly, Runnable
    <3>2. prprio[p] >= 1 /\ prprio'[p] >= prprio[p] /\ prprio[p] \in Int /\ prprio'[p] \in Int
      BY <1>0, <2>1, <2>2, <3>1 DEF UsersAbove
    <3> QED BY <3>2
  <2> QED BY <2>1, <2>3 DEF OrderInv, UsersAbove
<1> QED BY <1>1, <1>2 DEF Resched

\* A new process is on no queue yet, and its priority is positive.
LEMMA CreateOrdered ==
  ASSUME SchedInv, OrderInv, NEW k \in Prios, Create(k)
  PROVE  OrderInv'
<1> PICK n : n = NewPid
  OBVIOUS
<1>1. /\ prstate' = [prstate EXCEPT ![n] = "SUSP"] /\ prprio' = [prprio EXCEPT ![n] = k]
      /\ UNCHANGED <<currpid, readyqueue, Defer>> /\ currpid # NULLPROC
  BY DEF Create, Caller
<1>2. n \in Pid /\ prstate[n] = "FREE" /\ n # NULLPROC
  BY NewPidFree DEF SchedInv, Balanced, Runnable, Create
<1>3. k >= 1
  BY SchedAssumption DEF MaxPrio
<1>4. \A p \in Pid : prprio'[p] = IF p = n THEN k ELSE prprio[p]
  BY <1>1 DEF SchedInv
<1>5. \A i \in DOMAIN readyqueue : readyqueue[i].pid \in Pid /\ readyqueue[i].pid # n
  <2>1. n \notin PidsOf(readyqueue) /\ PidsOf(readyqueue) \subseteq Pid
    BY <1>2 DEF SchedInv, Balanced
  <2> QED BY <2>1 DEF PidsOf
<1>6. Ordered(readyqueue)'
  BY <1>1, <1>4, <1>5 DEF OrderInv, Ordered, KeyedBy
<1>7. UsersAbove(prstate)'
  <2>1. \A p \in Pid : prstate'[p] = IF p = n THEN "SUSP" ELSE prstate[p]
    BY <1>1 DEF SchedInv, Balanced
  <2> QED BY <1>2, <1>3, <1>4, <2>1, PidFacts DEF OrderInv, UsersAbove
<1> QED BY <1>1, <1>6, <1>7 DEF OrderInv

\* ready and resume.
LEMMA ReadyOrdered ==
  ASSUME SchedInv, OrderInv, MaxKey <= MaxPrio, NEW p \in Pid, Ready(p) \/ Resume(p)
  PROVE  OrderInv'
<1> PICK s : s = Here(prstate)
  OBVIOUS
<1> PICK r : r = Readied(s, p)
  OBVIOUS
<1>1. /\ prstate[p] = "SUSP" /\ cpu = "up" /\ currpid # NULLPROC
      /\ s.st = prstate /\ s.rq = readyqueue /\ prprio \in [Pid -> Int]
  BY PidFacts DEF Ready, Resume, Caller, Here, SchedInv
<1>2. Balanced(r.st, r.rq, currpid) /\ r.st = [prstate EXCEPT ![p] = "READY"]
  BY <1>1, ReadiedBalanced DEF SchedInv
<1>3. Ordered(r.rq)
  BY <1>1, ReadiedOrdered DEF SchedInv, OrderInv
<1>4. \A x \in Pid : r.st[x] = IF x = p THEN "READY" ELSE prstate[x]
  BY <1>2 DEF SchedInv, Balanced
<1>5. UsersAbove(r.st) /\ r.st[currpid] # "READY"
  BY <1>1, <1>4, PidFacts DEF OrderInv, UsersAbove, SchedInv, Balanced
<1>6. CASE Ready(p)
  <2>1. /\ prstate' = r.st /\ readyqueue' = r.rq /\ currpid' = currpid /\ prprio' = prprio
    BY <1>6 DEF Ready
  <2> QED BY <1>1, <1>3, <1>5, <2>1 DEF OrderInv, Ordered, UsersAbove
<1>7. CASE Resume(p)
  <2>1. Resched(r) /\ Live(r.st) = Live(prstate) /\ UNCHANGED <<prcount, nextpid>> /\ Defer.ndefers = 0
    BY <1>1, <1>4, <1>7 DEF Resume, Live, tableVars, Caller
  <2>2. SwitchOnly(r.st, prstate')
    BY <1>1, <1>2, <2>1, ReschedInv DEF SchedInv
  <2> QED BY <1>2, <1>3, <1>5, <2>1, <2>2, ReschedOrdered
<1> QED BY <1>6, <1>7

\* A process that stops itself: it suspends itself, waits or dies.
LEMMA LeavingOrdered ==
  ASSUME SchedInv, OrderInv, MaxKey <= MaxPrio, NEW v \in {"SUSP", "WAIT", "FREE"},
         cpu = "up", Defer.ndefers = 0, currpid # NULLPROC,
         Resched(Here([prstate EXCEPT ![currpid] = v]))
  PROVE  OrderInv'
<1> PICK s : s = Here([prstate EXCEPT ![currpid] = v])
  OBVIOUS
<1>1. /\ s.st = [prstate EXCEPT ![currpid] = v] /\ s.rq = readyqueue /\ Resched(s)
      /\ currpid \in Pid /\ prstate[currpid] = "CURR"
  BY DEF Here, SchedInv, Balanced
<1>2. \A x \in Pid : s.st[x] = IF x = currpid THEN v ELSE prstate[x]
  BY <1>1 DEF SchedInv, Balanced
<1>3. Balanced(s.st, s.rq, currpid)
  <2>1. s.st \in [Pid -> PrState]
    BY <1>1 DEF SchedInv, Balanced, PrState
  <2>2. {x \in Pid : s.st[x] = "READY"} = {x \in Pid : prstate[x] = "READY"}
    BY <1>1, <1>2
  <2> QED BY <1>1, <1>2, <2>1, <2>2, PidFacts DEF SchedInv, Balanced
<1>4. UsersAbove(s.st) /\ s.st[currpid] # "READY" /\ Ordered(s.rq)
  BY <1>1, <1>2, PidFacts DEF OrderInv, UsersAbove
<1>5. SwitchOnly(s.st, prstate')
  BY <1>1, <1>3, ReschedBalanced DEF SchedInv
<1> QED BY <1>1, <1>3, <1>4, <1>5, ReschedOrdered

\* A process that is neither current nor READY afterwards leaves the ready queue.
LEMMA RemovalOrdered ==
  ASSUME SchedInv, OrderInv, NEW p \in Pid, NEW v \in {"SUSP", "FREE"}, currpid # NULLPROC,
         prstate' = [prstate EXCEPT ![p] = v],
         readyqueue' \in {readyqueue, Removed(readyqueue, p)}, UNCHANGED <<prprio, currpid, Defer>>,
         v = "SUSP" => prstate[p] # "FREE"
  PROVE  OrderInv'
<1>1. readyqueue \in Seq(Entries(Pid)) /\ OnceEach(readyqueue)
  BY DEF SchedInv, Balanced
<1> PICK q : q = Removed(readyqueue, p)
  OBVIOUS
<1>2. /\ Sorted(readyqueue) => Sorted(q)
      /\ \A j \in DOMAIN q : \E x \in DOMAIN readyqueue : q[j] = readyqueue[x]
  BY ONLY <1>1, q = Removed(readyqueue, p), RemovedFacts
<1>3. Ordered(q)
  BY <1>2 DEF OrderInv, Ordered, KeyedBy
<1>4. Ordered(readyqueue)'
  BY <1>3 DEF OrderInv, Ordered
<1>5. \A x \in Pid : prstate'[x] = IF x = p THEN v ELSE prstate[x]
  BY DEF SchedInv, Balanced
<1>6. UsersAbove(prstate)'
  BY <1>5, PidFacts DEF OrderInv, UsersAbove
<1> QED BY <1>4, <1>6 DEF OrderInv

\* suspend.
LEMMA SuspendOrdered ==
  ASSUME SchedInv, OrderInv, MaxKey <= MaxPrio, NEW p \in Pid, Suspend(p)
  PROVE  OrderInv'
<1>1. cpu = "up" /\ Defer.ndefers = 0 /\ currpid # NULLPROC
  BY DEF Suspend, Caller
<1>2. CASE /\ prstate[p] = "READY" /\ prstate' = [prstate EXCEPT ![p] = "SUSP"]
           /\ readyqueue' = Removed(readyqueue, p)
           /\ UNCHANGED <<prprio, currpid, Defer, cpu>>
  BY <1>1, <1>2, RemovalOrdered
<1>3. CASE prstate[p] = "CURR" /\ Resched(Here([prstate EXCEPT ![p] = "SUSP"]))
  <2>1. p = currpid
    BY <1>3 DEF SchedInv, Balanced
  <2> QED BY <1>1, <1>3, <2>1, LeavingOrdered
<1> QED BY <1>2, <1>3 DEF Suspend

\* The clock, yield, the null process, and the handler that defers rescheduling.
LEMMA PreemptOrdered ==
  ASSUME SchedInv, OrderInv, MaxKey <= MaxPrio, Preempt \/ HandlerStep
  PROVE  OrderInv'
<1> PICK s : s = Here(prstate)
  OBVIOUS
<1>1. /\ s.st = prstate /\ s.rq = readyqueue /\ cpu = "up"
      /\ Balanced(s.st, s.rq, currpid) /\ s.st[currpid] # "READY"
      /\ Ordered(s.rq) /\ UsersAbove(s.st) /\ prprio \in [Pid -> MinPrio .. MaxPrio]
      /\ Defer.ndefers \in 0 .. 1
  BY DEF Here, SchedInv, OrderInv, Preempt, HandlerStep, DeferStart, DeferStop
<1>2. CASE Preempt
  <2>1. Resched(s) /\ Defer.ndefers = 0
    BY <1>2 DEF Preempt
  <2>2. SwitchOnly(s.st, prstate')
    BY <1>1, <2>1, ReschedBalanced DEF SchedInv
  <2> QED BY <1>1, <2>1, <2>2, ReschedOrdered
<1>3. CASE DeferStart
  BY <1>3 DEF DeferStart, OrderInv, Ordered, UsersAbove, tableVars
<1>4. CASE DeferStop
  <2>1. Defer.ndefers = 1 /\ Defer' = [Defer EXCEPT !.ndefers = @ - 1]
    BY <1>1, <1>4 DEF DeferStop
  <2>2. CASE Defer.attempt /\ Switch(s)
    <3>1. /\ Ordered(readyqueue)'
          /\ prprio'[NULLPROC] = 0 /\ \A p \in Pid : prprio'[p] >= prprio[p]
          /\ currpid' = NULLPROC => \A p \in User : prstate'[p] # "READY"
      BY <1>1, <2>2, SwitchOrdered
    <3>2. prprio' \in [Pid -> MinPrio .. MaxPrio] /\ SwitchOnly(s.st, prstate')
      BY <1>1, <2>2, SwitchBalanced
    <3>3. ASSUME NEW p \in User, prstate'[p] # "FREE" PROVE prprio'[p] >= 1
      <4>1. p \in Pid /\ s.st[p] # "FREE"
        BY <3>2, <3>3, PidFacts DEF SwitchOnly, Runnable
      <4>2. prprio[p] >= 1 /\ prprio'[p] >= prprio[p] /\ prprio[p] \in Int /\ prprio'[p] \in Int
        BY <1>1, <3>1, <3>2, <4>1, PidFacts DEF UsersAbove
      <4> QED BY <4>2
    <3> QED BY <3>1, <3>3 DEF OrderInv, UsersAbove
  <2>3. CASE ~Defer.attempt /\ UNCHANGED <<prstate, prprio, currpid, readyqueue, cpu>>
    BY <2>3 DEF OrderInv, Ordered, UsersAbove
  <2> QED BY <1>4, <2>1, <2>2, <2>3 DEF DeferStop
<1> QED BY <1>2, <1>3, <1>4 DEF HandlerStep

----------------------------------------------------------------------------
Waiters(s) == {p \in Pid : prstate[p] = "WAIT" /\ prsem[p] = s}

\* A queue of a semaphore: every entry has key 0.
FirstCome(q) == q \in Seq(Entries(Pid)) /\ OnceEach(q) /\ \A i \in DOMAIN q : q[i].key = 0

SemTypes ==
  /\ sstate \in [Sem -> {"FREE", "USED"}] /\ scount \in [Sem -> -NPROC .. MaxCount]
  /\ squeue \in [Sem -> Seq(Entries(Pid))] /\ nextsem \in Sem
  /\ prsem \in [Pid -> Sem \union {NoSem}]

\* How long the queue of s has to be.
Deficit(s) == IF sstate[s] = "USED" /\ scount[s] < 0 THEN -scount[s] ELSE 0

\* On the queue of a semaphore are those that wait for it, as many as its count owes.
SemInv ==
  /\ SemTypes
  /\ \A p \in Pid : prstate[p] = "WAIT" => prsem[p] \in Sem
  /\ \A s \in Sem : /\ FirstCome(squeue[s]) /\ PidsOf(squeue[s]) = Waiters(s)
                    /\ Len(squeue[s]) = Deficit(s)

Inv == SchedInv /\ SemInv

----------------------------------------------------------------------------
\* Semaphores are numbered from 0, and no number is no semaphore.
LEMMA SemFacts ==
  /\ NSEM \in Nat \ {0} /\ Sem = 0 .. NSEM - 1 /\ NoSem \notin Sem
  /\ NPROC \in Nat /\ MaxCount \in Nat \ {0}
  BY SemaphoresAssumption, SchedAssumption DEF Sem, NoSem

\* newsem finds a free entry if there is one.
LEMMA NewSemFree ==
  ASSUME nextsem \in Sem, \E s \in Sem : sstate[s] = "FREE"
  PROVE  NewSem \in Sem /\ sstate[NewSem] = "FREE" /\ (NewSem + 1) % NSEM \in Sem
<1>1. NSEM \in Nat \ {0} /\ Sem = 0 .. NSEM - 1
  BY SemFacts
<1> DEFINE at(i) == (nextsem + i) % NSEM
<1> DEFINE I == {i \in 0 .. NSEM - 1 : sstate[at(i)] = "FREE"}
<1>2. PICK s \in Sem : sstate[s] = "FREE"
  OBVIOUS
<1>3. PICK i \in 0 .. NSEM - 1 : at(i) = s
  BY <1>1, RoundTheTable
<1> PICK J : J = I
  OBVIOUS
<1>4. J \subseteq Nat /\ J # {}
  <2>1. sstate[at(i)] = "FREE"
    BY <1>2, <1>3
  <2> HIDE DEF at
  <2> QED BY <1>1, <2>1
<1>5. Min(J) \in J
  BY ONLY <1>4, LeastMember
<1>6. NewSem = at(Min(J))
  BY DEF NewSem, Min
<1>7. \A j \in Nat : (nextsem + j) % NSEM \in Sem
  BY <1>1, RoundTheTable
<1>8. NewSem \in Sem /\ sstate[NewSem] = "FREE"
  BY <1>4, <1>5, <1>6, <1>7
<1>9. (NewSem + 1) % NSEM \in Sem
  <2>1. NewSem \in 0 .. NSEM - 1
    BY <1>1, <1>8
  <2> QED BY <1>1, <2>1, RoundTheTable
<1> QED BY <1>8, <1>9

\* The processes that the first n entries of a queue belong to.
FirstOf(q, n) == {q[i].pid : i \in 1 .. n}

\* r is q from n places further on.
FurtherOn(r, q, n) == \A i \in DOMAIN r : n + i \in DOMAIN q /\ r[i] = q[n + i]

\* What is left of a queue that lost its first n entries.
LEMMA DroppedFacts ==
  ASSUME NEW q, FirstCome(q), NEW n \in 0 .. Len(q), NEW r, r = Dropped(q, n)
  PROVE  /\ FirstCome(r) /\ Len(r) = Len(q) - n
         /\ PidsOf(r) = PidsOf(q) \ FirstOf(q, n) /\ FirstOf(q, n) \subseteq PidsOf(q)
         /\ FurtherOn(r, q, n)
<1>1. /\ q \in Seq(Entries(Pid)) /\ Len(q) \in Nat /\ DOMAIN q = 1 .. Len(q)
      /\ n \in Nat /\ n <= Len(q)
  BY DEF FirstCome
<1>2. /\ r \in Seq(Entries(Pid)) /\ Len(r) = Len(q) - n /\ DOMAIN r = 1 .. Len(q) - n
      /\ \A i \in 1 .. Len(q) - n : r[i] = q[n + i]
  <2>1. r = SubSeq(q, n + 1, Len(q))
    BY DEF Dropped
  <2> PICK A : A = Entries(Pid)
    OBVIOUS
  <2> PICK m : m = Len(q)
    OBVIOUS
  <2>2. \A i \in n + 1 .. m : q[i] \in A
    BY <1>1
  <2>3. n + 1 \in Int /\ m \in Int /\ r = SubSeq(q, n + 1, m)
    BY <1>1, <2>1
  <2>4. /\ r \in Seq(A) /\ Len(r) = IF n + 1 <= m THEN m - (n + 1) + 1 ELSE 0
        /\ \A i \in 1 .. m - (n + 1) + 1 : r[i] = q[(n + 1) + i - 1]
    BY ONLY <2>2, <2>3, SubSeqProperties
  <2>5. Len(r) = m - n /\ DOMAIN r = 1 .. m - n
    BY <1>1, <2>4
  <2>6. \A i \in 1 .. m - n : r[i] = q[n + i]
    <3> TAKE i \in 1 .. m - n
    <3>1. i \in 1 .. m - (n + 1) + 1 /\ (n + 1) + i - 1 = n + i
      BY <1>1
    <3> QED BY <2>4, <3>1
  <2> QED BY <2>4, <2>5, <2>6
<1>3. \A i \in 1 .. Len(q) - n : n + i \in DOMAIN q
  BY <1>1
<1>4. OnceEach(r)
  <2> SUFFICES ASSUME NEW i \in 1 .. Len(q) - n, NEW j \in 1 .. Len(q) - n, r[i].pid = r[j].pid
               PROVE  i = j
    BY <1>2 DEF OnceEach
  <2>1. q[n + i].pid = q[n + j].pid /\ n + i \in DOMAIN q /\ n + j \in DOMAIN q
    BY <1>2, <1>3
  <2>2. n + i = n + j
    BY <2>1 DEF OnceEach, FirstCome
  <2> QED BY <1>1, <2>2
<1>5. ASSUME NEW v PROVE v \in PidsOf(r) <=> v \in PidsOf(q) \ FirstOf(q, n)
  <2>1. ASSUME v \in PidsOf(r) PROVE v \in PidsOf(q) \ FirstOf(q, n)
    <3>1. PICK i \in 1 .. Len(q) - n : v = q[n + i].pid
      BY <1>2, <2>1 DEF PidsOf
    <3>2. ASSUME NEW j \in 1 .. n PROVE q[j].pid # v
      <4>1. j \in DOMAIN q /\ n + i \in DOMAIN q /\ j # n + i
        BY <1>1, <1>3
      <4> QED BY <3>1, <4>1 DEF OnceEach, FirstCome
    <3> QED BY <1>3, <3>1, <3>2 DEF PidsOf, FirstOf
  <2>2. ASSUME v \in PidsOf(q) \ FirstOf(q, n) PROVE v \in PidsOf(r)
    <3>1. PICK i \in 1 .. Len(q) : v = q[i].pid
      BY <1>1, <2>2 DEF PidsOf
    <3>2. i \notin 1 .. n
      BY <2>2, <3>1 DEF FirstOf
    <3>3. i - n \in 1 .. Len(q) - n /\ n + (i - n) = i
      BY <1>1, <3>2
    <3>4. r[i - n] = q[i]
      BY <1>2, <3>3
    <3> QED BY <1>2, <3>1, <3>3, <3>4 DEF PidsOf
  <2> QED BY <2>1, <2>2
<1>6. FirstOf(q, n) \subseteq PidsOf(q)
  BY <1>1 DEF FirstOf, PidsOf
<1>7. \A i \in DOMAIN r : r[i].key = 0
  BY SMTT(40), <1>2, <1>3 DEF FirstCome
<1>8. FurtherOn(r, q, n)
  BY <1>2, <1>3 DEF FurtherOn
<1> QED BY <1>2, <1>4, <1>5, <1>6, <1>7, <1>8 DEF FirstCome

\* The first n processes that wait on s, made ready one after the other.
LEMMA ReadyFirstFacts ==
  ASSUME SchedInv, SemInv, NEW s \in Sem, NEW n \in 0 .. Len(squeue[s]),
         NEW r, r = ReadyFirst(s, n)
  PROVE  /\ Balanced(r.st, r.rq, currpid)
         /\ \A p \in Pid : r.st[p] = IF p \in FirstOf(squeue[s], n) THEN "READY" ELSE prstate[p]
         /\ FirstOf(squeue[s], n) \subseteq Waiters(s)
         /\ Ordered(readyqueue) => Ordered(r.rq)
<1> PICK q, a, pids : q = squeue[s] /\ a = Here(prstate) /\ pids = FirstPids(q, n)
  OBVIOUS
<1>1. /\ FirstCome(q) /\ PidsOf(q) = Waiters(s) /\ n \in 0 .. Len(q)
      /\ q \in Seq(Entries(Pid)) /\ Len(q) \in Nat /\ DOMAIN q = 1 .. Len(q)
  BY DEF SemInv, FirstCome
<1>2. pids = [i \in 1 .. n |-> q[i].pid] /\ n \in Nat
  BY <1>1 DEF FirstPids
<1>3. Len(pids) = n
  BY <1>2
<1>4. a.st = prstate /\ a.rq = readyqueue
  BY DEF Here
<1>5. FirstOf(q, n) \subseteq Waiters(s)
  BY <1>1 DEF FirstOf, PidsOf
<1>6. \A i \in 1 .. n : pids[i] \in Pid /\ a.st[pids[i]] = "WAIT"
  BY <1>2, <1>4, <1>5 DEF FirstOf, Waiters
<1>7. \A i, j \in 1 .. n : pids[i] = pids[j] => i = j
  BY SMTT(40), <1>1, <1>2 DEF FirstCome, OnceEach
<1> DEFINE after[k \in 0 .. n] == IF k = 0 THEN a ELSE Readied(after[k - 1], pids[k])
<1>8. Readying(after, a, pids, n)
  <2>1. \E f : Readying(f, a, pids, n)
    BY ONLY <1>2, ReadyingExists
  <2> QED BY <2>1 DEF Readying
<1>9. r = after[n]
  BY <1>3 DEF ReadyFirst
<1> HIDE DEF after
<1>10. /\ Balanced(a.st, a.rq, currpid) /\ prprio \in [Pid -> Int] /\ n \in Nat
  BY <1>2, <1>4, PidFacts DEF SchedInv
<1>11. /\ Balanced(after[n].st, after[n].rq, currpid)
       /\ \A p \in Pid : after[n].st[p] = IF \E i \in 1 .. n : p = pids[i] THEN "READY" ELSE a.st[p]
       /\ Ordered(a.rq) => Ordered(after[n].rq)
  BY ONLY <1>6, <1>7, <1>8, <1>10, ReadiedInTurn
<1>12. \A p \in Pid : p \in FirstOf(q, n) <=> \E i \in 1 .. n : p = pids[i]
  BY <1>2 DEF FirstOf
<1> QED BY <1>4, <1>5, <1>9, <1>11, <1>12

----------------------------------------------------------------------------
Asleep == {p \in Pid : prstate[p] = "WAIT"}

\* One semaphore changes, and with it the processes that wait on it and on no other.
LEMMA OneSemaphore ==
  ASSUME SemInv, NEW s \in Sem, NEW x \in {"FREE", "USED"}, NEW c \in -NPROC .. MaxCount, NEW q,
         sstate' = [sstate EXCEPT ![s] = x], scount' = [scount EXCEPT ![s] = c],
         squeue' = [squeue EXCEPT ![s] = q], nextsem' \in Sem,
         prsem' \in [Pid -> Sem \union {NoSem}],
         FirstCome(q), PidsOf(q) = Waiters(s)', Len(q) = IF x = "USED" /\ c < 0 THEN -c ELSE 0,
         \A t \in Sem \ {s} : Waiters(t)' = Waiters(t),
         \A p \in Pid : prstate'[p] = "WAIT" => prsem'[p] \in Sem
  PROVE  SemInv'
<1>1. SemTypes'
  BY DEF SemInv, SemTypes, FirstCome
<1>2. ASSUME NEW t \in Sem
      PROVE  /\ FirstCome(squeue'[t]) /\ PidsOf(squeue'[t]) = Waiters(t)'
             /\ Len(squeue'[t]) = Deficit(t)'
  <2>1. CASE t = s
    <3>1. squeue'[t] = q /\ sstate'[t] = x /\ scount'[t] = c
      BY <2>1 DEF SemInv, SemTypes
    <3> QED BY <2>1, <3>1 DEF Deficit
  <2>2. CASE t # s
    <3>1. squeue'[t] = squeue[t] /\ sstate'[t] = sstate[t] /\ scount'[t] = scount[t]
      BY <2>2 DEF SemInv, SemTypes
    <3>2. Waiters(t)' = Waiters(t)
      BY <2>2
    <3> QED BY <3>1, <3>2 DEF Deficit, SemInv
  <2> QED BY <2>1, <2>2
<1> QED BY <1>1, <1>2 DEF SemInv

\* A step of the scheduler is no business of the semaphores.
LEMMA SemUntouched ==
  ASSUME SemInv, UNCHANGED semVars, SameWaiters, prsem' \in [Pid -> Sem \union {NoSem}]
  PROVE  SemInv' /\ Asleep' = Asleep
<1>1. \A t \in Sem : Waiters(t)' = Waiters(t)
  BY DEF Waiters, SameWaiters
<1>2. SemTypes'
  BY DEF SemInv, SemTypes, semVars
<1>3. \A p \in Pid : prstate'[p] = "WAIT" => prsem'[p] \in Sem
  BY DEF SemInv, SameWaiters
<1>4. \A t \in Sem : Deficit(t)' = Deficit(t) /\ squeue'[t] = squeue[t]
  BY DEF semVars, Deficit
<1>5. Asleep' = Asleep
  BY DEF Asleep, SameWaiters
<1> QED BY <1>1, <1>2, <1>3, <1>4, <1>5 DEF SemInv

\* A call that lets the first n processes that wait on s go on, and reschedules.
LEMMA ReleaseInv ==
  ASSUME Inv, cpu = "up", NEW s \in Sem, NEW n \in 0 .. Len(squeue[s]),
         Resched(ReadyFirst(s, n)), UNCHANGED tableVars,
         NEW x \in {"FREE", "USED"}, NEW c \in -NPROC .. MaxCount,
         sstate' = [sstate EXCEPT ![s] = x], scount' = [scount EXCEPT ![s] = c],
         squeue' = [squeue EXCEPT ![s] = Dropped(squeue[s], n)], nextsem' = nextsem,
         Len(squeue[s]) - n = IF x = "USED" /\ c < 0 THEN -c ELSE 0
  PROVE  Inv' /\ Asleep' = Asleep \ FirstOf(squeue[s], n)
<1> PICK r, q : r = ReadyFirst(s, n) /\ q = Dropped(squeue[s], n)
  OBVIOUS
<1>1. /\ Balanced(r.st, r.rq, currpid)
      /\ \A p \in Pid : r.st[p] = IF p \in FirstOf(squeue[s], n) THEN "READY" ELSE prstate[p]
      /\ FirstOf(squeue[s], n) \subseteq Waiters(s)
  BY ReadyFirstFacts DEF Inv
<1>2. Live(r.st) = Live(prstate)
  BY <1>1 DEF Live, Waiters
<1>3. Defer.ndefers > 0 => r.st[currpid] = "CURR"
  BY <1>1 DEF Waiters, Inv, SchedInv, Balanced
<1>4. SchedInv' /\ SwitchOnly(r.st, prstate')
  BY <1>1, <1>2, <1>3, ReschedInv DEF Inv, SchedInv, tableVars
<1>5. \A p \in Pid : prstate'[p] = "WAIT" <=> prstate[p] = "WAIT" /\ p \notin FirstOf(squeue[s], n)
  BY <1>1, <1>4 DEF SwitchOnly, Runnable
<1>6. prsem' = prsem
  BY DEF tableVars
<1>7. /\ FirstCome(q) /\ Len(q) = Len(squeue[s]) - n
      /\ PidsOf(q) = PidsOf(squeue[s]) \ FirstOf(squeue[s], n)
  BY DroppedFacts DEF Inv, SemInv
<1>8. PidsOf(q) = Waiters(s)'
  BY <1>5, <1>6, <1>7 DEF Waiters, Inv, SemInv
<1>9. \A t \in Sem \ {s} : Waiters(t)' = Waiters(t)
  BY <1>1, <1>5, <1>6 DEF Waiters
<1>10. Asleep' = Asleep \ FirstOf(squeue[s], n)
  BY <1>5 DEF Asleep
<1>11. SemInv'
  BY <1>5, <1>6, <1>7, <1>8, <1>9, OneSemaphore DEF Inv, SemInv, SemTypes
<1> QED BY <1>4, <1>10, <1>11 DEF Inv

----------------------------------------------------------------------------
\* semcreate finds the queue of a free semaphore empty.
LEMMA SemcreateInv ==
  ASSUME Inv, NEW n \in 0 .. MaxCount, Semcreate(n)
  PROVE  Inv' /\ Asleep' = Asleep /\ NewSem \in Sem /\ squeue[NewSem] = <<>>
<1> PICK s : s = NewSem
  OBVIOUS
<1>1. s \in Sem /\ sstate[s] = "FREE" /\ nextsem' \in Sem
  BY NewSemFree DEF Inv, SemInv, SemTypes, Semcreate
<1>2. Len(squeue[s]) = 0 /\ squeue[s] = <<>>
  <2>1. Len(squeue[s]) = 0 /\ squeue[s] \in Seq(Entries(Pid))
    BY <1>1 DEF Inv, SemInv, SemTypes, Deficit
  <2> QED BY <2>1
<1>3. /\ sstate' = [sstate EXCEPT ![s] = "USED"] /\ scount' = [scount EXCEPT ![s] = n]
      /\ squeue' = squeue /\ UNCHANGED schedVars
  BY DEF Semcreate
<1>4. SchedInv' /\ Asleep' = Asleep /\ prsem' = prsem /\ prstate' = prstate
  BY <1>3 DEF Inv, SchedInv, Balanced, Asleep, schedVars, tableVars
<1>5. \A t \in Sem : Waiters(t)' = Waiters(t)
  BY <1>4 DEF Waiters
<1>6. squeue' = [squeue EXCEPT ![s] = squeue[s]]
  BY <1>1, <1>3 DEF Inv, SemInv, SemTypes
<1>7. n \in -NPROC .. MaxCount /\ ~(n < 0)
  BY SemFacts
<1>8. /\ FirstCome(squeue[s]) /\ PidsOf(squeue[s]) = Waiters(s)'
      /\ prsem' \in [Pid -> Sem \union {NoSem}]
      /\ \A p \in Pid : prstate'[p] = "WAIT" => prsem'[p] \in Sem
  BY <1>1, <1>4, <1>5 DEF Inv, SemInv, SemTypes
<1>9. SemInv'
  BY <1>1, <1>2, <1>3, <1>5, <1>6, <1>7, <1>8, OneSemaphore DEF Inv
<1> QED BY <1>1, <1>2, <1>4, <1>9 DEF Inv

\* wait takes a unit, or puts the caller on the queue.
LEMMA WaitInv ==
  ASSUME Inv, NEW s \in Sem, Wait(s)
  PROVE  /\ Inv'
         /\ scount[s] > 0 => Asleep' = Asleep /\ squeue' = squeue
         /\ scount[s] <= 0 =>
              /\ Asleep' = Asleep \union {currpid} /\ currpid \notin Asleep
              /\ squeue' = [squeue EXCEPT ![s] = Append(squeue[s], [pid |-> currpid, key |-> 0])]
<1>1. /\ cpu = "up" /\ Defer.ndefers = 0 /\ currpid # NULLPROC /\ sstate[s] = "USED"
      /\ scount' = [scount EXCEPT ![s] = scount[s] - 1] /\ UNCHANGED <<sstate, nextsem>>
  BY DEF Wait, Caller
<1>2. /\ scount[s] \in -NPROC .. MaxCount /\ NPROC \in Nat /\ MaxCount \in Nat
      /\ Len(squeue[s]) = (IF scount[s] < 0 THEN -scount[s] ELSE 0)
      /\ squeue[s] \in Seq(Entries(Pid)) /\ FirstCome(squeue[s]) /\ PidsOf(squeue[s]) = Waiters(s)
      /\ sstate' = [sstate EXCEPT ![s] = "USED"] /\ nextsem' \in Sem
  BY <1>1, SemFacts DEF Inv, SemInv, SemTypes, Deficit
<1>3. currpid \in Pid /\ prstate[currpid] = "CURR"
  BY DEF Inv, SchedInv, Balanced
<1>4. CASE scount[s] > 0
  <2>1. UNCHANGED <<schedVars, squeue>>
    BY <1>2, <1>4 DEF Wait
  <2>2. SchedInv' /\ Asleep' = Asleep /\ prsem' = prsem /\ prstate' = prstate
    BY <2>1 DEF Inv, SchedInv, Balanced, Asleep, schedVars, tableVars
  <2>3. \A t \in Sem : Waiters(t)' = Waiters(t)
    BY <2>2 DEF Waiters
  <2>4. squeue' = [squeue EXCEPT ![s] = squeue[s]]
    BY <2>1 DEF Inv, SemInv, SemTypes
  <2>5. scount[s] - 1 \in -NPROC .. MaxCount /\ ~(scount[s] - 1 < 0) /\ Len(squeue[s]) = 0
    BY <1>2, <1>4
  <2>6. /\ prsem' \in [Pid -> Sem \union {NoSem}] /\ PidsOf(squeue[s]) = Waiters(s)'
        /\ \A p \in Pid : prstate'[p] = "WAIT" => prsem'[p] \in Sem
    BY <1>2, <2>2, <2>3 DEF Inv, SemInv, SemTypes
  <2>7. SemInv'
    BY <1>1, <1>2, <2>3, <2>4, <2>5, <2>6, OneSemaphore DEF Inv
  <2> QED BY <1>2, <1>4, <2>1, <2>2, <2>7 DEF Inv
<1>5. CASE scount[s] <= 0
  <2> PICK x : x = Here([prstate EXCEPT ![currpid] = "WAIT"])
    OBVIOUS
  <2> PICK q : q = Enqueue(squeue[s], currpid, 0, NPROC)
    OBVIOUS
  <2>1. /\ prsem' = [prsem EXCEPT ![currpid] = s] /\ squeue' = [squeue EXCEPT ![s] = q]
        /\ Resched(x) /\ UNCHANGED <<prcount, nextpid>>
    BY <1>2, <1>5 DEF Wait
  <2>2. x.rq = readyqueue /\ \A p \in Pid : x.st[p] = IF p = currpid THEN "WAIT" ELSE prstate[p]
    BY DEF Here, Inv, SchedInv, Balanced
  <2>3. Balanced(x.st, x.rq, currpid)
    <3>1. x.st \in [Pid -> PrState]
      BY DEF Here, Inv, SchedInv, Balanced, PrState
    <3>2. {p \in Pid : x.st[p] = "READY"} = {p \in Pid : prstate[p] = "READY"}
      BY <1>3, <2>2
    <3> QED BY <1>1, <2>2, <3>1, <3>2, PidFacts DEF Inv, SchedInv, Balanced
  <2>4. Live(x.st) = Live(prstate)
    BY <1>3, <2>2 DEF Live
  <2>5. SchedInv' /\ SwitchOnly(x.st, prstate')
    BY <1>1, <2>1, <2>3, <2>4, ReschedInv DEF Inv, SchedInv
  <2>6. \A p \in Pid : prstate'[p] = "WAIT" <=> p = currpid \/ prstate[p] = "WAIT"
    BY <2>2, <2>5 DEF SwitchOnly, Runnable
  <2>7. \A p \in Pid : prsem'[p] = IF p = currpid THEN s ELSE prsem[p]
    BY <2>1 DEF Inv, SemInv, SemTypes
  <2>8. currpid \notin PidsOf(squeue[s]) /\ OnceEach(squeue[s])
    BY <1>2, <1>3 DEF Waiters, FirstCome
  <2>9. Len(squeue[s]) < NPROC
    <3>1. Pid = 0 .. NPROC - 1 /\ NPROC \in Nat
      BY <1>2 DEF Pid
    <3>2. \A p \in Pid \ PidsOf(squeue[s]) : Len(squeue[s]) < NPROC
      BY ONLY <1>2, <2>8, <3>1, RoomForAnother
    <3> QED BY <1>3, <2>8, <3>2
  <2>10. /\ q \in Seq(Entries(Pid)) /\ Len(q) = Len(squeue[s]) + 1
         /\ OnceEach(q) /\ PidsOf(q) = PidsOf(squeue[s]) \union {currpid}
    <3>1. 0 \in Int
      OBVIOUS
    <3> QED BY ONLY <1>2, <1>3, <2>8, <2>9, <3>1, q = Enqueue(squeue[s], currpid, 0, NPROC), EnqueuePids
  <2>11. q = Append(squeue[s], [pid |-> currpid, key |-> 0])
    <3>1. \A j \in DOMAIN squeue[s] : squeue[s][j].key = 0
      BY <1>2 DEF FirstCome
    <3>2. 0 \in Int
      OBVIOUS
    <3> QED BY ONLY <1>2, <1>3, <2>9, <3>1, <3>2, q = Enqueue(squeue[s], currpid, 0, NPROC), EnqueueLast
  <2>12. FirstCome(q)
    <3>1. \A i \in DOMAIN q : q[i].key = 0
      <4> PICK e : e = [pid |-> currpid, key |-> 0]
        OBVIOUS
      <4>1. e.key = 0 /\ e \in Entries(Pid)
        BY <1>3 DEF Entries
      <4> PICK A, z : A = Entries(Pid) /\ z = squeue[s]
        OBVIOUS
      <4>2. z \in Seq(A) /\ e \in A /\ q = Append(z, e)
        BY <1>2, <2>11, <4>1
      <4>3. /\ Append(z, e) \in Seq(A) /\ Len(Append(z, e)) = Len(z) + 1
            /\ \A i \in 1 .. Len(z) : Append(z, e)[i] = z[i]
            /\ Append(z, e)[Len(z) + 1] = e
        BY ONLY <4>2, AppendProperties
      <4>4. Len(z) \in Nat /\ DOMAIN z = 1 .. Len(z) /\ DOMAIN q = 1 .. Len(z) + 1
        BY <4>2, <4>3
      <4>5. \A i \in 1 .. Len(z) + 1 : i \in 1 .. Len(z) \/ i = Len(z) + 1
        BY <4>4
      <4> QED BY ZenonT(60), <1>2, <4>1, <4>2, <4>3, <4>4, <4>5 DEF FirstCome
    <3> QED BY <2>10, <3>1 DEF FirstCome
  <2>13. PidsOf(q) = Waiters(s)'
    BY <1>2, <1>3, <2>6, <2>7, <2>10 DEF Waiters
  <2>14. \A t \in Sem \ {s} : Waiters(t)' = Waiters(t)
    BY <1>3, <2>6, <2>7 DEF Waiters
  <2>15. /\ scount[s] - 1 \in -NPROC .. MaxCount
         /\ Len(q) = IF "USED" = "USED" /\ scount[s] - 1 < 0 THEN -(scount[s] - 1) ELSE 0
    BY SMTT(40), <1>2, <1>5, <2>9, <2>10
  <2>16. /\ prsem' \in [Pid -> Sem \union {NoSem}]
         /\ \A p \in Pid : prstate'[p] = "WAIT" => prsem'[p] \in Sem
    BY <2>1, <2>6, <2>7 DEF Inv, SemInv, SemTypes
  <2>17. SemInv'
    BY <1>1, <1>2, <2>1, <2>12, <2>13, <2>14, <2>15, <2>16, OneSemaphore DEF Inv
  <2>18. Asleep' = Asleep \union {currpid} /\ currpid \notin Asleep
    BY <1>3, <2>6 DEF Asleep
  <2>19. Inv' /\ ~(scount[s] > 0)
    BY <1>2, <1>5, <2>5, <2>17 DEF Inv
  <2>20. squeue' = [squeue EXCEPT ![s] = Append(squeue[s], [pid |-> currpid, key |-> 0])]
    BY ONLY <2>1, <2>11
  <2> QED BY <2>18, <2>19, <2>20
<1> QED BY <1>2, <1>4, <1>5

\* The first n processes that wait on s no longer do.
Released(s, n) ==
  /\ n \in 0 .. Len(squeue[s])
  /\ squeue' = [squeue EXCEPT ![s] = Dropped(squeue[s], n)]
  /\ Asleep' = Asleep \ FirstOf(squeue[s], n)

\* No process, or as many as there are.
LEMMA OwedFacts ==
  ASSUME SemInv, NEW s \in Sem, sstate[s] = "USED", NEW n \in Nat
  PROVE  /\ Owed(s, n) \in 0 .. Len(squeue[s]) /\ Len(squeue[s]) \in Nat
         /\ scount[s] \in -NPROC .. MaxCount /\ scount[s] \in Int
         /\ Len(squeue[s]) = IF scount[s] < 0 THEN -scount[s] ELSE 0
         /\ Owed(s, n) = IF n <= Len(squeue[s]) THEN n ELSE Len(squeue[s])
<1>1. /\ scount[s] \in -NPROC .. MaxCount /\ NPROC \in Nat /\ MaxCount \in Nat
      /\ Len(squeue[s]) = IF scount[s] < 0 THEN -scount[s] ELSE 0
  BY SemFacts DEF SemInv, SemTypes, Deficit
<1> QED BY <1>1 DEF Owed

\* signal gives a unit to the process that has waited longest, if there is one.
LEMMA SignalInv ==
  ASSUME Inv, NEW s \in Sem, Signal(s)
  PROVE  Inv' /\ Released(s, Owed(s, 1))
<1>1. /\ cpu = "up" /\ sstate[s] = "USED" /\ scount[s] < MaxCount
      /\ scount' = [scount EXCEPT ![s] = scount[s] + 1] /\ UNCHANGED <<sstate, nextsem>>
  BY DEF Signal
<1>2. /\ Owed(s, 1) \in 0 .. Len(squeue[s]) /\ Len(squeue[s]) \in Nat
      /\ scount[s] \in -NPROC .. MaxCount /\ NPROC \in Nat /\ MaxCount \in Nat
      /\ Len(squeue[s]) = (IF scount[s] < 0 THEN -scount[s] ELSE 0)
      /\ Owed(s, 1) = IF 1 <= Len(squeue[s]) THEN 1 ELSE Len(squeue[s])
  BY <1>1, OwedFacts, SemFacts DEF Inv
<1>3. /\ FirstCome(squeue[s]) /\ PidsOf(squeue[s]) = Waiters(s) /\ squeue[s] \in Seq(Entries(Pid))
      /\ sstate' = [sstate EXCEPT ![s] = "USED"] /\ nextsem' \in Sem
      /\ scount[s] + 1 \in -NPROC .. MaxCount
  BY <1>1, <1>2 DEF Inv, SemInv, SemTypes
<1>4. CASE scount[s] >= 0
  <2>1. UNCHANGED <<schedVars, squeue>>
    BY <1>2, <1>4 DEF Signal
  <2>2. SchedInv' /\ Asleep' = Asleep /\ prsem' = prsem /\ prstate' = prstate
    BY <2>1 DEF Inv, SchedInv, Balanced, Asleep, schedVars, tableVars
  <2>3. \A t \in Sem : Waiters(t)' = Waiters(t)
    BY <2>2 DEF Waiters
  <2>4. squeue' = [squeue EXCEPT ![s] = squeue[s]]
    BY <2>1 DEF Inv, SemInv, SemTypes
  <2>5. ~(scount[s] + 1 < 0) /\ Len(squeue[s]) = 0 /\ Owed(s, 1) = 0
    BY <1>2, <1>4
  <2>6. /\ prsem' \in [Pid -> Sem \union {NoSem}] /\ PidsOf(squeue[s]) = Waiters(s)'
        /\ \A p \in Pid : prstate'[p] = "WAIT" => prsem'[p] \in Sem
    BY <1>3, <2>2, <2>3 DEF Inv, SemInv, SemTypes
  <2>7. SemInv'
    BY <1>1, <1>3, <2>3, <2>4, <2>5, <2>6, OneSemaphore DEF Inv
  <2>8. Dropped(squeue[s], 0) = squeue[s] /\ FirstOf(squeue[s], 0) = {}
    BY <1>3 DEF Dropped, FirstOf
  <2> QED BY <1>2, <2>2, <2>4, <2>5, <2>7, <2>8 DEF Inv, Released
<1>5. CASE scount[s] < 0
  <2>1. Len(squeue[s]) > 0 /\ Owed(s, 1) = 1 /\ 1 \in 0 .. Len(squeue[s]) /\ squeue[s] # <<>>
    BY <1>2, <1>5
  <2>2. Head(squeue[s]).pid \in Waiters(s)
    <3> PICK A, z : A = Entries(Pid) /\ z = squeue[s]
      OBVIOUS
    <3>1. z \in Seq(A) /\ z # <<>> /\ Len(z) > 0
      BY <1>3, <2>1
    <3>2. Head(z) = z[1] /\ 1 \in DOMAIN z
      BY ONLY <3>1
    <3> QED BY <1>3, <3>2 DEF PidsOf
  <2>3. ~Refused(s)
    BY <2>1, <2>2 DEF Refused, Waiters
  <2>4. /\ squeue' = [squeue EXCEPT ![s] = Dropped(squeue[s], 1)]
        /\ Resched(ReadyFirst(s, 1)) /\ UNCHANGED tableVars
    BY <1>2, <1>5, <2>3 DEF Signal
  <2>5. Len(squeue[s]) - 1 = IF "USED" = "USED" /\ scount[s] + 1 < 0 THEN -(scount[s] + 1) ELSE 0
    BY <1>2, <1>5
  <2>6. Inv' /\ Asleep' = Asleep \ FirstOf(squeue[s], 1)
    BY <1>1, <1>3, <2>1, <2>4, <2>5, ReleaseInv
  <2> QED BY <1>2, <2>1, <2>4, <2>6 DEF Released
<1> QED BY <1>2, <1>4, <1>5

\* signaln is n times signal.
LEMMA SignalnInv ==
  ASSUME Inv, NEW s \in Sem, NEW n \in 0 .. NPROC, Signaln(s, n)
  PROVE  Inv' /\ Released(s, Owed(s, n))
<1>1. /\ cpu = "up" /\ sstate[s] = "USED" /\ scount[s] + n <= MaxCount
      /\ scount' = [scount EXCEPT ![s] = scount[s] + n] /\ UNCHANGED <<sstate, nextsem, tableVars>>
      /\ squeue' = [squeue EXCEPT ![s] = Dropped(squeue[s], Owed(s, n))]
      /\ Resched(ReadyFirst(s, Owed(s, n)))
  BY DEF Signaln
<1>2. n \in Nat /\ NPROC \in Nat /\ MaxCount \in Nat
  BY SemFacts
<1> PICK k : k = Owed(s, n)
  OBVIOUS
<1>3. /\ k \in 0 .. Len(squeue[s]) /\ Len(squeue[s]) \in Nat
      /\ scount[s] \in -NPROC .. MaxCount
      /\ Len(squeue[s]) = (IF scount[s] < 0 THEN -scount[s] ELSE 0)
      /\ k = IF n <= Len(squeue[s]) THEN n ELSE Len(squeue[s])
  BY <1>1, <1>2, OwedFacts DEF Inv
<1>4. sstate' = [sstate EXCEPT ![s] = "USED"] /\ scount[s] + n \in -NPROC .. MaxCount
  BY <1>1, <1>2, <1>3 DEF Inv, SemInv, SemTypes
<1>5. Len(squeue[s]) - k = IF "USED" = "USED" /\ scount[s] + n < 0 THEN -(scount[s] + n) ELSE 0
  BY <1>2, <1>3
<1>6. Inv' /\ Asleep' = Asleep \ FirstOf(squeue[s], k)
  BY <1>1, <1>3, <1>4, <1>5, ReleaseInv
<1> QED BY <1>1, <1>3, <1>6 DEF Released

\* semreset lets everybody go on.
LEMMA SemresetInv ==
  ASSUME Inv, NEW s \in Sem, NEW n \in 0 .. MaxCount, Semreset(s, n)
  PROVE  Inv' /\ Released(s, Len(squeue[s])) /\ squeue' = [squeue EXCEPT ![s] = <<>>]
<1> PICK k : k = Len(squeue[s])
  OBVIOUS
<1>1. /\ cpu = "up" /\ sstate[s] = "USED"
      /\ scount' = [scount EXCEPT ![s] = n] /\ UNCHANGED <<sstate, nextsem, tableVars>>
      /\ squeue' = [squeue EXCEPT ![s] = <<>>]
      /\ Resched(ReadyFirst(s, k))
  BY DEF Semreset, Caller
<1>2. squeue[s] \in Seq(Entries(Pid)) /\ k \in Nat /\ k \in 0 .. Len(squeue[s])
  BY DEF Inv, SemInv, SemTypes
<1>3. Dropped(squeue[s], k) = <<>>
  BY <1>2 DEF Dropped
<1>4. sstate' = [sstate EXCEPT ![s] = "USED"] /\ n \in -NPROC .. MaxCount /\ ~(n < 0)
  BY <1>1, SemFacts DEF Inv, SemInv, SemTypes
<1>5. Len(squeue[s]) - k = 0
  BY <1>2
<1>6. Inv' /\ Asleep' = Asleep \ FirstOf(squeue[s], k)
  BY <1>1, <1>2, <1>3, <1>4, <1>5, ReleaseInv
<1> QED BY <1>1, <1>2, <1>3, <1>6 DEF Released

\* So does semdelete.
LEMMA SemdeleteInv ==
  ASSUME Inv, NEW s \in Sem, Semdelete(s)
  PROVE  Inv' /\ Released(s, Len(squeue[s])) /\ squeue' = [squeue EXCEPT ![s] = <<>>]
<1> PICK k, c : k = Owed(s, -scount[s]) /\ c = (IF scount[s] < 0 THEN 0 ELSE scount[s]) + 1
  OBVIOUS
<1>1. /\ cpu = "up" /\ sstate[s] = "USED" /\ scount[s] < MaxCount
      /\ sstate' = [sstate EXCEPT ![s] = "FREE"]
      /\ scount' = [scount EXCEPT ![s] = c] /\ UNCHANGED <<nextsem, tableVars>>
      /\ squeue' = [squeue EXCEPT ![s] = Dropped(squeue[s], k)]
      /\ Resched(ReadyFirst(s, k))
  BY DEF Semdelete, Caller
<1>2. /\ squeue[s] \in Seq(Entries(Pid)) /\ Len(squeue[s]) \in Nat
      /\ scount[s] \in -NPROC .. MaxCount /\ NPROC \in Nat /\ MaxCount \in Nat \ {0}
      /\ Len(squeue[s]) = IF scount[s] < 0 THEN -scount[s] ELSE 0
  BY <1>1, SemFacts DEF Inv, SemInv, SemTypes, Deficit
<1>3. k = Len(squeue[s]) /\ c \in -NPROC .. MaxCount /\ k \in 0 .. Len(squeue[s])
  BY <1>1, <1>2 DEF Owed
<1>4. Dropped(squeue[s], k) = <<>>
  BY <1>2, <1>3 DEF Dropped
<1>5. Len(squeue[s]) - k = IF "FREE" = "USED" /\ c < 0 THEN -c ELSE 0
  BY <1>2, <1>3
<1>6. Inv' /\ Asleep' = Asleep \ FirstOf(squeue[s], k)
  BY <1>1, <1>3, <1>5, ReleaseInv
<1> QED BY <1>1, <1>3, <1>4, <1>6 DEF Released

\* kill of a process that does not wait is no business of the semaphores.
LEMMA KillInv ==
  ASSUME KillsWaiting = FALSE, Inv, NEW p \in Pid, Kill(p)
  PROVE  Inv' /\ Asleep' = Asleep /\ UNCHANGED semVars
<1>1. /\ cpu = "up" /\ Defer.ndefers = 0 /\ p # NULLPROC /\ prstate[p] # "FREE"
      /\ KillEnd(p, prstate[p], Removed(readyqueue, p))
  BY DEF Kill, Caller
<1>2. prcount' = prcount - 1 /\ UNCHANGED <<nextpid, prsem, sstate, squeue, nextsem>>
  BY <1>1 DEF KillEnd
<1>3. /\ prcount = Cardinality(Live(prstate)) /\ p \in Live(prstate)
      /\ prcount' = Cardinality(Live(prstate) \ {p}) /\ prcount' \in 0 .. NPROC
  <2>1. prcount = Cardinality(Live(prstate)) /\ p \in Live(prstate) /\ prcount \in 0 .. NPROC
    BY <1>1 DEF Inv, SchedInv, Live
  <2>2. Cardinality(Live(prstate) \ {p}) = prcount - 1
    BY <2>1, LiveAgain DEF Inv
  <2>3. prcount - 1 \in Nat
    <3> PICK L : L = Live(prstate) \ {p}
      OBVIOUS
    <3>1. IsFiniteSet(L)
      BY LiveAgain, FS_Subset DEF Inv
    <3> QED BY <2>2, <3>1, FS_CardinalityType
  <2> QED BY <1>2, <2>1, <2>2, <2>3, SemFacts
<1>4. CASE cpu' = "halted" /\ UNCHANGED <<prstate, prprio, currpid, readyqueue, Defer, scount>>
  <2>1. SchedInv'
    BY <1>2, <1>3, <1>4 DEF Inv, SchedInv
  <2>2. SameWaiters /\ UNCHANGED semVars /\ prsem' \in [Pid -> Sem \union {NoSem}]
    BY <1>2, <1>4 DEF SameWaiters, semVars, Inv, SemInv, SemTypes
  <2> QED BY <2>1, <2>2, SemUntouched DEF Inv
<1>5. CASE /\ prstate[p] = "CURR" /\ Resched(Here([prstate EXCEPT ![p] = "FREE"]))
           /\ UNCHANGED scount
  <2> PICK x : x = Here([prstate EXCEPT ![p] = "FREE"])
    OBVIOUS
  <2>1. x.rq = readyqueue /\ \A y \in Pid : x.st[y] = IF y = p THEN "FREE" ELSE prstate[y]
    BY DEF Here, Inv, SchedInv, Balanced
  <2>2. Balanced(x.st, x.rq, currpid)
    <3>1. x.st \in [Pid -> PrState]
      BY DEF Here, Inv, SchedInv, Balanced, PrState
    <3>2. {y \in Pid : x.st[y] = "READY"} = {y \in Pid : prstate[y] = "READY"}
      BY <1>5, <2>1
    <3> QED BY <1>1, <2>1, <3>1, <3>2, PidFacts DEF Inv, SchedInv, Balanced
  <2>3. Live(x.st) = Live(prstate) \ {p}
    BY <2>1 DEF Live
  <2>4. SchedInv' /\ SwitchOnly(x.st, prstate')
    <3>1. SchedInv /\ Resched(x) /\ ~(Defer.ndefers > 0) /\ nextpid' = nextpid
      BY <1>1, <1>2, <1>5 DEF Inv
    <3>2. prcount' \in 0 .. NPROC /\ prcount' = Cardinality(Live(x.st))
      BY <1>3, <2>3
    <3> QED BY ONLY <1>1, <2>2, <3>1, <3>2, ReschedInv
  <2>5. SameWaiters
    BY <1>2, <1>5, <2>1, <2>4 DEF SameWaiters, SwitchOnly, Runnable
  <2>6. UNCHANGED semVars /\ prsem' \in [Pid -> Sem \union {NoSem}]
    BY <1>2, <1>5 DEF semVars, Inv, SemInv, SemTypes
  <2> QED BY <2>4, <2>5, <2>6, SemUntouched DEF Inv
<1>6. CASE /\ prstate[p] \notin {"CURR", "WAIT"}
           /\ prstate' = [prstate EXCEPT ![p] = "FREE"]
           /\ readyqueue' = (IF prstate[p] = "SUSP" THEN readyqueue ELSE Removed(readyqueue, p))
           /\ UNCHANGED <<prprio, currpid, Defer, cpu, scount>>
  <2>1. readyqueue \in Seq(Entries(Pid)) /\ OnceEach(readyqueue)
    BY DEF Inv, SchedInv, Balanced
  <2> PICK q : q = Removed(readyqueue, p)
    OBVIOUS
  <2>2. /\ q \in Seq(Entries(Pid)) /\ OnceEach(q) /\ PidsOf(q) = PidsOf(readyqueue) \ {p}
    BY ONLY <2>1, q = Removed(readyqueue, p), RemovedFacts
  <2>3. \A y \in Pid : prstate'[y] = IF y = p THEN "FREE" ELSE prstate[y]
    BY <1>6 DEF Inv, SchedInv, Balanced
  <2>4. prstate' \in [Pid -> PrState]
    BY <1>6 DEF Inv, SchedInv, Balanced, PrState
  <2>5. /\ readyqueue' \in Seq(Entries(Pid)) /\ OnceEach(readyqueue')
        /\ PidsOf(readyqueue') = {y \in Pid : prstate'[y] = "READY"}
    BY <1>6, <2>1, <2>2, <2>3 DEF Inv, SchedInv, Balanced
  <2>6. Balanced(prstate', readyqueue', currpid') /\ prstate'[currpid'] = "CURR"
    BY <1>1, <1>6, <2>3, <2>4, <2>5, PidFacts DEF Inv, SchedInv, Balanced
  <2>7. Live(prstate') = Live(prstate) \ {p}
    BY <2>3 DEF Live
  <2>8. SchedInv'
    BY <1>2, <1>3, <1>6, <2>6, <2>7 DEF Inv, SchedInv
  <2>9. SameWaiters
    BY <1>2, <1>6, <2>3 DEF SameWaiters
  <2>10. UNCHANGED semVars /\ prsem' \in [Pid -> Sem \union {NoSem}]
    BY <1>2, <1>6 DEF semVars, Inv, SemInv, SemTypes
  <2> QED BY <2>8, <2>9, <2>10, SemUntouched DEF Inv
<1> QED BY <1>1, <1>4, <1>5, <1>6 DEF KillEnd

----------------------------------------------------------------------------
\* What the scheduler does by itself.
LEMMA SchedulerInv ==
  ASSUME Inv, ProcessCall \/ HandlerStep \/ Preempt, UNCHANGED semVars
  PROVE  Inv' /\ Asleep' = Asleep
<1>1. SchedInv' /\ SameWaiters /\ prsem' \in [Pid -> Sem \union {NoSem}]
  <2>0. prsem \in [Pid -> Sem \union {NoSem}] /\ DOMAIN prsem = Pid
    BY DEF Inv, SemInv, SemTypes
  <2>1. CASE \E k \in Prios : Create(k)
    BY <2>0, <2>1, CreateInv DEF Inv
  <2>2. CASE \E p \in Pid : Ready(p)
    BY <2>0, <2>2, ReadyInv DEF Inv, Ready, tableVars
  <2>3. CASE \E p \in Pid : Resume(p)
    BY <2>0, <2>3, ResumeInv DEF Inv, Resume, tableVars
  <2>4. CASE \E p \in Pid : Suspend(p)
    BY <2>0, <2>4, SuspendInv DEF Inv, Suspend, tableVars
  <2>5. CASE HandlerStep
    BY <2>0, <2>5, HandlerInv DEF Inv, HandlerStep, DeferStart, DeferStop, tableVars
  <2>6. CASE Preempt
    BY <2>0, <2>6, PreemptInv DEF Inv, Preempt, tableVars
  <2> QED BY <2>1, <2>2, <2>3, <2>4, <2>5, <2>6 DEF ProcessCall
<1> QED BY <1>1, SemUntouched DEF Inv

\* Nothing waits at the start.
LEMMA InitInv ==
  Init => Inv
<1> SUFFICES ASSUME Init PROVE Inv
  OBVIOUS
<1>1. SchedInv
  BY SchedStart DEF Init
<1>2. /\ sstate = [s \in Sem |-> "FREE"] /\ scount = [s \in Sem |-> 0]
      /\ squeue = [s \in Sem |-> <<>>] /\ nextsem = 0 /\ prsem = [p \in Pid |-> NoSem]
  BY DEF Init, SchedInit
<1>3. <<>> \in Seq(Entries(Pid)) /\ Len(<<>>) = 0 /\ DOMAIN <<>> = {}
  OBVIOUS
<1>4. FirstCome(<<>>) /\ PidsOf(<<>>) = {}
  BY <1>3 DEF FirstCome, OnceEach, PidsOf
<1>5. \A p \in Pid : prstate[p] # "WAIT"
  BY DEF Init, SchedInit
<1>6. SemTypes
  BY <1>2, <1>3, SemFacts DEF SemTypes
<1>7. \A s \in Sem : Waiters(s) = {} /\ squeue[s] = <<>> /\ Deficit(s) = 0
  BY <1>2, <1>5 DEF Waiters, Deficit
<1> QED BY <1>1, <1>3, <1>4, <1>5, <1>6, <1>7 DEF Inv, SemInv

\* The invariant is inductive.
LEMMA NextInv ==
  ASSUME KillsWaiting = FALSE, Inv, [Next]_vars
  PROVE  Inv'
<1>1. CASE (ProcessCall \/ HandlerStep \/ Preempt) /\ UNCHANGED semVars
  BY <1>1, SchedulerInv
<1>2. CASE \E n \in 0 .. MaxCount : Semcreate(n)
  BY <1>2, SemcreateInv
<1>3. CASE \E n \in 0 .. MaxCount, s \in Sem : Semreset(s, n)
  BY <1>3, SemresetInv
<1>4. CASE \E s \in Sem, n \in 0 .. NPROC : Signaln(s, n)
  BY <1>4, SignalnInv
<1>5. CASE \E s \in Sem : Wait(s)
  BY <1>5, WaitInv
<1>6. CASE \E s \in Sem : Signal(s)
  BY <1>6, SignalInv
<1>7. CASE \E s \in Sem : Semdelete(s)
  BY <1>7, SemdeleteInv
<1>8. CASE \E p \in Pid : Kill(p)
  BY <1>8, KillInv
<1>9. CASE UNCHANGED vars
  <2>1. SchedInv'
    BY <1>9 DEF vars, schedVars, tableVars, Inv, SchedInv
  <2>2. SameWaiters /\ UNCHANGED semVars /\ prsem' \in [Pid -> Sem \union {NoSem}]
    BY <1>9 DEF vars, schedVars, tableVars, SameWaiters, Inv, SemInv, SemTypes
  <2> QED BY <2>1, <2>2, SemUntouched DEF Inv
<1> QED BY <1>1, <1>2, <1>3, <1>4, <1>5, <1>6, <1>7, <1>8, <1>9 DEF Next, Stopped

\* The invariant, at all times.
LEMMA AlwaysInv ==
  ASSUME KillsWaiting = FALSE
  PROVE  Spec => []Inv
<1>1. Inv /\ [Next]_vars => Inv'
  BY NextInv
<1> QED BY <1>1, InitInv, PTL DEF Spec

----------------------------------------------------------------------------
\* No call on a semaphore and no kill disturbs the order either.
LEMMA ReleaseOrdered ==
  ASSUME Inv, OrderInv, MaxKey <= MaxPrio, cpu = "up", NEW s \in Sem,
         NEW n \in 0 .. Len(squeue[s]), Resched(ReadyFirst(s, n))
  PROVE  OrderInv'
<1> PICK r : r = ReadyFirst(s, n)
  OBVIOUS
<1>1. /\ Balanced(r.st, r.rq, currpid)
      /\ \A p \in Pid : r.st[p] = IF p \in FirstOf(squeue[s], n) THEN "READY" ELSE prstate[p]
      /\ FirstOf(squeue[s], n) \subseteq Waiters(s)
      /\ Ordered(r.rq)
  BY ReadyFirstFacts DEF Inv, OrderInv
<1>2. r.st[currpid] = "CURR"
  BY <1>1 DEF Waiters, Inv, SchedInv, Balanced
<1>3. UsersAbove(r.st)
  BY <1>1, PidFacts DEF Waiters, OrderInv, UsersAbove
<1>4. SwitchOnly(r.st, prstate')
  BY <1>1, <1>2, ReschedBalanced DEF Inv, SchedInv
<1> QED BY <1>1, <1>2, <1>3, <1>4, ReschedOrdered DEF Inv

\* kill takes a ready process off the queue, which stays in order.
LEMMA KillOrdered ==
  ASSUME KillsWaiting = FALSE, Inv, OrderInv, MaxKey <= MaxPrio, NEW p \in Pid, Kill(p)
  PROVE  OrderInv'
<1>1. /\ cpu = "up" /\ Defer.ndefers = 0 /\ currpid # NULLPROC
      /\ KillEnd(p, prstate[p], Removed(readyqueue, p))
  BY DEF Kill, Caller
<1>2. CASE cpu' = "halted" /\ UNCHANGED <<prstate, prprio, currpid, readyqueue, Defer, scount>>
  BY <1>2 DEF OrderInv, Ordered, UsersAbove
<1>3. CASE prstate[p] = "CURR" /\ Resched(Here([prstate EXCEPT ![p] = "FREE"]))
  <2>1. p = currpid
    BY <1>3 DEF Inv, SchedInv, Balanced
  <2> QED BY <1>1, <1>3, <2>1, LeavingOrdered DEF Inv
<1>4. CASE /\ prstate' = [prstate EXCEPT ![p] = "FREE"]
           /\ readyqueue' = (IF prstate[p] = "SUSP" THEN readyqueue ELSE Removed(readyqueue, p))
           /\ UNCHANGED <<prprio, currpid, Defer, cpu>>
  BY <1>1, <1>4, RemovalOrdered DEF Inv
<1> QED BY <1>1, <1>2, <1>3, <1>4 DEF KillEnd

\* Every step keeps the ready queue in order and owes no reschedule outside a handler.
LEMMA NextOrdered ==
  ASSUME KillsWaiting = FALSE, MaxKey <= MaxPrio, Inv, OrderInv, [Next]_vars
  PROVE  OrderInv'
<1>0. SchedInv /\ SemInv
  BY DEF Inv
<1>1. CASE ProcessCall \/ HandlerStep \/ Preempt
  BY <1>0, <1>1, CreateOrdered, ReadyOrdered, SuspendOrdered, PreemptOrdered DEF ProcessCall
<1>2. CASE \E n \in 0 .. MaxCount : Semcreate(n)
  BY <1>2 DEF Semcreate, schedVars, OrderInv, Ordered, UsersAbove
<1>3. ASSUME NEW n \in 0 .. MaxCount, NEW s \in Sem, Semreset(s, n)
      PROVE  OrderInv'
  <2>1. Len(squeue[s]) \in 0 .. Len(squeue[s])
    BY <1>0 DEF SemInv, SemTypes
  <2> QED BY <1>3, <2>1, ReleaseOrdered DEF Semreset, Caller
<1>4. ASSUME NEW s \in Sem, NEW n \in 0 .. NPROC, Signaln(s, n)
      PROVE  OrderInv'
  <2>1. Owed(s, n) \in 0 .. Len(squeue[s])
    BY <1>0, <1>4, OwedFacts, SemFacts DEF Signaln
  <2> QED BY <1>4, <2>1, ReleaseOrdered DEF Signaln
<1>5. ASSUME NEW s \in Sem, Wait(s)
      PROVE  OrderInv'
  <2>1. CASE UNCHANGED <<schedVars, squeue>>
    BY <2>1 DEF schedVars, OrderInv, Ordered, UsersAbove
  <2>2. CASE Resched(Here([prstate EXCEPT ![currpid] = "WAIT"]))
    BY <1>0, <1>5, <2>2, LeavingOrdered DEF Wait, Caller
  <2> QED BY <1>5, <2>1, <2>2 DEF Wait
<1>6. ASSUME NEW s \in Sem, Signal(s)
      PROVE  OrderInv'
  <2>1. CASE UNCHANGED schedVars
    BY <2>1 DEF schedVars, OrderInv, Ordered, UsersAbove
  <2>2. CASE scount[s] < 0 /\ Resched(ReadyFirst(s, 1))
    <3>1. /\ Len(squeue[s]) \in Nat /\ scount[s] \in Int
          /\ Len(squeue[s]) = IF scount[s] < 0 THEN -scount[s] ELSE 0
      BY <1>0, <1>6, OwedFacts DEF Signal
    <3>2. 1 \in 0 .. Len(squeue[s])
      BY <2>2, <3>1
    <3> QED BY <1>6, <2>2, <3>2, ReleaseOrdered DEF Signal
  <2> QED BY <1>6, <2>1, <2>2 DEF Signal
<1>7. ASSUME NEW s \in Sem, Semdelete(s)
      PROVE  OrderInv'
  <2>1. /\ Len(squeue[s]) \in Nat /\ scount[s] \in Int
        /\ Len(squeue[s]) = IF scount[s] < 0 THEN -scount[s] ELSE 0
    BY <1>0, <1>7, OwedFacts DEF Semdelete
  <2>2. Owed(s, -scount[s]) \in 0 .. Len(squeue[s])
    BY <2>1 DEF Owed
  <2> QED BY <1>7, <2>2, ReleaseOrdered DEF Semdelete, Caller
<1>8. CASE \E p \in Pid : Kill(p)
  BY <1>8, KillOrdered
<1>9. CASE UNCHANGED vars
  BY <1>9 DEF vars, schedVars, OrderInv, Ordered, UsersAbove
<1> QED BY <1>1, <1>2, <1>3, <1>4, <1>5, <1>6, <1>7, <1>8, <1>9 DEF Next, Stopped

\* The queue with which the system starts, the null process alone, is in order.
LEMMA InitOrdered ==
  Init => OrderInv
<1> SUFFICES ASSUME Init PROVE OrderInv
  OBVIOUS
<1> PICK e : e = [pid |-> NULLPROC, key |-> 0]
  OBVIOUS
<1> PICK k \in Prios : prprio = [p \in Pid |-> IF p = 1 THEN k ELSE 0]
  BY DEF Init, SchedInit
<1>1. /\ prstate = [p \in Pid |-> IF p = 0 THEN "READY" ELSE IF p = 1 THEN "CURR" ELSE "FREE"]
      /\ currpid = 1 /\ readyqueue = <<e>> /\ e.pid = 0 /\ e.key = 0
  BY DEF Init, SchedInit, NULLPROC
<1>2. NULLPROC = 0 /\ 0 \in Pid /\ User \subseteq Pid /\ k >= 1
  BY PidFacts, SchedAssumption DEF NULLPROC, MaxPrio
<1>3. DOMAIN readyqueue = {1} /\ readyqueue[1] = e
  BY <1>1
<1>4. Ordered(readyqueue)
  BY <1>1, <1>2, <1>3 DEF Ordered, Sorted, KeyedBy
<1>5. UsersAbove(prstate)
  BY <1>1, <1>2 DEF UsersAbove, User
<1> QED BY <1>1, <1>2, <1>4, <1>5 DEF OrderInv

\* Both invariants, at all times.
LEMMA AlwaysOrdered ==
  ASSUME KillsWaiting = FALSE, MaxKey <= MaxPrio
  PROVE  Spec => [](Inv /\ OrderInv)
<1>1. Inv /\ OrderInv /\ [Next]_vars => (Inv /\ OrderInv)'
  BY NextInv, NextOrdered
<1>2. Init => Inv /\ OrderInv
  BY InitInv, InitOrdered
<1> QED BY <1>1, <1>2, PTL DEF Spec

----------------------------------------------------------------------------
\* Every variable keeps its type: a count never falls below minus the number of processes,
\* no queue outgrows the process table, and every entry of a semaphore's queue has key 0.
THEOREM TypesHold ==
  ASSUME KillsWaiting = FALSE
  PROVE  Spec => []TypeOK
<1>1. ASSUME Inv PROVE TypeOK
  <2>0. SchedInv /\ SemInv
    BY <1>1 DEF Inv
  <2>1. Len(readyqueue) <= NPROC
    BY <2>0, RoomToReady DEF SchedInv
  <2>2. SchedTypeOK
    BY <2>0, <2>1 DEF SchedInv, Balanced, PrState, SchedTypeOK, Entries
  <2>3. ASSUME NEW s \in Sem
        PROVE  squeue[s] \in Seq([pid : Pid, key : {0}]) /\ Len(squeue[s]) <= NPROC
    <3> PICK q, A, B : q = squeue[s] /\ A = Entries(Pid) /\ B = [pid : Pid, key : {0}]
      OBVIOUS
    <3>1. FirstCome(q) /\ q \in Seq(A) /\ OnceEach(q)
      BY <2>0 DEF SemInv, FirstCome
    <3>2. ASSUME NEW i \in 1 .. Len(q) PROVE q[i] \in B
      <4>1. i \in DOMAIN q /\ q[i] \in A
        BY <3>1
      <4>2. q[i].key = 0
        BY <3>1, <4>1 DEF FirstCome
      <4>3. q[i] = [pid |-> q[i].pid, key |-> q[i].key] /\ q[i].pid \in Pid
        BY <4>1 DEF Entries
      <4> QED BY <4>2, <4>3
    <3> PICK n : n = Len(q)
      OBVIOUS
    <3>3. n \in Nat /\ q = [i \in 1 .. n |-> q[i]]
      BY <3>1
    <3>4. q \in Seq(B)
      BY <3>2, <3>3
    <3>5. Pid = 0 .. NPROC - 1 /\ NPROC \in Nat /\ q \in Seq(Entries(Pid))
      BY <3>1, SemFacts DEF Pid
    <3>6. Len(q) <= NPROC
      BY ONLY <3>1, <3>5, RoomForAnother
    <3> QED BY <3>4, <3>6
  <2> QED BY <2>0, <2>2, <2>3 DEF SemInv, SemTypes, TypeOK
<1>2. Spec => []Inv
  BY AlwaysInv
<1> QED BY <1>1, <1>2, PTL

\* The process states and the queues agree: one process is current, the READY ones are on
\* the ready queue once, those in WAIT are on the queue of their semaphore once and on no
\* other, and a count of -n is a queue of n processes.
THEOREM StatesAndQueuesAgree ==
  ASSUME KillsWaiting = FALSE
  PROVE  Spec => []StatesMatchQueues
<1>1. ASSUME Inv PROVE StatesMatchQueues
  <2>0. SchedInv /\ SemInv
    BY <1>1 DEF Inv
  <2>1. ASSUME NEW p \in Pid
        PROVE  /\ prstate[p] = "CURR" <=> p = currpid /\ cpu # "wild"
               /\ Occurrences(readyqueue, p) = IF prstate[p] = "READY" THEN 1 ELSE 0
    <3>1. /\ readyqueue \in Seq(Entries(Pid)) /\ OnceEach(readyqueue)
          /\ p \in PidsOf(readyqueue) <=> prstate[p] = "READY"
      BY <2>0 DEF SchedInv, Balanced
    <3>2. Occurrences(readyqueue, p) = IF p \in PidsOf(readyqueue) THEN 1 ELSE 0
      BY ONLY <3>1, OccurrencesOnce
    <3> QED BY <2>0, <3>1, <3>2 DEF SchedInv, Balanced
  <2>2. ASSUME NEW p \in Pid, NEW s \in Sem
        PROVE  Occurrences(squeue[s], p) = IF prstate[p] = "WAIT" /\ prsem[p] = s THEN 1 ELSE 0
    <3> PICK q : q = squeue[s]
      OBVIOUS
    <3>1. /\ q \in Seq(Entries(Pid)) /\ OnceEach(q)
          /\ p \in PidsOf(q) <=> prstate[p] = "WAIT" /\ prsem[p] = s
      BY <2>0 DEF SemInv, FirstCome, Waiters
    <3>2. Occurrences(q, p) = IF p \in PidsOf(q) THEN 1 ELSE 0
      BY ONLY <3>1, OccurrencesOnce
    <3> QED BY <3>1, <3>2
  <2>3. \A s \in Sem : Len(squeue[s]) = IF sstate[s] = "USED" /\ scount[s] < 0 THEN -scount[s] ELSE 0
    BY <2>0 DEF SemInv, Deficit
  <2> QED BY <2>1, <2>2, <2>3 DEF StatesMatchQueues
<1>2. Spec => []Inv
  BY AlwaysInv
<1> QED BY <1>1, <1>2, PTL

\* The processor is never lost to a process that does not exist, and prcount counts the
\* processes there are.
THEOREM ProcessesCounted ==
  ASSUME KillsWaiting = FALSE
  PROVE  Spec => []CountedProcesses
<1>1. Inv => CountedProcesses
  BY DEF Inv, SchedInv, CountedProcesses, Live
<1>2. Spec => []Inv
  BY AlwaysInv
<1> QED BY <1>1, <1>2, PTL

\* The ready queue is in descending order of keys, over every place that enqueue chooses
\* and over aging in place, as long as no priority overflows.
THEOREM ReadyQueueSorted ==
  ASSUME KillsWaiting = FALSE, MaxKey <= MaxPrio
  PROVE  Spec => []ReadySorted
<1>1. OrderInv => ReadySorted
  BY DEF OrderInv, Ordered, Sorted, ReadySorted
<1>2. Spec => [](Inv /\ OrderInv)
  BY AlwaysOrdered
<1> QED BY <1>1, <1>2, PTL

\* The processor does not idle while a process is ready: every call and every handler
\* leaves with the reschedule that a process made ready meanwhile is owed.
THEOREM NoIdlingWhileReady ==
  ASSUME KillsWaiting = FALSE, MaxKey <= MaxPrio
  PROVE  Spec => []IdleMeansNothingReady
<1>1. OrderInv => IdleMeansNothingReady
  BY DEF OrderInv, IdleMeansNothingReady
<1>2. Spec => [](Inv /\ OrderInv)
  BY AlwaysOrdered
<1> QED BY <1>1, <1>2, PTL

----------------------------------------------------------------------------
\* The state of the counting semaphores.
Units == [s \in Sem |-> IF scount[s] > 0 THEN scount[s] ELSE 0]
Names(q) == [i \in DOMAIN q |-> q[i].pid]
Lines == [s \in Sem |-> Names(squeue[s])]

\* The names on a queue are a sequence as long as the queue.
LEMMA NamesFacts ==
  ASSUME NEW q \in Seq(Entries(Pid))
  PROVE  /\ Names(q) \in Seq(Pid) /\ Len(Names(q)) = Len(q) /\ Len(q) \in Nat
         /\ \A i \in 1 .. Len(q) : Names(q)[i] = q[i].pid
<1>1. Len(q) \in Nat /\ DOMAIN q = 1 .. Len(q) /\ \A i \in 1 .. Len(q) : q[i] \in Entries(Pid)
  OBVIOUS
<1>2. \A i \in 1 .. Len(q) : q[i].pid \in Pid
  BY <1>1 DEF Entries
<1>3. Names(q) = [i \in 1 .. Len(q) |-> q[i].pid]
  BY <1>1 DEF Names
<1> QED BY <1>1, <1>2, <1>3

\* Dropping entries drops their names.
LEMMA NamesDropped ==
  ASSUME NEW q, FirstCome(q), NEW n \in 0 .. Len(q)
  PROVE  /\ Names(Dropped(q, n)) = SubSeq(Names(q), n + 1, Len(Names(q)))
         /\ FirstOf(q, n) = {Names(q)[i] : i \in 1 .. n}
<1> PICK r, a, m : r = Dropped(q, n) /\ a = Names(q) /\ m = Len(q)
  OBVIOUS
<1>1. /\ q \in Seq(Entries(Pid)) /\ m \in Nat /\ n \in Nat /\ n <= m
      /\ a \in Seq(Pid) /\ Len(a) = m /\ \A i \in 1 .. m : a[i] = q[i].pid
  BY NamesFacts DEF FirstCome
<1>2. /\ FirstCome(r) /\ Len(r) = m - n
      /\ \A i \in DOMAIN r : n + i \in DOMAIN q /\ r[i] = q[n + i]
  <2>1. FirstCome(r) /\ Len(r) = Len(q) - n /\ FurtherOn(r, q, n)
    BY DroppedFacts
  <2> QED BY <2>1 DEF FurtherOn
<1>3. r \in Seq(Entries(Pid)) /\ DOMAIN r = 1 .. m - n
  BY <1>2 DEF FirstCome
<1>4. /\ Names(r) \in Seq(Pid) /\ Len(Names(r)) = m - n
      /\ \A i \in 1 .. m - n : Names(r)[i] = r[i].pid
  BY <1>2, <1>3, NamesFacts
<1> PICK b : b = SubSeq(a, n + 1, m)
  OBVIOUS
<1>5. b \in Seq(Pid) /\ Len(b) = m - n /\ \A i \in 1 .. m - n : b[i] = a[n + i]
  <2>1. (\A i \in n + 1 .. m : a[i] \in Pid) /\ n + 1 \in Int /\ m \in Int
    BY <1>1
  <2>2. /\ b \in Seq(Pid) /\ Len(b) = IF n + 1 <= m THEN m - (n + 1) + 1 ELSE 0
        /\ \A i \in 1 .. m - (n + 1) + 1 : b[i] = a[(n + 1) + i - 1]
    BY ONLY <2>1, b = SubSeq(a, n + 1, m), SubSeqProperties
  <2>3. Len(b) = m - n
    BY <1>1, <2>2
  <2>4. ASSUME NEW i \in 1 .. m - n PROVE b[i] = a[n + i]
    <3>1. i \in 1 .. m - (n + 1) + 1 /\ (n + 1) + i - 1 = n + i
      BY <1>1
    <3> QED BY <2>2, <3>1
  <2> QED BY <2>2, <2>3, <2>4
<1>6. \A i \in 1 .. m - n : Names(r)[i] = b[i]
  <2> TAKE i \in 1 .. m - n
  <2>1. n + i \in 1 .. m /\ r[i] = q[n + i]
    BY <1>1, <1>2, <1>3
  <2> QED BY <1>1, <1>4, <1>5, <2>1
<1>7. Names(r) = b
  <2> PICK c : c = Names(r)
    OBVIOUS
  <2>1. c \in Seq(Pid) /\ b \in Seq(Pid) /\ Len(c) = Len(b) /\ \A i \in 1 .. Len(c) : c[i] = b[i]
    BY <1>4, <1>5, <1>6
  <2>2. c = b
    BY ONLY <2>1, SeqEqual
  <2> QED BY <2>2
<1>8. FirstOf(q, n) = {a[i] : i \in 1 .. n}
  <2>1. \A i \in 1 .. n : i \in 1 .. m
    BY <1>1
  <2>2. \A i \in 1 .. n : q[i].pid = a[i]
    BY <1>1, <2>1
  <2> QED BY ONLY <2>2 DEF FirstOf
<1> QED BY <1>1, <1>7, <1>8

\* A process that goes behind the others adds its name at the end.
LEMMA NamesAppended ==
  ASSUME NEW q \in Seq(Entries(Pid)), NEW p \in Pid
  PROVE  Names(Append(q, [pid |-> p, key |-> 0])) = Append(Names(q), p)
<1> PICK e, a, r : e = [pid |-> p, key |-> 0] /\ a = Names(q) /\ r = Append(q, e)
  OBVIOUS
<1>1. e \in Entries(Pid) /\ e.pid = p
  BY DEF Entries
<1>2. /\ a \in Seq(Pid) /\ Len(a) = Len(q) /\ Len(q) \in Nat
      /\ \A i \in 1 .. Len(q) : a[i] = q[i].pid
  BY NamesFacts
<1>3. /\ r \in Seq(Entries(Pid)) /\ Len(r) = Len(q) + 1
      /\ (\A i \in 1 .. Len(q) : r[i] = q[i]) /\ r[Len(q) + 1] = e
  <2> PICK A : A = Entries(Pid)
    OBVIOUS
  <2>1. q \in Seq(A) /\ e \in A
    BY <1>1
  <2>2. /\ Append(q, e) \in Seq(A) /\ Len(Append(q, e)) = Len(q) + 1
        /\ \A i \in 1 .. Len(q) : Append(q, e)[i] = q[i]
        /\ Append(q, e)[Len(q) + 1] = e
    BY ONLY <2>1, AppendProperties
  <2> QED BY <2>2
<1>4. /\ Append(a, p) \in Seq(Pid) /\ Len(Append(a, p)) = Len(q) + 1
      /\ \A i \in 1 .. Len(q) : Append(a, p)[i] = a[i]
      /\ Append(a, p)[Len(q) + 1] = p
  <2>1. a \in Seq(Pid) /\ p \in Pid
    BY <1>2
  <2>2. /\ Append(a, p) \in Seq(Pid) /\ Len(Append(a, p)) = Len(a) + 1
        /\ \A i \in 1 .. Len(a) : Append(a, p)[i] = a[i]
        /\ Append(a, p)[Len(a) + 1] = p
    BY ONLY <2>1, AppendProperties
  <2> QED BY <1>2, <2>2
<1>5. Names(r) \in Seq(Pid) /\ Len(Names(r)) = Len(q) + 1 /\ \A i \in 1 .. Len(q) + 1 : Names(r)[i] = r[i].pid
  BY <1>3, NamesFacts
<1>6. \A i \in 1 .. Len(q) + 1 : Names(r)[i] = Append(a, p)[i]
  <2> TAKE i \in 1 .. Len(q) + 1
  <2>1. i \in 1 .. Len(q) \/ i = Len(q) + 1
    BY <1>2
  <2> QED BY <1>1, <1>2, <1>3, <1>4, <1>5, <2>1
<1>7. Names(r) = Append(a, p)
  <2> PICK c, d : c = Names(r) /\ d = Append(a, p)
    OBVIOUS
  <2>1. c \in Seq(Pid) /\ d \in Seq(Pid) /\ Len(c) = Len(d) /\ \A i \in 1 .. Len(c) : c[i] = d[i]
    BY <1>4, <1>5, <1>6
  <2>2. c = d
    BY ONLY <2>1, SeqEqual
  <2> QED BY <2>2
<1> QED BY <1>7

----------------------------------------------------------------------------
\* The lines after the first k processes of one of them have gone on.
LEMMA LinesReleased ==
  ASSUME SemInv, NEW s \in Sem, NEW k, Released(s, k)
  PROVE  /\ Lines' = [Lines EXCEPT ![s] = SubSeq(Lines[s], k + 1, Len(Lines[s]))]
         /\ Asleep' = Asleep \ {Lines[s][i] : i \in 1 .. k}
         /\ Len(Lines[s]) = Len(squeue[s]) /\ k \in 0 .. Len(Lines[s]) /\ Len(Lines[s]) \in Nat
<1> PICK q, r : q = squeue[s] /\ r = Dropped(q, k)
  OBVIOUS
<1>1. /\ FirstCome(q) /\ q \in Seq(Entries(Pid)) /\ k \in 0 .. Len(q)
      /\ squeue' = [squeue EXCEPT ![s] = r] /\ DOMAIN squeue = Sem
      /\ Asleep' = Asleep \ FirstOf(q, k)
  BY DEF SemInv, SemTypes, Released
<1>2. Lines[s] = Names(q)
  BY DEF Lines
<1>3. Names(r) = SubSeq(Names(q), k + 1, Len(Names(q))) /\ FirstOf(q, k) = {Names(q)[i] : i \in 1 .. k}
  BY <1>1, NamesDropped
<1>4. Len(Names(q)) = Len(q) /\ Len(q) \in Nat
  BY <1>1, NamesFacts
<1>5. Lines' = [Lines EXCEPT ![s] = Names(r)]
  BY <1>1 DEF Lines
<1> QED BY <1>1, <1>2, <1>3, <1>4, <1>5

\* A count that changes by n units while nobody waits, or by none, is that many units.
LEMMA UnitsChanged ==
  ASSUME SemInv, NEW s \in Sem, NEW c \in Int, scount' = [scount EXCEPT ![s] = c]
  PROVE  Units' = [Units EXCEPT ![s] = IF c > 0 THEN c ELSE 0]
  BY DEF Units, SemInv, SemTypes

\* signal and signaln give each unit to a process that waits, or to nobody.
LEMMA SignalsGive ==
  ASSUME Inv, NEW s \in Sem, NEW n \in 0 .. MaxCount + NPROC,
         n > 0, sstate[s] = "USED", scount[s] + n <= MaxCount,
         scount' = [scount EXCEPT ![s] = scount[s] + n], Released(s, Owed(s, n))
  PROVE  Promise!AbsNext
<1> PICK k, m : k = Owed(s, n) /\ m = n - k
  OBVIOUS
<1>0. SemInv /\ n \in Nat /\ NPROC \in Nat /\ MaxCount \in Nat
  BY SemFacts DEF Inv
<1>1. /\ k \in 0 .. Len(squeue[s]) /\ Len(squeue[s]) \in Nat /\ scount[s] \in Int
      /\ Len(squeue[s]) = (IF scount[s] < 0 THEN -scount[s] ELSE 0)
      /\ k = IF n <= Len(squeue[s]) THEN n ELSE Len(squeue[s])
  BY <1>0, OwedFacts
<1>2. /\ Lines' = [Lines EXCEPT ![s] = SubSeq(Lines[s], k + 1, Len(Lines[s]))]
      /\ Asleep' = Asleep \ {Lines[s][i] : i \in 1 .. k}
      /\ Len(Lines[s]) = Len(squeue[s]) /\ k \in 0 .. Len(Lines[s])
  BY <1>0, LinesReleased
<1>3. Units' = [Units EXCEPT ![s] = IF scount[s] + n > 0 THEN scount[s] + n ELSE 0]
  <2> PICK c : c = scount[s] + n
    OBVIOUS
  <2>1. c \in Int /\ scount' = [scount EXCEPT ![s] = c]
    BY <1>0, <1>1
  <2>2. Units' = [Units EXCEPT ![s] = IF c > 0 THEN c ELSE 0]
    BY ONLY s \in Sem, <1>0, <2>1, UnitsChanged
  <2> QED BY <2>2
<1>4. (IF scount[s] + n > 0 THEN scount[s] + n ELSE 0) = Units[s] + m
  BY SMTT(40), <1>0, <1>1 DEF Units
<1>5. m \in 0 .. MaxCount /\ k + m > 0 /\ (k < Len(Lines[s]) => m = 0)
  BY SMTT(40), <1>0, <1>1, <1>2
<1>6. Units' = [Units EXCEPT ![s] = Units[s] + m]
  BY <1>3, <1>4
<1>7. Promise!Give(s, k, m)
  BY <1>2, <1>5, <1>6 DEF Promise!Give, Promise!First, Lines, Units, Names, Asleep
<1>8. k \in 0 .. Len(Lines[s])
  BY <1>2
<1> QED BY <1>5, <1>7, <1>8 DEF Promise!AbsNext, Lines, Names

\* semreset and semdelete let everybody go and set the units.
LEMMA ResetsSet ==
  ASSUME Inv, NEW s \in Sem, NEW c \in 0 .. MaxCount,
         scount' = [scount EXCEPT ![s] = c], Released(s, Len(squeue[s])),
         squeue' = [squeue EXCEPT ![s] = <<>>]
  PROVE  Promise!AbsNext
<1>0. SemInv /\ c \in Int /\ c >= 0
  BY SemFacts DEF Inv
<1>1. /\ Asleep' = Asleep \ {Lines[s][i] : i \in 1 .. Len(squeue[s])}
      /\ Len(Lines[s]) = Len(squeue[s])
  BY <1>0, LinesReleased
<1>2. Lines' = [Lines EXCEPT ![s] = <<>>]
  <2>1. Names(<<>>) = <<>>
    BY DEF Names
  <2>2. Lines' = [Lines EXCEPT ![s] = Names(<<>>)]
    BY <1>0 DEF Lines, SemInv, SemTypes
  <2> QED BY <2>1, <2>2
<1>3. Units' = [Units EXCEPT ![s] = c]
  <2>1. Units' = [Units EXCEPT ![s] = IF c > 0 THEN c ELSE 0]
    BY <1>0, UnitsChanged
  <2>2. (IF c > 0 THEN c ELSE 0) = c
    BY <1>0
  <2> QED BY <2>1, <2>2
<1>4. Promise!Set(s, c)
  BY <1>1, <1>2, <1>3 DEF Promise!Set, Promise!First, Lines, Units, Names, Asleep
<1> QED BY <1>4 DEF Promise!AbsNext

\* Every call on a semaphore is a step of the counting semaphores, or changes nothing
\* of theirs.
LEMMA StepsKeepPromise ==
  ASSUME KillsWaiting = FALSE, Inv, [Next]_vars
  PROVE  [Promise!AbsNext]_(Promise!absVars)
<1>0. SemInv /\ SchedInv /\ NPROC \in Nat /\ MaxCount \in Nat \ {0}
  BY SemFacts DEF Inv
<1>s. ASSUME UNCHANGED <<scount, squeue>>, Asleep' = Asleep
      PROVE  UNCHANGED Promise!absVars
  BY <1>s DEF Promise!absVars, Asleep
<1>1. CASE (ProcessCall \/ HandlerStep \/ Preempt) /\ UNCHANGED semVars
  BY <1>1, <1>s, SchedulerInv DEF semVars
<1>2. ASSUME NEW n \in 0 .. MaxCount, Semcreate(n)
      PROVE  Promise!AbsNext
  <2> PICK s : s = NewSem
    OBVIOUS
  <2>1. /\ s \in Sem /\ Asleep' = Asleep /\ squeue[s] = <<>>
        /\ scount' = [scount EXCEPT ![s] = n] /\ squeue' = squeue
    BY <1>2, SemcreateInv DEF Semcreate
  <2>2. squeue' = [squeue EXCEPT ![s] = <<>>] /\ Len(squeue[s]) = 0
    BY <1>0, <2>1 DEF SemInv, SemTypes
  <2>3. Dropped(<<>>, 0) = <<>> /\ FirstOf(<<>>, 0) = {}
    BY DEF Dropped, FirstOf
  <2>4. Released(s, Len(squeue[s]))
    <3>1. 0 \in 0 .. Len(squeue[s]) /\ squeue' = [squeue EXCEPT ![s] = Dropped(squeue[s], 0)]
      <4>1. Dropped(squeue[s], 0) = <<>>
        BY <2>1, <2>3
      <4>2. 0 \in 0 .. Len(squeue[s])
        BY <2>2
      <4> QED BY ONLY <2>2, <4>1, <4>2
    <3>2. Asleep' = Asleep \ FirstOf(squeue[s], 0)
      <4>1. FirstOf(squeue[s], 0) = {}
        BY <2>1, <2>3
      <4> QED BY <2>1, <4>1
    <3>3. Released(s, 0)
      BY ONLY <3>1, <3>2 DEF Released
    <3> QED BY <2>2, <3>3
  <2> QED BY <2>1, <2>2, <2>4, ResetsSet
<1>3. ASSUME NEW n \in 0 .. MaxCount, NEW s \in Sem, Semreset(s, n)
      PROVE  Promise!AbsNext
  <2>1. scount' = [scount EXCEPT ![s] = n]
    BY <1>3 DEF Semreset
  <2> QED BY <1>3, <2>1, SemresetInv, ResetsSet
<1>4. ASSUME NEW s \in Sem, Semdelete(s)
      PROVE  Promise!AbsNext
  <2> PICK c : c = (IF scount[s] < 0 THEN 0 ELSE scount[s]) + 1
    OBVIOUS
  <2>1. scount' = [scount EXCEPT ![s] = c] /\ scount[s] < MaxCount /\ scount[s] \in Int
    BY <1>0, <1>4 DEF Semdelete, SemInv, SemTypes
  <2>2. c \in 0 .. MaxCount
    BY <1>0, <2>1
  <2> QED BY <1>4, <2>1, <2>2, SemdeleteInv, ResetsSet
<1>5. ASSUME NEW s \in Sem, NEW n \in 0 .. NPROC, Signaln(s, n)
      PROVE  Promise!AbsNext \/ UNCHANGED Promise!absVars
  <2>1. /\ scount' = [scount EXCEPT ![s] = scount[s] + n] /\ sstate[s] = "USED"
        /\ scount[s] + n <= MaxCount /\ n \in 0 .. MaxCount + NPROC /\ n \in Nat
    BY <1>0, <1>5 DEF Signaln
  <2>2. Released(s, Owed(s, n))
    BY <1>5, SignalnInv
  <2>3. CASE n = 0
    <3>1. Owed(s, n) = 0 /\ scount[s] \in Int /\ squeue[s] \in Seq(Entries(Pid))
      BY <1>0, <2>1, <2>3, OwedFacts DEF SemInv, SemTypes
    <3>2. Dropped(squeue[s], 0) = squeue[s] /\ FirstOf(squeue[s], 0) = {}
      BY <3>1 DEF Dropped, FirstOf
    <3>3. squeue' = squeue /\ Asleep' = Asleep
      BY <1>0, <2>2, <3>1, <3>2 DEF Released, SemInv, SemTypes
    <3>4. scount' = scount
      BY <1>0, <2>1, <2>3, <3>1 DEF SemInv, SemTypes
    <3> QED BY <1>s, <3>3, <3>4
  <2>4. CASE n # 0
    <3>1. n > 0
      BY <2>1, <2>4
    <3>2. Promise!AbsNext
      BY ONLY Inv, s \in Sem, <2>1, <2>2, <3>1, SignalsGive
    <3> QED BY <3>2
  <2> QED BY <2>3, <2>4
<1>6. ASSUME NEW s \in Sem, Signal(s)
      PROVE  Promise!AbsNext
  <2>1. /\ scount' = [scount EXCEPT ![s] = scount[s] + 1] /\ sstate[s] = "USED"
        /\ scount[s] + 1 <= MaxCount /\ 1 \in 0 .. MaxCount + NPROC
    BY <1>0, <1>6 DEF Signal, SemInv, SemTypes
  <2>2. Released(s, Owed(s, 1))
    BY <1>6, SignalInv
  <2> PICK n : n = 1
    OBVIOUS
  <2>3. /\ scount' = [scount EXCEPT ![s] = scount[s] + n] /\ scount[s] + n <= MaxCount
        /\ n \in 0 .. MaxCount + NPROC /\ n > 0 /\ Released(s, Owed(s, n))
    BY <2>1, <2>2
  <2> QED BY ONLY Inv, s \in Sem, <2>1, <2>3, SignalsGive
<1>7. ASSUME NEW s \in Sem, Wait(s)
      PROVE  Promise!AbsNext
  <2>1. scount' = [scount EXCEPT ![s] = scount[s] - 1] /\ scount[s] \in Int /\ currpid # NULLPROC
    BY <1>0, <1>7 DEF Wait, Caller, SemInv, SemTypes
  <2>2. Units' = [Units EXCEPT ![s] = IF scount[s] - 1 > 0 THEN scount[s] - 1 ELSE 0]
    <3> PICK c : c = scount[s] - 1
      OBVIOUS
    <3>1. c \in Int /\ scount' = [scount EXCEPT ![s] = c]
      BY <2>1
    <3>2. Units' = [Units EXCEPT ![s] = IF c > 0 THEN c ELSE 0]
      BY ONLY s \in Sem, <1>0, <3>1, UnitsChanged
    <3> QED BY <3>2
  <2>3. CASE scount[s] > 0
    <3>1. Asleep' = Asleep /\ squeue' = squeue
      BY <1>7, <2>3, WaitInv
    <3>2. Units[s] = scount[s]
      BY <2>3 DEF Units
    <3>3. (IF scount[s] - 1 > 0 THEN scount[s] - 1 ELSE 0) = Units[s] - 1
      BY <2>1, <2>3, <3>2
    <3>4. Units[s] > 0 /\ Units' = [Units EXCEPT ![s] = Units[s] - 1]
      BY <2>2, <2>3, <3>2, <3>3
    <3>5. Lines' = Lines
      BY <3>1 DEF Lines
    <3>6. Promise!Take(s)
      BY <3>1, <3>4, <3>5 DEF Promise!Take, Units, Lines, Names, Asleep
    <3> QED BY <3>6 DEF Promise!AbsNext
  <2>4. CASE scount[s] <= 0
    <3>1. /\ Asleep' = Asleep \union {currpid} /\ currpid \notin Asleep
          /\ squeue' = [squeue EXCEPT ![s] = Append(squeue[s], [pid |-> currpid, key |-> 0])]
      BY <1>7, <2>4, WaitInv
    <3>2. currpid \in Pid /\ squeue[s] \in Seq(Entries(Pid)) /\ DOMAIN squeue = Sem
      BY <1>0 DEF SchedInv, Balanced, SemInv, SemTypes
    <3>3. Names(Append(squeue[s], [pid |-> currpid, key |-> 0])) = Append(Names(squeue[s]), currpid)
      BY <3>2, NamesAppended
    <3>4. Lines' = [Lines EXCEPT ![s] = Append(Lines[s], currpid)]
      <4> PICK r : r = Append(squeue[s], [pid |-> currpid, key |-> 0])
        OBVIOUS
      <4>1. Lines' = [Lines EXCEPT ![s] = Names(r)]
        BY <3>1, <3>2 DEF Lines
      <4>2. Names(r) = Append(Lines[s], currpid)
        BY <3>3 DEF Lines
      <4> QED BY <4>1, <4>2
    <3>5. Units[s] = 0 /\ Units' = Units
      <4>1. Units[s] = 0 /\ ~(scount[s] - 1 > 0)
        BY <2>1, <2>4 DEF Units
      <4>2. Units' = [Units EXCEPT ![s] = Units[s]]
        BY <2>2, <4>1
      <4> QED BY <4>1, <4>2 DEF Units
    <3>6. currpid \in User
      BY <2>1, <3>2 DEF User
    <3> PICK p \in User : p = currpid
      BY <3>6
    <3>7. Promise!Sleep(s, p)
      BY <3>1, <3>4, <3>5 DEF Promise!Sleep, Units, Lines, Names, Asleep
    <3> QED BY ONLY s \in Sem, p \in User, <3>7 DEF Promise!AbsNext
  <2> QED BY <2>1, <2>3, <2>4
<1>8. CASE \E p \in Pid : Kill(p)
  BY <1>8, <1>s, KillInv DEF semVars
<1>9. CASE UNCHANGED vars
  BY <1>9, <1>s DEF vars, schedVars, semVars, Asleep
<1> QED BY <1>1, <1>2, <1>3, <1>4, <1>5, <1>6, <1>7, <1>8, <1>9 DEF Next, Stopped

\* The semaphores are counting semaphores that release in the order of arrival: every
\* step of wait, signal, signaln, semcreate, semreset and semdelete is one of theirs, the
\* reschedule included, and the scheduler and kill touch nothing of them.
THEOREM ImplementsCountingSemaphores ==
  ASSUME KillsWaiting = FALSE
  PROVE  Spec => KeepsPromise
<1>1. ASSUME Init PROVE Promise!AbsInit
  <2>1. /\ scount = [s \in Sem |-> 0] /\ squeue = [s \in Sem |-> <<>>]
        /\ \A p \in Pid : prstate[p] # "WAIT"
    BY <1>1 DEF Init, SchedInit
  <2>2. Units = [s \in Sem |-> 0]
    BY <2>1 DEF Units
  <2>3. Lines = [s \in Sem |-> <<>>]
    <3>1. Names(<<>>) = <<>>
      BY DEF Names
    <3>2. \A s \in Sem : Names(squeue[s]) = <<>>
      BY <2>1, <3>1
    <3> QED BY <3>2 DEF Lines
  <2>4. Asleep = {}
    BY <2>1 DEF Asleep
  <2> QED BY <2>2, <2>3, <2>4 DEF Promise!AbsInit, Units, Lines, Names, Asleep
<1>2. Inv /\ [Next]_vars => [Promise!AbsNext]_(Promise!absVars)
  BY StepsKeepPromise
<1>3. Spec => []Inv
  BY AlwaysInv
<1> QED BY <1>1, <1>2, <1>3, PTL DEF Spec, KeepsPromise, Promise!AbsSpec
=============================================================================
