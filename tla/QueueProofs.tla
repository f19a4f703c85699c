---------------------------- MODULE QueueProofs ----------------------------
(***************************************************************************)
(* Proof that the linked lists of queue.c are sound and keep the promise   *)
(* of OrderedQueues, for any number of queues, processes and places in     *)
(* memory, and any keys.                                                   *)
(***************************************************************************)
EXTENDS LinkedQueues, KeyQueue, SequenceTheorems, FiniteSetTheorems, WellFoundedInduction, TLAPS

Pointer == Addr \union {NULL}
Entry == [pid : Pid, key : Int, next : Pointer, prev : Pointer]
Header == [head : Pointer, tail : Pointer, size : Nat]

Calls ==
  {None}
    \union [op : {"enqueue"}, q : Queue, curr : Pointer, new : Addr, key : Keys]
    \union [op : {"remove", "getbypid"}, q : Queue, curr : Pointer, pid : Pid]
    \union [op : {"age"}, q : Queue, curr : Pointer, spared : SUBSET Pid]
    \union [op : {"lost"}, q : Queue, curr : {NULL}]

QueueTypes ==
  /\ queue \in [Queue -> Header] /\ entry \in [Addr -> Entry] /\ used \in SUBSET Addr
  /\ call \in Calls

\* The entry at position m of a chain, NULL behind its end.
AtPlace(s, m) == IF m <= Len(s) THEN s[m] ELSE NULL

\* The chains of the queues have no entry in common and no other but those of U.
Distinct(c) ==
  \A q, r \in Queue : \A i \in DOMAIN c[q], j \in DOMAIN c[r] : c[q][i] = c[r][j] => q = r /\ i = j
Listed(c) == UNION {{c[q][i] : i \in DOMAIN c[q]} : q \in Queue}
ShapeOf(c, Q, E, U) ==
  /\ c \in [Queue -> Chains] /\ \A q \in Queue : Linked(Q[q], E, c[q])
  /\ Distinct(c) /\ Listed(c) = U

Cs == [q \in Queue |-> Chain(queue[q], entry)]
Pend(cl) == IF cl.op = "enqueue" THEN {cl.new} ELSE {}

\* A walk has come to a place of its queue and has passed what it had to pass.
Walking(s, E, cl) ==
  \E m \in 1 .. Len(s) + 1 :
    /\ cl.curr = AtPlace(s, m)
    /\ cl.op = "enqueue" => \A i \in 1 .. m - 1 : E[s[i]].key >= cl.key
    /\ cl.op \in {"remove", "getbypid"} => \A i \in 1 .. m - 1 : E[s[i]].pid # cl.pid

WalkOf(c, E, cl) ==
  /\ cl.op # "none" => Walking(c[cl.q], E, cl)
  /\ cl.op = "enqueue" => E[cl.new].key = cl.key /\ Len(c[cl.q]) < NPROC

WalkSound == WalkOf(Cs, entry, call)

QueueInv == QueueTypes /\ ListsSound /\ WalkSound

\* The same of any memory, with its chains at hand.
TypesOf(Q, E, U, cl) ==
  Q \in [Queue -> Header] /\ E \in [Addr -> Entry] /\ U \in SUBSET Addr /\ cl \in Calls
Picture(c, Q, E, U, cl) ==
  /\ TypesOf(Q, E, U, cl) /\ ShapeOf(c, Q, E, U \ Pend(cl)) /\ Pend(cl) \subseteq U
  /\ WalkOf(c, E, cl)

Entries(P) == [pid : P, key : Int]

Without(r, q, i) ==
  /\ Len(r) = Len(q) - 1 /\ DOMAIN r = 1 .. Len(q) - 1
  /\ \A j \in 1 .. Len(q) - 1 : r[j] = IF j < i THEN q[j] ELSE q[j + 1]

----------------------------------------------------------------------------
\* Sequences.

\* The least member of a set of numbers.
LEMMA LeastMember ==
  ASSUME NEW S, S \subseteq Nat, S # {}
  PROVE  \E x \in S : x = Min(S) /\ \A y \in S : x <= y
<1>2. PICK x \in S : \A y \in S : <<y, x>> \notin OpToRel(<, Nat)
  BY NatLessThanWellFounded, WFMin
<1>3. ASSUME NEW y \in S PROVE x <= y
  <2>1. ~(y < x)
    BY <1>2 DEF OpToRel
  <2> QED BY <2>1
<1>4. Min(S) = CHOOSE z \in S : \A y \in S : z <= y
  BY DEF Min
<1> QED BY <1>3, <1>4

\* Induction as far as m, over a set of numbers.
LEMMA StepByStep ==
  ASSUME NEW m \in Nat, NEW T, 0 \in T, \A k \in 0 .. m - 1 : k \in T => k + 1 \in T
  PROVE  \A k \in 0 .. m : k \in T
<1> SUFFICES ASSUME \E k \in 0 .. m : k \notin T PROVE FALSE
  OBVIOUS
<1> PICK C : C = {k \in 0 .. m : k \notin T}
  OBVIOUS
<1>1. C \subseteq Nat /\ C # {}
  OBVIOUS
<1>2. PICK n \in C : \A y \in C : n <= y
  BY ONLY <1>1, LeastMember
<1>3. n \in 0 .. m /\ n \notin T /\ n # 0
  OBVIOUS
<1>4. n - 1 \in 0 .. m - 1 /\ n - 1 \in 0 .. m
  BY <1>3
<1>5. n - 1 \in T
  BY <1>2, <1>3, <1>4
<1>6. (n - 1) + 1 \in T
  BY <1>4, <1>5
<1> QED BY <1>3, <1>6

\* A sequence with an element inserted at a place.
LEMMA Inserted ==
  ASSUME NEW S, NEW q \in Seq(S), NEW e \in S, NEW i \in 1 .. Len(q) + 1,
         NEW r, r = InsertAt(q, i, e)
  PROVE  /\ r \in Seq(S) /\ Len(r) = Len(q) + 1 /\ DOMAIN r = 1 .. Len(q) + 1
         /\ r[i] = e
         /\ \A j \in 1 .. Len(q) : j < i => r[j] = q[j]
         /\ \A j \in 1 .. Len(q) : j >= i => r[j + 1] = q[j]
<1> DEFINE lo == SubSeq(q, 1, i - 1)
<1> DEFINE hi == SubSeq(q, i, Len(q))
<1>1. i \in Int /\ 1 <= i /\ i <= Len(q) + 1 /\ Len(q) \in Nat
  OBVIOUS
<1>2. /\ lo \in Seq(S) /\ Len(lo) = i - 1 /\ \A j \in 1 .. i - 1 : lo[j] = q[j]
  BY <1>1
<1>3. /\ hi \in Seq(S) /\ Len(hi) = Len(q) - i + 1
      /\ \A j \in 1 .. Len(q) - i + 1 : hi[j] = q[i + j - 1]
  BY <1>1
<1> HIDE DEF lo, hi
<1>5. r = (lo \o <<e>>) \o hi
  BY DEF InsertAt, lo, hi
<1>4. /\ r \in Seq(S) /\ Len(r) = Len(q) + 1
      /\ \A j \in 1 .. i - 1 : r[j] = lo[j]
      /\ r[i] = e
      /\ \A j \in i + 1 .. Len(q) + 1 : r[j] = hi[j - i]
  <2> DEFINE m == lo \o <<e>>
  <2>1. <<e>> \in Seq(S) /\ Len(<<e>>) = 1 /\ <<e>>[1] = e
    OBVIOUS
  <2>2. /\ m \in Seq(S) /\ Len(m) = i
        /\ \A j \in 1 .. i : m[j] = IF j <= i - 1 THEN lo[j] ELSE <<e>>[j - (i - 1)]
    BY <1>1, <1>2, <2>1, ConcatProperties
  <2>3. (\A j \in 1 .. i - 1 : m[j] = lo[j]) /\ m[i] = e
    BY <1>1, <2>1, <2>2
  <2> HIDE DEF m
  <2>4. /\ m \o hi \in Seq(S) /\ Len(m \o hi) = Len(m) + Len(hi)
        /\ \A j \in 1 .. Len(m) + Len(hi) :
             (m \o hi)[j] = IF j <= Len(m) THEN m[j] ELSE hi[j - Len(m)]
    BY <1>3, <2>2, ConcatProperties
  <2>5. r = m \o hi
    BY <1>5 DEF m
  <2> QED BY <1>1, <1>3, <2>2, <2>3, <2>4, <2>5
<1>6. \A j \in 1 .. Len(q) : j < i => r[j] = q[j]
  BY <1>1, <1>2, <1>4
<1>7. \A j \in 1 .. Len(q) : j >= i => r[j + 1] = q[j]
  <2> SUFFICES ASSUME NEW j \in 1 .. Len(q), j >= i PROVE r[j + 1] = q[j]
    OBVIOUS
  <2>1. j + 1 \in i + 1 .. Len(q) + 1 /\ (j + 1) - i \in 1 .. Len(q) - i + 1
    BY <1>1
  <2>2. r[j + 1] = hi[(j + 1) - i] /\ hi[(j + 1) - i] = q[i + ((j + 1) - i) - 1]
    BY <1>3, <1>4, <2>1
  <2> QED BY <1>1, <2>2
<1>8. DOMAIN r = 1 .. Len(q) + 1
  BY <1>1, <1>4
<1> QED BY <1>4, <1>6, <1>7, <1>8

\* A sequence without the element at a place.
LEMMA TakenOut ==
  ASSUME NEW S, NEW q \in Seq(S), NEW i \in 1 .. Len(q), NEW r, r = RemoveAt(q, i)
  PROVE  r \in Seq(S) /\ Without(r, q, i)
<1> DEFINE lo == SubSeq(q, 1, i - 1)
<1> DEFINE hi == SubSeq(q, i + 1, Len(q))
<1>1. i \in Int /\ 1 <= i /\ i <= Len(q) /\ Len(q) \in Nat
  OBVIOUS
<1>2. /\ lo \in Seq(S) /\ Len(lo) = i - 1 /\ \A j \in 1 .. i - 1 : lo[j] = q[j]
  BY <1>1
<1>3. /\ hi \in Seq(S) /\ Len(hi) = Len(q) - i
      /\ \A j \in 1 .. Len(q) - i : hi[j] = q[i + j]
  BY <1>1
<1> HIDE DEF lo, hi
<1>5. r = lo \o hi
  BY DEF RemoveAt, lo, hi
<1>4. /\ r \in Seq(S) /\ Len(r) = Len(q) - 1
      /\ \A j \in 1 .. i - 1 : r[j] = lo[j]
      /\ \A j \in i .. Len(q) - 1 : r[j] = hi[j - (i - 1)]
  <2>1. /\ lo \o hi \in Seq(S) /\ Len(lo \o hi) = Len(lo) + Len(hi)
        /\ \A j \in 1 .. Len(lo) + Len(hi) :
             (lo \o hi)[j] = IF j <= Len(lo) THEN lo[j] ELSE hi[j - Len(lo)]
    BY <1>2, <1>3, ConcatProperties
  <2> QED BY SMTT(40), <1>1, <1>2, <1>3, <1>5, <2>1
<1>6. ASSUME NEW j \in 1 .. Len(q) - 1 PROVE r[j] = IF j < i THEN q[j] ELSE q[j + 1]
  <2>1. CASE j < i
    <3>1. j \in 1 .. i - 1
      BY <1>1, <2>1
    <3>2. r[j] = lo[j] /\ lo[j] = q[j]
      BY <1>2, <1>4, <3>1
    <3> QED BY <2>1, <3>2
  <2>2. CASE j >= i
    <3>1. j \in i .. Len(q) - 1 /\ j - (i - 1) \in 1 .. Len(q) - i /\ i + (j - (i - 1)) = j + 1
      BY <1>1, <2>2
    <3>2. r[j] = hi[j - (i - 1)] /\ hi[j - (i - 1)] = q[i + (j - (i - 1))]
      BY <1>3, <1>4, <3>1
    <3>3. r[j] = q[j + 1] /\ ~(j < i)
      BY <1>1, <2>2, <3>1, <3>2
    <3> QED BY <3>3
  <2> QED BY <1>1, <2>1, <2>2
<1>7. DOMAIN r = 1 .. Len(q) - 1
  BY <1>1, <1>4
<1> QED BY <1>4, <1>6, <1>7 DEF Without

\* enqueue puts the entry at a place with no smaller key before it and a smaller key at it.
LEMMA EnqueuePlace ==
  ASSUME NEW P, NEW q \in Seq(Entries(P)), NEW p \in P, NEW k \in Int, NEW c \in Nat, Len(q) < c
  PROVE  \E i \in 1 .. Len(q) + 1 :
           /\ Enqueue(q, p, k, c) = InsertAt(q, i, [pid |-> p, key |-> k])
           /\ \A j \in 1 .. Len(q) : j < i => q[j].key >= k
           /\ i <= Len(q) => q[i].key < k
<1>1. Len(q) \in Nat /\ \A j \in 1 .. Len(q) : q[j].key \in Int
  <2>1. \A j \in 1 .. Len(q) : q[j] \in Entries(P)
    OBVIOUS
  <2> QED BY <2>1 DEF Entries
<1> DEFINE I == {i \in 1 .. Len(q) : q[i].key < k}
<1> DEFINE at == IF I # {} THEN Min(I) ELSE 0
<1> DEFINE i == IF at = 0 THEN Len(q) + 1 ELSE at
<1> PICK place : place = i
  OBVIOUS
<1> PICK r : r = Enqueue(q, p, k, c)
  OBVIOUS
<1> PICK e : e = [pid |-> p, key |-> k]
  OBVIOUS
<1>2. r = InsertAt(q, place, e)
  BY <1>1 DEF Enqueue, SelectInSeq
<1>3. CASE I = {}
  <2>1. place = Len(q) + 1
    BY <1>3
  <2>2. \A j \in 1 .. Len(q) : q[j].key >= k
    BY <1>1, <1>3
  <2>3. Len(q) + 1 \in 1 .. Len(q) + 1 /\ ~(Len(q) + 1 <= Len(q))
    BY <1>1
  <2> QED BY <1>2, <2>1, <2>2, <2>3
<1>4. CASE I # {}
  <2>1. PICK x : x = Min(I)
    OBVIOUS
  <2>2. x \in I /\ \A y \in I : x <= y
    <3> PICK J : J = I
      OBVIOUS
    <3>1. J \subseteq Nat /\ J # {} /\ x = Min(J)
      BY <1>1, <1>4, <2>1
    <3>2. x \in J /\ \A y \in J : x <= y
      BY ONLY <3>1, LeastMember
    <3> QED BY <3>2
  <2>3. place = x
    BY <1>1, <1>4, <2>1, <2>2
  <2>4. ASSUME NEW j \in 1 .. Len(q), j < x PROVE q[j].key >= k
    <3>1. j \notin I /\ q[j].key \in Int
      BY <1>1, <2>2, <2>4
    <3> QED BY <3>1
  <2>5. x \in 1 .. Len(q) /\ q[x].key < k
    BY <2>2
  <2>6. x \in 1 .. Len(q) + 1
    BY <1>1, <2>5
  <2>7. r = InsertAt(q, x, e)
    BY ONLY <1>2, <2>3
  <2> QED BY <2>4, <2>5, <2>6, <2>7
<1> QED BY <1>3, <1>4

\* The same with the entry at each place.
InsertedAt(s, m, x) ==
  [i \in 1 .. Len(s) + 1 |-> IF i < m THEN s[i] ELSE IF i = m THEN x ELSE s[i - 1]]
Skipped(s, m) == [i \in 1 .. Len(s) - 1 |-> IF i < m THEN s[i] ELSE s[i + 1]]

LEMMA InsertedPlaces ==
  ASSUME NEW S, NEW q \in Seq(S), NEW e \in S, NEW i \in 1 .. Len(q) + 1
  PROVE  InsertAt(q, i, e) = InsertedAt(q, i, e)
<1> PICK r, t : r = InsertAt(q, i, e) /\ t = InsertedAt(q, i, e)
  OBVIOUS
<1>1. /\ r \in Seq(S) /\ Len(r) = Len(q) + 1 /\ DOMAIN r = 1 .. Len(q) + 1
      /\ r[i] = e
      /\ \A j \in 1 .. Len(q) : j < i => r[j] = q[j]
      /\ \A j \in 1 .. Len(q) : j >= i => r[j + 1] = q[j]
  BY ONLY r = InsertAt(q, i, e), q \in Seq(S), e \in S, i \in 1 .. Len(q) + 1, Inserted
<1>2. t = [j \in 1 .. Len(q) + 1 |-> IF j < i THEN q[j] ELSE IF j = i THEN e ELSE q[j - 1]]
  BY DEF InsertedAt
<1>3. ASSUME NEW j \in 1 .. Len(q) + 1 PROVE r[j] = t[j]
  <2>1. CASE j < i
    BY <1>1, <1>2, <2>1
  <2>2. CASE j = i
    BY <1>1, <1>2, <2>2
  <2>3. CASE j > i
    <3>1. j - 1 \in 1 .. Len(q) /\ j - 1 >= i /\ (j - 1) + 1 = j
      BY <2>3
    <3>2. r[(j - 1) + 1] = q[j - 1]
      BY <1>1, <3>1
    <3> QED BY <1>2, <2>3, <3>1, <3>2
  <2> QED BY <2>1, <2>2, <2>3
<1>4. r = [j \in 1 .. Len(q) + 1 |-> r[j]]
  BY ONLY <1>1, q \in Seq(S)
<1> QED BY ONLY <1>2, <1>3, <1>4, r = InsertAt(q, i, e), t = InsertedAt(q, i, e)

LEMMA SkippedPlaces ==
  ASSUME NEW S, NEW q \in Seq(S), NEW i \in 1 .. Len(q)
  PROVE  RemoveAt(q, i) = Skipped(q, i)
<1> PICK r : r = RemoveAt(q, i)
  OBVIOUS
<1>1. r \in Seq(S) /\ Without(r, q, i)
  BY ONLY r = RemoveAt(q, i), q \in Seq(S), i \in 1 .. Len(q), TakenOut
<1>2. r = [j \in 1 .. Len(q) - 1 |-> r[j]]
  BY <1>1 DEF Without
<1> QED BY <1>1, <1>2 DEF Without, Skipped

----------------------------------------------------------------------------
\* Chains.

LEMMA ChainFacts ==
  ASSUME NEW s \in Chains
  PROVE  /\ s \in Seq(Addr) /\ Len(s) \in 0 .. NPROC /\ DOMAIN s = 1 .. Len(s)
         /\ \A i \in 1 .. Len(s) : s[i] \in Addr /\ s[i] # NULL
<1>1. PICK n \in 0 .. NPROC : s \in [1 .. n -> Addr]
  BY DEF Chains
<1>2. n \in Nat
  BY QueuesAssumption
<1>3. s \in Seq(Addr) /\ Len(s) = n /\ DOMAIN s = 1 .. n
  BY <1>1, <1>2
<1> QED BY <1>1, <1>3, QueuesAssumption

LEMMA IsChain ==
  ASSUME NEW n \in 0 .. NPROC, NEW s \in [1 .. n -> Addr]
  PROVE  s \in Chains /\ Len(s) = n /\ DOMAIN s = 1 .. n
<1>1. n \in Nat
  BY QueuesAssumption
<1>2. s \in Seq(Addr) /\ Len(s) = n /\ DOMAIN s = 1 .. n
  BY <1>1
<1>3. s \in Chains
  <2> DEFINE F(k) == [1 .. k -> Addr]
  <2>1. s \in F(n)
    OBVIOUS
  <2>2. Chains = UNION {F(k) : k \in 0 .. NPROC}
    BY DEF Chains
  <2> HIDE DEF F
  <2> QED BY <2>1, <2>2
<1> QED BY <1>2, <1>3

\* The links of a queue have one chain.
LEMMA OneChain ==
  ASSUME NEW q, NEW e, NEW s \in Chains, NEW t \in Chains, Linked(q, e, s), Linked(q, e, t)
  PROVE  s = t
<1>1. /\ s \in Seq(Addr) /\ Len(s) \in Nat /\ DOMAIN s = 1 .. Len(s)
      /\ t \in Seq(Addr) /\ Len(t) \in Nat /\ DOMAIN t = 1 .. Len(t)
  BY ChainFacts, QueuesAssumption
<1>2. Len(s) = Len(t)
  BY DEF Linked
<1>3. CASE Len(s) = 0
  BY <1>1, <1>2, <1>3
<1>4. CASE Len(s) # 0
  <2>0. s # <<>> /\ t # <<>>
    BY <1>1, <1>2, <1>4
  <2> PICK T : T = {k \in 0 .. Len(s) : k = 0 \/ s[k] = t[k]}
    OBVIOUS
  <2>1. s[1] = t[1]
    BY <2>0 DEF Linked
  <2>2. ASSUME NEW k \in 0 .. Len(s) - 1, k \in T PROVE k + 1 \in T
    <3>1. CASE k = 0
      BY <1>1, <1>4, <2>1, <3>1
    <3>2. CASE k # 0
      <4>0. s[k] = t[k] /\ k \in 1 .. Len(s) - 1
        <5>1. k \in {x \in 0 .. Len(s) : x = 0 \/ s[x] = t[x]}
          BY <2>2
        <5>2. k \in 0 .. Len(s) - 1 /\ Len(s) \in Nat
          BY <1>1
        <5> QED BY <3>2, <5>1, <5>2
      <4>1. k \in DOMAIN s /\ k \in DOMAIN t /\ s[k] = t[k] /\ k # Len(s) /\ k # Len(t)
        <5>1. k \in 1 .. Len(s) /\ k # Len(s)
          <6>1. Len(s) \in Nat
            BY <1>1
          <6> QED BY ONLY <4>0, <6>1
        <5> QED BY <1>1, <1>2, <4>0, <5>1
      <4>2. e[s[k]].next = s[k + 1] /\ e[t[k]].next = t[k + 1]
        BY <4>1 DEF Linked
      <4> QED BY <1>1, <4>1, <4>2
    <3> QED BY <3>1, <3>2
  <2>3. \A k \in 0 .. Len(s) : k \in T
    <3>1. Len(s) \in Nat /\ 0 \in T
      BY <1>1
    <3>2. \A k \in 0 .. Len(s) - 1 : k \in T => k + 1 \in T
      BY <2>2
    <3> QED BY ONLY <3>1, <3>2, StepByStep
  <2>4. \A k \in 1 .. Len(s) : s[k] = t[k]
    BY <1>1, <2>3
  <2>5. s = [k \in 1 .. Len(s) |-> s[k]] /\ t = [k \in 1 .. Len(s) |-> t[k]]
    BY <1>1, <1>2
  <2> QED BY <2>4, <2>5
<1> QED BY <1>3, <1>4

LEMMA TheChain ==
  ASSUME NEW q, NEW e, NEW s \in Chains, Linked(q, e, s)
  PROVE  Chain(q, e) = s
<1>1. Chain(q, e) \in Chains /\ Linked(q, e, Chain(q, e))
  <2>1. Chain(q, e) = CHOOSE t \in Chains : Linked(q, e, t)
    BY DEF Chain
  <2> QED BY <2>1
<1> QED BY <1>1, OneChain

----------------------------------------------------------------------------
\* What the assignments of the calls do to the links of a chain.

Same(E, F, a) == F[a].pid = E[a].pid /\ F[a].key = E[a].key
SameLinks(E, F, a) == F[a].next = E[a].next /\ F[a].prev = E[a].prev

Among(s) == {s[i] : i \in DOMAIN s}
OnceOn(s) == \A i, j \in DOMAIN s : s[i] = s[j] => i = j

\* A chain holds as long as its entries keep their links.
LEMMA ChainKept ==
  ASSUME NEW q, NEW E, NEW F, NEW s, Linked(q, E, s), \A i \in DOMAIN s : SameLinks(E, F, s[i])
  PROVE  Linked(q, F, s)
BY DEF Linked, SameLinks

\* Assignments through pointers.
LEMMA Assigned ==
  ASSUME NEW E \in [Addr -> Entry], NEW a \in Pointer, NEW to \in Pointer
  PROVE  /\ SetNext(E, a, to) \in [Addr -> Entry] /\ SetPrev(E, a, to) \in [Addr -> Entry]
         /\ \A b \in Addr :
              /\ Same(E, SetNext(E, a, to), b) /\ Same(E, SetPrev(E, a, to), b)
              /\ SetNext(E, a, to)[b].prev = E[b].prev /\ SetPrev(E, a, to)[b].next = E[b].next
              /\ SetNext(E, a, to)[b].next = IF b = a THEN to ELSE E[b].next
              /\ SetPrev(E, a, to)[b].prev = IF b = a THEN to ELSE E[b].prev
<1>1. CASE a = NULL
  BY <1>1, QueuesAssumption DEF SetNext, SetPrev, Same
<1>2. CASE a # NULL
  <2> PICK X, Y : X = SetNext(E, a, to) /\ Y = SetPrev(E, a, to)
    OBVIOUS
  <2>1. a \in Addr
    BY <1>2 DEF Pointer
  <2>2. X = [E EXCEPT ![a].next = to] /\ Y = [E EXCEPT ![a].prev = to]
    BY <1>2 DEF SetNext, SetPrev
  <2>3. X \in [Addr -> Entry] /\ Y \in [Addr -> Entry]
    BY <2>1, <2>2 DEF Entry
  <2>4. ASSUME NEW b \in Addr
        PROVE  /\ X[b].pid = E[b].pid /\ X[b].key = E[b].key /\ X[b].prev = E[b].prev
               /\ Y[b].pid = E[b].pid /\ Y[b].key = E[b].key /\ Y[b].next = E[b].next
               /\ X[b].next = IF b = a THEN to ELSE E[b].next
               /\ Y[b].prev = IF b = a THEN to ELSE E[b].prev
    BY <2>1, <2>2 DEF Entry
  <2> QED BY <2>3, <2>4 DEF Same
<1> QED BY <1>1, <1>2

\* The entry put in at a place, between its neighbours or at an end.
LEMMA LinkedIn ==
  ASSUME NEW s \in Chains, Len(s) < NPROC, OnceOn(s), NEW m \in 1 .. Len(s) + 1,
         NEW x \in Addr, x \notin Among(s), NEW q, NEW E \in [Addr -> Entry], Linked(q, E, s),
         NEW c, c = AtPlace(s, m), NEW b, b = (IF c = NULL THEN q.tail ELSE E[c].prev),
         NEW F \in [Addr -> Entry],
         \A a \in Addr :
           /\ F[a].next = IF a = x THEN c ELSE IF a = b THEN x ELSE E[a].next
           /\ F[a].prev = IF a = x THEN b ELSE IF a = c THEN x ELSE E[a].prev,
         NEW r, r = [head |-> IF b = NULL THEN x ELSE q.head,
                     tail |-> IF c = NULL THEN x ELSE q.tail, size |-> q.size + 1]
  PROVE  /\ InsertedAt(s, m, x) \in Chains
         /\ Linked(r, F, InsertedAt(s, m, x))
<1> PICK t : t = InsertedAt(s, m, x)
  OBVIOUS
<1>1. /\ Len(s) \in Nat /\ NPROC \in Nat /\ DOMAIN s = 1 .. Len(s)
      /\ \A i \in 1 .. Len(s) : s[i] \in Addr /\ s[i] # NULL /\ s[i] # x
      /\ x # NULL
  BY ChainFacts, QueuesAssumption DEF Among
<1>2. t \in [1 .. Len(s) + 1 -> Addr]
  <2>1. ASSUME NEW i \in 1 .. Len(s) + 1, i # m, ~(i < m) PROVE i - 1 \in 1 .. Len(s)
    BY <1>1, <2>1
  <2>2. ASSUME NEW i \in 1 .. Len(s) + 1, i < m PROVE i \in 1 .. Len(s)
    BY <1>1, <2>2
  <2> QED BY <1>1, <2>1, <2>2 DEF InsertedAt
<1>3. t \in Chains /\ Len(t) = Len(s) + 1 /\ DOMAIN t = 1 .. Len(s) + 1
  <2>1. Len(s) + 1 \in 0 .. NPROC
    BY <1>1
  <2> QED BY <1>2, <2>1, IsChain
<1>4. /\ t[m] = x
      /\ \A i \in 1 .. Len(s) + 1 : (i < m => t[i] = s[i]) /\ (i > m => t[i] = s[i - 1])
  BY <1>1 DEF InsertedAt
<1>5. /\ q.size = Len(s)
      /\ q.head = (IF Len(s) = 0 THEN NULL ELSE s[1])
      /\ q.tail = (IF Len(s) = 0 THEN NULL ELSE s[Len(s)])
      /\ \A i \in 1 .. Len(s) :
           /\ E[s[i]].next = (IF i = Len(s) THEN NULL ELSE s[i + 1])
           /\ E[s[i]].prev = (IF i = 1 THEN NULL ELSE s[i - 1])
  <2>1. s = <<>> <=> Len(s) = 0
    BY <1>1, ChainFacts
  <2> QED BY <1>1, <2>1 DEF Linked
<1>6. /\ c = (IF m <= Len(s) THEN s[m] ELSE NULL)
      /\ b = (IF m = 1 THEN NULL ELSE s[m - 1])
      /\ c = NULL <=> m = Len(s) + 1
      /\ b = NULL <=> m = 1
  <2>1. c = (IF m <= Len(s) THEN s[m] ELSE NULL)
    BY DEF AtPlace
  <2>2. CASE m <= Len(s)
    <3>1. m \in 1 .. Len(s)
      BY <1>1, <2>2
    <3>2. c = s[m] /\ c # NULL /\ b = E[s[m]].prev
      BY <1>1, <2>1, <2>2, <3>1
    <3>3. m # 1 => m - 1 \in 1 .. Len(s)
      BY <1>1, <3>1
    <3>4. b = (IF m = 1 THEN NULL ELSE s[m - 1])
      BY <1>5, <3>1, <3>2
    <3>5. b = NULL <=> m = 1
      BY <1>1, <3>3, <3>4
    <3>6. m # Len(s) + 1
      BY <1>1, <3>1
    <3> QED BY <2>1, <3>2, <3>4, <3>5, <3>6
  <2>3. CASE ~(m <= Len(s))
    <3>1. m = Len(s) + 1 /\ c = NULL /\ b = q.tail
      BY <1>1, <2>1, <2>3
    <3>2. Len(s) # 0 => Len(s) \in 1 .. Len(s)
      BY <1>1
    <3>3. CASE Len(s) = 0
      BY <1>1, <1>5, <2>1, <3>1, <3>3
    <3>4. CASE Len(s) # 0
      <4>1. b = s[Len(s)] /\ b # NULL
        BY <1>1, <1>5, <3>1, <3>2, <3>4
      <4>2. m # 1 /\ m - 1 = Len(s)
        BY <1>1, <3>1, <3>4
      <4> QED BY <2>1, <3>1, <4>1, <4>2
    <3> QED BY <3>3, <3>4
  <2> QED BY <2>2, <2>3
<1>7. \A i, j \in 1 .. Len(s) : s[i] = s[j] => i = j
  BY <1>1 DEF OnceOn
<1>8. ASSUME NEW i \in 1 .. Len(s) + 1
      PROVE  /\ F[t[i]].next = (IF i = Len(s) + 1 THEN NULL ELSE t[i + 1])
             /\ F[t[i]].prev = (IF i = 1 THEN NULL ELSE t[i - 1])
  <2>1. CASE i = m
    <3>1. F[x].next = c /\ F[x].prev = b
      OBVIOUS
    <3>2. m <= Len(s) => t[m + 1] = s[m]
      <4>1. m <= Len(s) => m + 1 \in 1 .. Len(s) + 1 /\ m + 1 > m /\ (m + 1) - 1 = m
        BY <1>1
      <4> QED BY <1>4, <4>1
    <3>3. m # 1 => t[m - 1] = s[m - 1]
      <4>1. m # 1 => m - 1 \in 1 .. Len(s) + 1 /\ m - 1 < m
        BY <1>1
      <4> QED BY <1>4, <4>1
    <3>4. m = Len(s) + 1 <=> ~(m <= Len(s))
      BY <1>1
    <3> QED BY <1>4, <1>6, <2>1, <3>1, <3>2, <3>3, <3>4
  <2>2. CASE i < m
    <3>1. i \in 1 .. Len(s) /\ t[i] = s[i] /\ s[i] \in Addr /\ s[i] # x /\ i # Len(s) + 1
      BY <1>1, <1>4, <2>2
    <3>2. s[i] # c
      <4>1. m <= Len(s) => c = s[m] /\ m \in 1 .. Len(s)
        BY <1>1, <1>6
      <4>2. ~(m <= Len(s)) => c = NULL
        BY <1>6
      <4> QED BY <1>1, <1>7, <2>2, <3>1, <4>1, <4>2
    <3>3. s[i] = b <=> i = m - 1
      <4>1. m # 1 /\ m - 1 \in 1 .. Len(s) /\ b = s[m - 1]
        BY <1>1, <1>6, <2>2
      <4> QED BY <1>7, <3>1, <4>1
    <3>4. F[s[i]].prev = E[s[i]].prev
      BY <3>1, <3>2
    <3>5. i # 1 => t[i - 1] = s[i - 1]
      <4>1. i # 1 => i - 1 \in 1 .. Len(s) + 1 /\ i - 1 < m
        BY <1>1, <2>2
      <4> QED BY <1>4, <4>1
    <3>6. CASE i = m - 1
      <4>1. t[i + 1] = x /\ F[s[i]].next = x
        BY <1>4, <3>1, <3>3, <3>6
      <4> QED BY <1>5, <3>1, <3>4, <3>5, <4>1
    <3>7. CASE i # m - 1
      <4>1. i + 1 \in 1 .. Len(s) + 1 /\ i + 1 < m /\ i # Len(s)
        BY <1>1, <2>2, <3>7
      <4>2. t[i + 1] = s[i + 1] /\ F[s[i]].next = E[s[i]].next
        BY <1>4, <3>1, <3>3, <3>7, <4>1
      <4> QED BY <1>5, <3>1, <3>4, <3>5, <4>1, <4>2
    <3> QED BY <3>6, <3>7
  <2>3. CASE i > m
    <3> PICK k : k = i - 1
      OBVIOUS
    <3>1. /\ k \in 1 .. Len(s) /\ t[i] = s[k] /\ s[k] \in Addr /\ s[k] # x
          /\ k >= m /\ i = k + 1 /\ i # 1
      BY <1>1, <1>4, <2>3
    <3>2. s[k] # b
      <4>1. m # 1 => m - 1 \in 1 .. Len(s) /\ m - 1 # k /\ b = s[m - 1]
        BY <1>1, <1>6, <3>1
      <4> QED BY <1>1, <1>6, <1>7, <3>1, <4>1
    <3>3. s[k] = c <=> k = m
      <4>1. m \in 1 .. Len(s) /\ c = s[m]
        BY <1>1, <1>6, <3>1
      <4> QED BY <1>7, <3>1, <4>1
    <3>4. F[s[k]].next = (IF k = Len(s) THEN NULL ELSE s[k + 1])
      BY <1>5, <3>1, <3>2
    <3>5. k # Len(s) => t[i + 1] = s[k + 1]
      <4>1. k # Len(s) => i + 1 \in 1 .. Len(s) + 1 /\ i + 1 > m /\ (i + 1) - 1 = k + 1
        BY <1>1, <3>1
      <4> QED BY <1>4, <4>1
    <3>6. CASE k = m
      <4>1. i - 1 = m /\ t[i - 1] = x /\ F[s[k]].prev = x
        BY <1>4, <3>1, <3>3, <3>6
      <4> QED BY <1>1, <3>1, <3>4, <3>5, <4>1
    <3>7. CASE k # m
      <4>1. k \in 1 .. Len(s) + 1 /\ k > m /\ t[k] = s[k - 1] /\ k # 1 /\ i - 1 = k
        BY <1>1, <1>4, <3>1, <3>7
      <4>2. F[s[k]].prev = s[k - 1]
        BY <1>5, <3>1, <3>3, <3>7, <4>1
      <4> QED BY <1>1, <3>1, <3>4, <3>5, <4>1, <4>2
    <3> QED BY <3>6, <3>7
  <2> QED BY <1>1, <2>1, <2>2, <2>3
<1>9. r = [head |-> t[1], tail |-> t[Len(t)], size |-> Len(t)]
  <2>1. t[1] = IF m = 1 THEN x ELSE s[1]
    <3>1. 1 \in 1 .. Len(s) + 1
      BY <1>1
    <3> QED BY <1>1, <1>4, <3>1
  <2>2. t[Len(s) + 1] = IF m = Len(s) + 1 THEN x ELSE s[Len(s)]
    <3>1. Len(s) + 1 \in 1 .. Len(s) + 1 /\ (Len(s) + 1) - 1 = Len(s)
      BY <1>1
    <3> QED BY <1>1, <1>4, <3>1
  <2>3. m # 1 => Len(s) # 0
    BY <1>1
  <2>4. m # Len(s) + 1 => Len(s) # 0
    BY <1>1
  <2> QED BY <1>3, <1>5, <1>6, <2>1, <2>2, <2>3, <2>4
<1>10. t # <<>>
  BY <1>1, <1>3
<1> QED BY <1>3, <1>8, <1>9, <1>10 DEF Linked

\* The entry taken out of a place, whatever is written over it.
LEMMA LinkedOut ==
  ASSUME NEW s \in Chains, OnceOn(s), NEW m \in 1 .. Len(s),
         NEW q, NEW E \in [Addr -> Entry], Linked(q, E, s), NEW x, x = s[m],
         NEW F \in [Addr -> Entry],
         \A a \in Addr \ {x} :
           /\ F[a].next = IF a = E[x].prev THEN E[x].next ELSE E[a].next
           /\ F[a].prev = IF a = E[x].next THEN E[x].prev ELSE E[a].prev,
         NEW r, r = [head |-> IF x = q.head THEN E[x].next ELSE q.head,
                     tail |-> IF x = q.tail THEN E[x].prev ELSE q.tail, size |-> q.size - 1]
  PROVE  /\ Skipped(s, m) \in Chains
         /\ Linked(r, F, Skipped(s, m))
<1> PICK t : t = Skipped(s, m)
  OBVIOUS
<1> PICK n : n = Len(s)
  OBVIOUS
<1>1. /\ n \in Nat /\ NPROC \in Nat /\ n <= NPROC /\ DOMAIN s = 1 .. n
      /\ \A i \in 1 .. n : s[i] \in Addr /\ s[i] # NULL
      /\ m \in 1 .. n /\ n # 0
  BY ChainFacts, QueuesAssumption
<1>2. t = [i \in 1 .. n - 1 |-> IF i < m THEN s[i] ELSE s[i + 1]]
  BY DEF Skipped
<1>3. t \in Chains /\ Len(t) = n - 1 /\ DOMAIN t = 1 .. n - 1
  <2>1. n - 1 \in 0 .. NPROC
    BY <1>1
  <2>2. ASSUME NEW i \in 1 .. n - 1 PROVE i \in 1 .. n /\ i + 1 \in 1 .. n
    BY <1>1
  <2>3. t \in [1 .. n - 1 -> Addr]
    BY <1>1, <1>2, <2>2
  <2> QED BY <2>1, <2>3, IsChain
<1>4. \A i \in 1 .. n - 1 : (i < m => t[i] = s[i]) /\ (~(i < m) => t[i] = s[i + 1])
  BY <1>2
<1>5. /\ q.size = n /\ q.head = s[1] /\ q.tail = s[n]
      /\ \A i \in 1 .. n :
           /\ E[s[i]].next = (IF i = n THEN NULL ELSE s[i + 1])
           /\ E[s[i]].prev = (IF i = 1 THEN NULL ELSE s[i - 1])
  <2>1. s # <<>>
    BY <1>1, ChainFacts
  <2> QED BY <1>1, <2>1 DEF Linked
<1>6. /\ E[x].next = (IF m = n THEN NULL ELSE s[m + 1])
      /\ E[x].prev = (IF m = 1 THEN NULL ELSE s[m - 1])
  BY <1>1, <1>5
<1>7. \A i, j \in 1 .. n : s[i] = s[j] => i = j
  BY <1>1 DEF OnceOn
\* An entry but the one at m: its successor and predecessor afterwards.
<1>8. ASSUME NEW k \in 1 .. n, k # m
      PROVE  /\ F[s[k]].next = (IF k = m - 1 THEN E[x].next ELSE E[s[k]].next)
             /\ F[s[k]].prev = (IF k = m + 1 THEN E[x].prev ELSE E[s[k]].prev)
  <2>1. s[k] \in Addr \ {x} /\ s[k] # NULL
    BY <1>1, <1>7, <1>8
  <2>2. s[k] = E[x].prev <=> k = m - 1
    <3>1. CASE m = 1
      BY <1>1, <1>6, <2>1, <3>1
    <3>2. CASE m # 1
      <4>1. m - 1 \in 1 .. n /\ E[x].prev = s[m - 1]
        BY <1>1, <1>6, <3>2
      <4> QED BY <1>7, <4>1
    <3> QED BY <3>1, <3>2
  <2>3. s[k] = E[x].next <=> k = m + 1
    <3>1. CASE m = n
      BY <1>1, <1>6, <2>1, <3>1
    <3>2. CASE m # n
      <4>1. m + 1 \in 1 .. n /\ E[x].next = s[m + 1]
        BY <1>1, <1>6, <3>2
      <4> QED BY <1>7, <4>1
    <3> QED BY <3>1, <3>2
  <2> QED BY <2>1, <2>2, <2>3
<1>9. ASSUME NEW i \in 1 .. n - 1
      PROVE  /\ F[t[i]].next = (IF i = n - 1 THEN NULL ELSE t[i + 1])
             /\ F[t[i]].prev = (IF i = 1 THEN NULL ELSE t[i - 1])
  <2>1. CASE i < m
    <3>1. i \in 1 .. n /\ i # m /\ i # n /\ t[i] = s[i] /\ i # m + 1
      BY <1>1, <1>4, <2>1
    <3>2. F[s[i]].prev = (IF i = 1 THEN NULL ELSE s[i - 1])
      BY <1>5, <1>8, <3>1
    <3>3. i # 1 => t[i - 1] = s[i - 1]
      <4>1. i # 1 => i - 1 \in 1 .. n - 1 /\ i - 1 < m
        BY <1>1, <2>1
      <4> QED BY <1>4, <4>1
    <3>4. CASE i = m - 1
      <4>1. F[s[i]].next = (IF m = n THEN NULL ELSE s[m + 1])
        BY <1>6, <1>8, <3>1, <3>4
      <4>2. (m = n <=> i = n - 1) /\ i + 1 = m
        BY <1>1, <3>4
      <4>3. m # n => t[m] = s[m + 1]
        <5>1. m # n => m \in 1 .. n - 1 /\ ~(m < m)
          BY <1>1
        <5> QED BY <1>4, <5>1
      <4> QED BY <3>1, <3>2, <3>3, <4>1, <4>2, <4>3
    <3>5. CASE i # m - 1
      <4>1. F[s[i]].next = s[i + 1]
        BY <1>5, <1>8, <3>1, <3>5
      <4>2. i + 1 \in 1 .. n - 1 /\ i + 1 < m /\ i # n - 1
        BY <1>1, <2>1, <3>5
      <4>3. t[i + 1] = s[i + 1]
        BY <1>4, <4>2
      <4> QED BY <3>1, <3>2, <3>3, <4>1, <4>2, <4>3
    <3> QED BY <3>4, <3>5
  <2>2. CASE ~(i < m)
    <3> PICK k : k = i + 1
      OBVIOUS
    <3>1. k \in 1 .. n /\ k # m /\ k # 1 /\ k # m - 1 /\ t[i] = s[k] /\ i = k - 1
      BY <1>1, <1>4, <2>2
    <3>2. F[s[k]].next = (IF k = n THEN NULL ELSE s[k + 1])
      BY <1>5, <1>8, <3>1
    <3>3. (k = n <=> i = n - 1) /\ (k # n => t[i + 1] = s[k + 1])
      <4>1. k = n <=> i = n - 1
        BY <1>1, <3>1
      <4>2. k # n => i + 1 \in 1 .. n - 1 /\ ~(i + 1 < m) /\ i + 1 = k
        BY <1>1, <2>2, <3>1
      <4> QED BY <1>4, <4>1, <4>2
    <3>4. CASE k = m + 1
      <4>1. F[s[k]].prev = (IF m = 1 THEN NULL ELSE s[m - 1])
        BY <1>6, <1>8, <3>1, <3>4
      <4>2. i = m
        BY <1>1, <3>1, <3>4
      <4>3. m # 1 => t[m - 1] = s[m - 1]
        <5>1. m # 1 => m - 1 \in 1 .. n - 1 /\ m - 1 < m
          BY <1>1
        <5> QED BY <1>4, <5>1
      <4> QED BY <3>1, <3>2, <3>3, <4>1, <4>2, <4>3
    <3>5. CASE k # m + 1
      <4>1. F[s[k]].prev = s[i]
        BY <1>5, <1>8, <3>1, <3>5
      <4>2. i - 1 \in 1 .. n - 1 /\ ~(i - 1 < m) /\ (i - 1) + 1 = i /\ i # 1
        BY <1>1, <2>2, <3>1, <3>5
      <4>3. t[i - 1] = s[i]
        BY <1>4, <4>2
      <4> QED BY <3>1, <3>2, <3>3, <4>1, <4>2, <4>3
    <3> QED BY <3>4, <3>5
  <2> QED BY <2>1, <2>2
<1>10. CASE n = 1
  <2>1. m = 1 /\ t = <<>> /\ x = q.head /\ x = q.tail /\ E[x].next = NULL /\ E[x].prev = NULL
    <3>1. t \in Seq(Addr) /\ Len(t) = 0
      BY <1>1, <1>3, <1>10, ChainFacts
    <3> QED BY <1>1, <1>5, <1>6, <1>10, <3>1
  <2>2. Len(t) = 0 /\ r = [head |-> NULL, tail |-> NULL, size |-> 0] /\ DOMAIN t = {}
    BY <1>1, <1>3, <1>5, <1>10, <2>1
  <2> QED BY <1>3, <2>1, <2>2 DEF Linked
<1>11. CASE n # 1
  <2>1. t # <<>> /\ Len(t) \in 1 .. n - 1 /\ Len(t) = n - 1
    BY <1>1, <1>3, <1>11
  <2>2. t[1] = IF m = 1 THEN s[2] ELSE s[1]
    <3>1. 1 \in 1 .. n - 1 /\ (m # 1 => 1 < m)
      BY <1>1, <1>11
    <3> QED BY <1>1, <1>4, <3>1
  <2>3. t[n - 1] = IF m = n THEN s[n - 1] ELSE s[n]
    <3>1. n - 1 \in 1 .. n - 1 /\ (m = n => n - 1 < m) /\ (m # n => ~(n - 1 < m)) /\ (n - 1) + 1 = n
      BY <1>1, <1>11
    <3> QED BY <1>4, <3>1
  <2>4. (x = q.head <=> m = 1) /\ (x = q.tail <=> m = n)
    BY <1>1, <1>5, <1>7
  <2>5. (m = 1 => E[x].next = s[2]) /\ (m = n => E[x].prev = s[n - 1])
    BY <1>1, <1>6, <1>11
  <2>6. r = [head |-> t[1], tail |-> t[Len(t)], size |-> Len(t)]
    BY <1>5, <2>1, <2>2, <2>3, <2>4, <2>5
  <2>7. \A i \in DOMAIN t : /\ F[t[i]].next = IF i = Len(t) THEN NULL ELSE t[i + 1]
                            /\ F[t[i]].prev = IF i = 1 THEN NULL ELSE t[i - 1]
    BY ONLY <1>3, <1>9
  <2>8. Linked(r, F, t)
    BY ONLY <2>1, <2>6, <2>7 DEF Linked
  <2> QED BY ONLY <1>3, <2>8, t = Skipped(s, m)
<1> QED BY <1>10, <1>11

----------------------------------------------------------------------------
\* What the queues hold.

Plain(E, s) == [i \in DOMAIN s |-> [pid |-> E[s[i]].pid, key |-> E[s[i]].key]]

\* Shown and Contents, of any memory and call.
AgedIn(E, cl, q, s, i) ==
  /\ cl.op = "age" /\ cl.q = q /\ \A j \in DOMAIN s : j <= i => s[j] # cl.curr
  /\ E[s[i]].pid \notin cl.spared
ShownBy(E, cl, q, s) ==
  [i \in DOMAIN s |->
     [pid |-> E[s[i]].pid, key |-> IF AgedIn(E, cl, q, s, i) THEN E[s[i]].key - 1 ELSE E[s[i]].key]]

LEMMA PlainFacts ==
  ASSUME NEW s \in Chains, NEW E \in [Addr -> Entry]
  PROVE  /\ Plain(E, s) \in Seq(Entries(Pid)) /\ Len(Plain(E, s)) = Len(s)
         /\ DOMAIN Plain(E, s) = 1 .. Len(s)
         /\ \A i \in 1 .. Len(s) : /\ Plain(E, s)[i].pid = E[s[i]].pid
                                   /\ Plain(E, s)[i].key = E[s[i]].key
                                   /\ E[s[i]].pid \in Pid /\ E[s[i]].key \in Int
         /\ s = <<>> <=> Plain(E, s) = <<>>
<1>1. /\ Len(s) \in Nat /\ DOMAIN s = 1 .. Len(s) /\ s \in Seq(Addr)
      /\ \A i \in 1 .. Len(s) : s[i] \in Addr
  BY ChainFacts, QueuesAssumption
<1>2. \A i \in 1 .. Len(s) : E[s[i]].pid \in Pid /\ E[s[i]].key \in Int
  BY <1>1 DEF Entry
<1> PICK n : n = Len(s)
  OBVIOUS
<1>3. Plain(E, s) = [i \in 1 .. n |-> [pid |-> E[s[i]].pid, key |-> E[s[i]].key]]
  BY <1>1 DEF Plain
<1> PICK p : p = Plain(E, s)
  OBVIOUS
<1>4. p \in [1 .. n -> Entries(Pid)] /\ DOMAIN p = 1 .. n
  BY <1>2, <1>3 DEF Entries
<1>5. p \in Seq(Entries(Pid)) /\ Len(p) = n
  <2> PICK A : A = Entries(Pid)
    OBVIOUS
  <2>1. p \in [1 .. n -> A] /\ n \in Nat
    BY <1>1, <1>4
  <2>2. p \in Seq(A) /\ Len(p) = n
    BY ONLY <2>1
  <2> QED BY <2>2
<1>6. (s = <<>> <=> n = 0) /\ (p = <<>> <=> n = 0)
  BY <1>1, <1>5
<1> QED BY <1>2, <1>3, <1>4, <1>5, <1>6

\* They depend on nothing but the pids and keys.
LEMMA PlainKept ==
  ASSUME NEW s, NEW E, NEW F, \A i \in DOMAIN s : Same(E, F, s[i])
  PROVE  Plain(F, s) = Plain(E, s)
BY DEF Plain, Same

LEMMA PlainInserted ==
  ASSUME NEW s \in Chains, NEW m \in 1 .. Len(s) + 1, NEW x, NEW E, NEW F,
         \A i \in DOMAIN s : Same(E, F, s[i]), InsertedAt(s, m, x) \in Chains
  PROVE  Plain(F, InsertedAt(s, m, x)) =
           InsertedAt(Plain(E, s), m, [pid |-> F[x].pid, key |-> F[x].key])
<1> PICK t, p, n, e : /\ t = InsertedAt(s, m, x) /\ p = Plain(E, s) /\ n = Len(s)
                      /\ e = [pid |-> F[x].pid, key |-> F[x].key]
  OBVIOUS
<1>1. n \in Nat /\ DOMAIN s = 1 .. n
  BY ChainFacts
<1>2. t = [i \in 1 .. n + 1 |-> IF i < m THEN s[i] ELSE IF i = m THEN x ELSE s[i - 1]]
  BY DEF InsertedAt
<1>3. p = [i \in 1 .. n |-> [pid |-> E[s[i]].pid, key |-> E[s[i]].key]]
  BY <1>1 DEF Plain
<1>4. Len(p) = n
  BY <1>1, <1>3
<1>5. InsertedAt(p, m, e) =
        [i \in 1 .. n + 1 |-> IF i < m THEN p[i] ELSE IF i = m THEN e ELSE p[i - 1]]
  BY <1>4 DEF InsertedAt
<1>6. Plain(F, t) = [i \in 1 .. n + 1 |-> [pid |-> F[t[i]].pid, key |-> F[t[i]].key]]
  BY <1>2 DEF Plain
<1>7. ASSUME NEW i \in 1 .. n + 1
      PROVE  [pid |-> F[t[i]].pid, key |-> F[t[i]].key] =
               IF i < m THEN p[i] ELSE IF i = m THEN e ELSE p[i - 1]
  <2>1. CASE i = m
    BY <1>2, <2>1
  <2>2. CASE i < m
    <3>1. i \in 1 .. n /\ t[i] = s[i]
      BY <1>1, <1>2, <2>2
    <3> QED BY <1>1, <1>3, <2>2, <3>1 DEF Same
  <2>3. CASE i > m
    <3>1. i - 1 \in 1 .. n /\ t[i] = s[i - 1]
      BY <1>1, <1>2, <2>3
    <3> QED BY <1>1, <1>3, <2>3, <3>1 DEF Same
  <2> QED BY <1>1, <2>1, <2>2, <2>3
<1> QED BY ONLY <1>5, <1>6, <1>7, t = InsertedAt(s, m, x), p = Plain(E, s),
                e = [pid |-> F[x].pid, key |-> F[x].key]

LEMMA PlainSkipped ==
  ASSUME NEW s \in Chains, NEW m \in 1 .. Len(s), NEW E, NEW F,
         \A i \in DOMAIN s : i # m => Same(E, F, s[i])
  PROVE  Plain(F, Skipped(s, m)) = Skipped(Plain(E, s), m)
<1> PICK t, p, n : t = Skipped(s, m) /\ p = Plain(E, s) /\ n = Len(s)
  OBVIOUS
<1>1. n \in Nat /\ DOMAIN s = 1 .. n
  BY ChainFacts
<1>2. t = [i \in 1 .. n - 1 |-> IF i < m THEN s[i] ELSE s[i + 1]]
  BY DEF Skipped
<1>3. p = [i \in 1 .. n |-> [pid |-> E[s[i]].pid, key |-> E[s[i]].key]]
  BY <1>1 DEF Plain
<1>4. Len(p) = n
  BY <1>1, <1>3
<1>5. Skipped(p, m) = [i \in 1 .. n - 1 |-> IF i < m THEN p[i] ELSE p[i + 1]]
  BY <1>4 DEF Skipped
<1>6. Plain(F, t) = [i \in 1 .. n - 1 |-> [pid |-> F[t[i]].pid, key |-> F[t[i]].key]]
  BY <1>2 DEF Plain
<1>7. ASSUME NEW i \in 1 .. n - 1
      PROVE  [pid |-> F[t[i]].pid, key |-> F[t[i]].key] = IF i < m THEN p[i] ELSE p[i + 1]
  <2>2. CASE i < m
    <3>1. i \in 1 .. n /\ i # m /\ t[i] = s[i]
      BY <1>1, <1>2, <2>2
    <3> QED BY <1>1, <1>3, <2>2, <3>1 DEF Same
  <2>3. CASE ~(i < m)
    <3>1. i + 1 \in 1 .. n /\ i + 1 # m /\ t[i] = s[i + 1]
      BY <1>1, <1>2, <2>3
    <3> QED BY <1>1, <1>3, <2>3, <3>1 DEF Same
  <2> QED BY <2>2, <2>3
<1> QED BY <1>5, <1>6, <1>7

----------------------------------------------------------------------------
\* The operators of KeyQueue, at a known place.

LEMMA EnqueueAt ==
  ASSUME NEW P, NEW q \in Seq(Entries(P)), NEW p \in P, NEW k \in Int, NEW c \in Nat, Len(q) < c,
         NEW m \in 1 .. Len(q) + 1, \A i \in 1 .. m - 1 : q[i].key >= k,
         m <= Len(q) => q[m].key < k
  PROVE  Enqueue(q, p, k, c) = InsertedAt(q, m, [pid |-> p, key |-> k])
<1>1. PICK x \in 1 .. Len(q) + 1 :
           /\ Enqueue(q, p, k, c) = InsertAt(q, x, [pid |-> p, key |-> k])
           /\ \A j \in 1 .. Len(q) : j < x => q[j].key >= k
           /\ x <= Len(q) => q[x].key < k
  BY ONLY q \in Seq(Entries(P)), p \in P, k \in Int, c \in Nat, Len(q) < c, EnqueuePlace
<1>2. Len(q) \in Nat /\ \A j \in 1 .. Len(q) : q[j].key \in Int
  <2>1. \A j \in 1 .. Len(q) : q[j] \in Entries(P)
    OBVIOUS
  <2> QED BY <2>1 DEF Entries
<1>3. ~(x < m)
  <2> SUFFICES ASSUME x < m PROVE FALSE
    OBVIOUS
  <2>1. x \in 1 .. Len(q) /\ x \in 1 .. m - 1 /\ x <= Len(q)
    BY <1>2
  <2>2. q[x].key >= k /\ q[x].key < k /\ q[x].key \in Int
    BY <1>1, <1>2, <2>1
  <2> QED BY <2>2
<1>4. ~(m < x)
  <2> SUFFICES ASSUME m < x PROVE FALSE
    OBVIOUS
  <2>1. m \in 1 .. Len(q) /\ m <= Len(q)
    BY <1>2
  <2>2. q[m].key >= k /\ q[m].key < k /\ q[m].key \in Int
    BY <1>1, <1>2, <2>1
  <2> QED BY <2>2
<1>5. x = m
  BY <1>2, <1>3, <1>4
<1> PICK A, e : A = Entries(P) /\ e = [pid |-> p, key |-> k]
  OBVIOUS
<1>6. q \in Seq(A) /\ e \in A
  BY DEF Entries
<1>7. InsertAt(q, m, e) = InsertedAt(q, m, e)
  BY ONLY <1>6, m \in 1 .. Len(q) + 1, InsertedPlaces
<1> QED BY <1>1, <1>5, <1>7

LEMMA RemovedAt ==
  ASSUME NEW S, NEW q \in Seq(S), NEW p, NEW m \in 1 .. Len(q), q[m].pid = p,
         \A i \in 1 .. m - 1 : q[i].pid # p
  PROVE  Removed(q, p) = Skipped(q, m)
<1> PICK I : I = {i \in 1 .. Len(q) : q[i].pid = p}
  OBVIOUS
<1>1. I \subseteq Nat /\ m \in I /\ \A y \in I : m <= y
  OBVIOUS
<1>2. PICK x \in I : x = Min(I) /\ \A y \in I : x <= y
  BY ONLY <1>1, LeastMember
<1>3. x = m /\ Min(I) = m
  BY <1>1, <1>2
<1>4. Removed(q, p) = RemoveAt(q, m)
  BY <1>1, <1>3 DEF Removed, RemoveFirstMatch, SelectInSeq
<1> QED BY ONLY <1>4, q \in Seq(S), m \in 1 .. Len(q), SkippedPlaces

LEMMA RemovedNone ==
  ASSUME NEW S, NEW q \in Seq(S), NEW p, \A i \in 1 .. Len(q) : q[i].pid # p
  PROVE  Removed(q, p) = q
BY DEF Removed, RemoveFirstMatch

LEMMA DroppedFirst ==
  ASSUME NEW S, NEW q \in Seq(S)
  PROVE  /\ Len(q) = 0 => Dropped(q, 1) = q
         /\ Len(q) # 0 => Dropped(q, 1) = Skipped(q, 1)
<1> PICK r, n : r = Dropped(q, 1) /\ n = Len(q)
  OBVIOUS
<1>1. n \in Nat /\ r = SubSeq(q, 2, n)
  BY DEF Dropped
<1>2. CASE n = 0
  <2>1. n = 0 /\ r = SubSeq(q, 2, 0)
    BY <1>1, <1>2
  <2>2. r = <<>> /\ q = <<>>
    BY ONLY <2>1, q \in Seq(S), n = Len(q)
  <2> QED BY <1>2, <2>2
<1>3. CASE n # 0
  <2>0. 2 \in 1 .. Len(q) + 1 /\ n \in 2 - 1 .. Len(q)
    BY <1>1, <1>3
  <2>4. r = SubSeq(q, 2, n) /\ n \in Nat
    BY <1>1
  <2>1. r \in Seq(S) /\ Len(r) = n - 1 /\ \A i \in 1 .. n - 1 : r[i] = q[i + 1]
    <3>1. /\ r \in Seq(S) /\ Len(r) = n - 2 + 1
          /\ \A i \in 1 .. n - 2 + 1 : r[i] = q[2 + i - 1]
      BY ONLY <2>0, <2>4, q \in Seq(S), n = Len(q), SubSeqProperties
    <3>2. \A i \in 1 .. n - 1 : i \in 1 .. n - 2 + 1 /\ 2 + i - 1 = i + 1
      BY ONLY <2>4
    <3> QED BY ONLY <2>4, <3>1, <3>2
  <2>2. r = [i \in 1 .. n - 1 |-> r[i]]
    BY <2>1
  <2>3. \A i \in 1 .. n - 1 : ~(i < 1)
    BY <1>1
  <2> QED BY <1>3, <2>1, <2>2, <2>3 DEF Skipped
<1> QED BY <1>2, <1>3

LEMMA OccurrencesFacts ==
  ASSUME NEW S, NEW q \in Seq(S), NEW p
  PROVE  /\ (\E i \in 1 .. Len(q) : q[i].pid = p) =>
              Occurrences(q, p) > 0 /\ Occurrences(q, p) # 0
         /\ (\A i \in 1 .. Len(q) : q[i].pid # p) =>
              Occurrences(q, p) = 0 /\ ~(Occurrences(q, p) > 0)
<1> PICK T : T = {i \in DOMAIN q : q[i].pid = p}
  OBVIOUS
<1>1. IsFiniteSet(T) /\ Cardinality(T) \in Nat /\ (Cardinality(T) = 0 <=> T = {})
  <2>1. IsFiniteSet(1 .. Len(q)) /\ T \subseteq 1 .. Len(q)
    BY FS_Interval
  <2>2. IsFiniteSet(T)
    BY <2>1, FS_Subset
  <2> QED BY <2>2, FS_CardinalityType, FS_EmptySet
<1>2. Occurrences(q, p) = Cardinality(T)
  BY DEF Occurrences
<1>3. DOMAIN q = 1 .. Len(q)
  OBVIOUS
<1> QED BY <1>1, <1>2, <1>3

----------------------------------------------------------------------------
\* All queues at once.

LEMMA ListFacts ==
  ASSUME NEW c, NEW Q, NEW E, NEW U, ShapeOf(c, Q, E, U), NEW q \in Queue
  PROVE  /\ c[q] \in Chains /\ Linked(Q[q], E, c[q]) /\ OnceOn(c[q]) /\ Among(c[q]) \subseteq U
         /\ \A r \in Queue : r # q => \A a \in Among(c[r]) : a \notin Among(c[q])
<1>1. c[q] \in Chains /\ Linked(Q[q], E, c[q])
  BY DEF ShapeOf
<1>2. Distinct(c) /\ Listed(c) = U
  BY DEF ShapeOf
<1>3. OnceOn(c[q])
  BY <1>2 DEF Distinct, OnceOn
<1>4. Among(c[q]) \subseteq U
  BY <1>2 DEF Listed, Among
<1>5. ASSUME NEW r \in Queue, r # q, NEW a \in Among(c[r]) PROVE a \notin Among(c[q])
  BY <1>2, <1>5 DEF Distinct, Among
<1> QED BY <1>1, <1>3, <1>4, <1>5

\* The chains are those that the invariant speaks of.
LEMMA ShapeSound ==
  ASSUME NEW c, NEW Q, NEW E, NEW U, ShapeOf(c, Q, E, U)
  PROVE  [q \in Queue |-> Chain(Q[q], E)] = c
<1>1. c \in [Queue -> Chains]
  BY DEF ShapeOf
<1>2. ASSUME NEW q \in Queue PROVE Chain(Q[q], E) = c[q]
  <2>1. c[q] \in Chains /\ Linked(Q[q], E, c[q])
    BY DEF ShapeOf
  <2> QED BY ONLY <2>1, TheChain
<1> QED BY <1>1, <1>2

LEMMA EmptyIsChain == <<>> \in Chains
<1>1. 0 \in 0 .. NPROC /\ <<>> \in [1 .. 0 -> Addr]
  BY QueuesAssumption
<1> QED BY <1>1, IsChain

LEMMA NoChain == \A q, e : Chain(q, e) \in Chains
BY EmptyIsChain DEF Chain

LEMMA PictureNow ==
  ASSUME QueueInv
  PROVE  Picture(Cs, queue, entry, used, call)
<1>1. TypesOf(queue, entry, used, call) /\ WalkOf(Cs, entry, call)
  BY DEF QueueInv, QueueTypes, WalkSound, TypesOf
<1>2. Pend(call) = Pending
  BY DEF Pend, Pending, At
<1>3. Cs \in [Queue -> Chains]
  BY NoChain DEF Cs
<1>4. /\ \A q \in Queue : Linked(queue[q], entry, Cs[q])
      /\ \A q, r \in Queue : \A i \in DOMAIN Cs[q], j \in DOMAIN Cs[r] :
           Cs[q][i] = Cs[r][j] => q = r /\ i = j
      /\ UNION {{Cs[q][i] : i \in DOMAIN Cs[q]} : q \in Queue} = used \ Pending
      /\ Pending \subseteq used
  BY DEF QueueInv, ListsSound, Cs
<1>5. ShapeOf(Cs, queue, entry, used \ Pending)
  BY <1>3, <1>4 DEF ShapeOf, Distinct, Listed
<1> QED BY <1>1, <1>2, <1>4, <1>5 DEF Picture

LEMMA PictureNext ==
  ASSUME NEW c, Picture(c, queue', entry', used', call')
  PROVE  QueueInv' /\ Cs' = c
<1> PICK Q, E, U, cl : Q = queue' /\ E = entry' /\ U = used' /\ cl = call'
  OBVIOUS
<1>1. /\ TypesOf(Q, E, U, cl) /\ ShapeOf(c, Q, E, U \ Pend(cl)) /\ Pend(cl) \subseteq U
      /\ WalkOf(c, E, cl)
  BY DEF Picture
<1>2. [q \in Queue |-> Chain(Q[q], E)] = c
  BY ONLY <1>1, ShapeSound
<1>3. Cs' = [q \in Queue |-> Chain(Q[q], E)]
  BY DEF Cs
<1>4. Pend(cl) = Pending'
  BY DEF Pend, Pending, At
<1>5. /\ \A q \in Queue : Linked(Q[q], E, c[q])
      /\ \A q, r \in Queue : \A i \in DOMAIN c[q], j \in DOMAIN c[r] :
           c[q][i] = c[r][j] => q = r /\ i = j
      /\ UNION {{c[q][i] : i \in DOMAIN c[q]} : q \in Queue} = U \ Pending'
      /\ Pending' \subseteq U
  BY <1>1, <1>4 DEF ShapeOf, Distinct, Listed
<1>6. ListsSound'
  BY <1>2, <1>5 DEF ListsSound
<1>7. QueueTypes' /\ WalkSound'
  BY <1>1, <1>2, <1>3 DEF TypesOf, QueueTypes, WalkSound
<1> QED BY <1>2, <1>3, <1>6, <1>7 DEF QueueInv

ShownAll(c, E, cl) == [q \in Queue |-> ShownBy(E, cl, q, c[q])]

LEMMA ContentsNow == Contents = ShownAll(Cs, entry, call)
BY DEF Contents, Shown, Aging, At, ShownAll, ShownBy, AgedIn, Cs

LEMMA ContentsNext == Contents' = ShownAll(Cs', entry', call')
BY DEF Contents, Shown, Aging, At, ShownAll, ShownBy, AgedIn, Cs

LEMMA PlainShown ==
  ASSUME NEW c, NEW E, NEW cl, cl.op # "age"
  PROVE  ShownAll(c, E, cl) = [q \in Queue |-> Plain(E, c[q])]
BY DEF ShownAll, ShownBy, Plain, AgedIn

\* Shapes that change at one queue, or not at all.
LEMMA ShapeSame ==
  ASSUME NEW c, NEW Q, NEW E, NEW F, NEW U, ShapeOf(c, Q, E, U),
         \A a \in U : SameLinks(E, F, a)
  PROVE  ShapeOf(c, Q, F, U)
<1>1. ASSUME NEW q \in Queue PROVE Linked(Q[q], F, c[q])
  <2>1. Linked(Q[q], E, c[q]) /\ Among(c[q]) \subseteq U
    BY ListFacts
  <2>2. \A i \in DOMAIN c[q] : SameLinks(E, F, c[q][i])
    BY <2>1 DEF Among
  <2> QED BY ONLY <2>1, <2>2, ChainKept
<1> QED BY <1>1 DEF ShapeOf

LEMMA ShapeChanges ==
  ASSUME NEW c, NEW Q \in [Queue -> Header], NEW E, NEW F, NEW U, ShapeOf(c, Q, E, U),
         NEW q \in Queue, NEW t \in Chains, NEW r, Linked(r, F, t), OnceOn(t),
         \A a \in U \ Among(c[q]) : SameLinks(E, F, a),
         \A a \in Among(t) : a \in Among(c[q]) \/ a \notin U,
         NEW V, V = (U \ Among(c[q])) \union Among(t)
  PROVE  ShapeOf([c EXCEPT ![q] = t], [Q EXCEPT ![q] = r], F, V)
<1> PICK d, R : d = [c EXCEPT ![q] = t] /\ R = [Q EXCEPT ![q] = r]
  OBVIOUS
<1>1. c \in [Queue -> Chains]
  BY DEF ShapeOf
<1>2. /\ d \in [Queue -> Chains] /\ d[q] = t /\ \A p \in Queue : p # q => d[p] = c[p]
      /\ R[q] = r /\ \A p \in Queue : p # q => R[p] = Q[p]
  BY <1>1
<1>3. ASSUME NEW p \in Queue, p # q
      PROVE  /\ Linked(Q[p], E, c[p]) /\ OnceOn(c[p]) /\ Among(c[p]) \subseteq U
             /\ \A a \in Among(c[p]) : a \notin Among(c[q])
  BY <1>3, ListFacts
<1>4. ASSUME NEW p \in Queue PROVE Linked(R[p], F, d[p])
  <2>1. CASE p = q
    BY <1>2, <2>1
  <2>2. CASE p # q
    <3>1. Linked(Q[p], E, c[p]) /\ \A i \in DOMAIN c[p] : SameLinks(E, F, c[p][i])
      BY <1>3, <2>2 DEF Among
    <3>2. Linked(Q[p], F, c[p])
      BY ONLY <3>1, ChainKept
    <3> QED BY <1>2, <2>2, <3>2
  <2> QED BY <2>1, <2>2
<1>5. Among(c[q]) \subseteq U /\ Distinct(c) /\ Listed(c) = U
  BY ListFacts DEF ShapeOf
<1>6. Distinct(d)
  <2> SUFFICES ASSUME NEW p \in Queue, NEW o \in Queue, NEW i \in DOMAIN d[p],
                      NEW j \in DOMAIN d[o], d[p][i] = d[o][j]
               PROVE  p = o /\ i = j
    BY DEF Distinct
  <2>1. CASE p = q /\ o = q
    BY <1>2, <2>1 DEF OnceOn
  <2>2. CASE p # q /\ o # q
    BY <1>2, <1>5, <2>2 DEF Distinct
  <2>3. CASE p = q /\ o # q
    <3>1. d[p][i] \in Among(t) /\ d[p][i] \in Among(c[o])
      BY <1>2, <2>3 DEF Among
    <3> QED BY <1>3, <2>3, <3>1
  <2>4. CASE p # q /\ o = q
    <3>1. d[p][i] \in Among(t) /\ d[p][i] \in Among(c[p])
      BY <1>2, <2>4 DEF Among
    <3> QED BY <1>3, <2>4, <3>1
  <2> QED BY <2>1, <2>2, <2>3, <2>4
<1>7. Listed(d) = V
  <2>1. \A e : Listed(e) = UNION {Among(e[p]) : p \in Queue}
    BY DEF Listed, Among
  <2>2. ASSUME NEW a \in Listed(d) PROVE a \in V
    <3>1. PICK p \in Queue : a \in Among(d[p])
      BY <2>1
    <3>2. p # q => a \in U \ Among(c[q])
      BY <1>2, <1>3, <3>1
    <3> QED BY <1>2, <3>1, <3>2
  <2>3. ASSUME NEW a \in V PROVE a \in Listed(d)
    <3>1. CASE a \in Among(t)
      BY <1>2, <2>1, <3>1
    <3>2. CASE a \notin Among(t)
      <4>1. a \in Listed(c) /\ a \notin Among(c[q])
        BY <1>5, <3>2
      <4>2. PICK p \in Queue : a \in Among(c[p])
        BY <2>1, <4>1
      <4> QED BY <1>2, <2>1, <4>1, <4>2
    <3> QED BY <3>1, <3>2
  <2> QED BY <2>2, <2>3
<1> QED BY <1>2, <1>4, <1>6, <1>7 DEF ShapeOf

\* The members of a chain with one put in or taken out.
LEMMA MembersIn ==
  ASSUME NEW s \in Chains, OnceOn(s), NEW m \in 1 .. Len(s) + 1, NEW x, x \notin Among(s),
         NEW t, t = InsertedAt(s, m, x)
  PROVE  Among(t) = Among(s) \union {x} /\ OnceOn(t)
<1> PICK n : n = Len(s)
  OBVIOUS
<1>1. n \in Nat /\ DOMAIN s = 1 .. n
  BY ChainFacts
<1>2. t = [i \in 1 .. n + 1 |-> IF i < m THEN s[i] ELSE IF i = m THEN x ELSE s[i - 1]]
  BY DEF InsertedAt
<1>3. ASSUME NEW i \in 1 .. n + 1
      PROVE  \/ i = m /\ t[i] = x
             \/ i < m /\ i \in 1 .. n /\ t[i] = s[i] /\ t[i] # x
             \/ i > m /\ i - 1 \in 1 .. n /\ t[i] = s[i - 1] /\ t[i] # x
  <2>1. i < m => i \in 1 .. n
    BY <1>1
  <2>2. i > m => i - 1 \in 1 .. n
    BY <1>1
  <2>3. \A k \in 1 .. n : s[k] # x
    BY <1>1 DEF Among
  <2>4. i < m \/ i = m \/ i > m
    BY <1>1
  <2>5. i > m => ~(i < m) /\ i # m
    BY <1>1
  <2>6. i = m => ~(i < m)
    BY <1>1
  <2> QED BY <1>2, <2>1, <2>2, <2>3, <2>4, <2>5, <2>6
<1>4. \A i, j \in 1 .. n : s[i] = s[j] => i = j
  BY <1>1 DEF OnceOn
<1>5. OnceOn(t)
  <2> SUFFICES ASSUME NEW i \in 1 .. n + 1, NEW j \in 1 .. n + 1, t[i] = t[j] PROVE i = j
    BY <1>2 DEF OnceOn
  <2> QED BY <1>3, <1>4
<1>6. Among(t) = Among(s) \union {x}
  <2>1. ASSUME NEW a \in Among(t) PROVE a \in Among(s) \union {x}
    BY <1>1, <1>2, <1>3 DEF Among
  <2>2. ASSUME NEW a \in Among(s) PROVE a \in Among(t)
    <3>1. PICK k \in 1 .. n : a = s[k]
      BY <1>1 DEF Among
    <3>2. CASE k < m
      BY <1>1, <1>2, <3>1, <3>2 DEF Among
    <3>3. CASE ~(k < m)
      <4>1. k + 1 \in 1 .. n + 1 /\ ~(k + 1 < m) /\ k + 1 # m /\ (k + 1) - 1 = k
        BY <1>1, <3>3
      <4>2. t[k + 1] = s[k]
        BY <1>2, <4>1
      <4> QED BY <1>2, <3>1, <4>1, <4>2 DEF Among
    <3> QED BY <3>2, <3>3
  <2>3. x \in Among(t)
    <3>1. m \in 1 .. n + 1 /\ t[m] = x
      BY <1>1, <1>2
    <3> QED BY <1>2, <3>1 DEF Among
  <2> QED BY <2>1, <2>2, <2>3
<1> QED BY <1>5, <1>6

LEMMA MembersOut ==
  ASSUME NEW s \in Chains, OnceOn(s), NEW m \in 1 .. Len(s), NEW t, t = Skipped(s, m)
  PROVE  Among(t) = Among(s) \ {s[m]} /\ OnceOn(t)
<1> PICK n : n = Len(s)
  OBVIOUS
<1>1. n \in Nat /\ DOMAIN s = 1 .. n
  BY ChainFacts
<1>2. t = [i \in 1 .. n - 1 |-> IF i < m THEN s[i] ELSE s[i + 1]]
  BY DEF Skipped
<1>3. \A i, j \in 1 .. n : s[i] = s[j] => i = j
  BY <1>1 DEF OnceOn
<1>4. ASSUME NEW i \in 1 .. n - 1
      PROVE  \/ i < m /\ i \in 1 .. n /\ t[i] = s[i] /\ t[i] # s[m]
             \/ ~(i < m) /\ i + 1 \in 1 .. n /\ t[i] = s[i + 1] /\ t[i] # s[m]
  <2>1. i < m => i \in 1 .. n /\ i # m
    BY <1>1
  <2>2. ~(i < m) => i + 1 \in 1 .. n /\ i + 1 # m
    BY <1>1
  <2> QED BY <1>2, <1>3, <2>1, <2>2
<1>5. OnceOn(t)
  <2> SUFFICES ASSUME NEW i \in 1 .. n - 1, NEW j \in 1 .. n - 1, t[i] = t[j] PROVE i = j
    BY <1>2 DEF OnceOn
  <2> QED BY <1>3, <1>4
<1>6. Among(t) = Among(s) \ {s[m]}
  <2>1. ASSUME NEW a \in Among(t) PROVE a \in Among(s) \ {s[m]}
    BY <1>1, <1>2, <1>4 DEF Among
  <2>2. ASSUME NEW a \in Among(s) \ {s[m]} PROVE a \in Among(t)
    <3>1. PICK k \in 1 .. n : a = s[k] /\ k # m
      BY <1>1 DEF Among
    <3>2. CASE k < m
      <4>1. k \in 1 .. n - 1
        BY <1>1, <3>1, <3>2
      <4>2. t[k] = s[k]
        BY <1>2, <3>2, <4>1
      <4> QED BY <1>2, <3>1, <4>1, <4>2 DEF Among
    <3>3. CASE ~(k < m)
      <4>1. k - 1 \in 1 .. n - 1 /\ ~(k - 1 < m) /\ (k - 1) + 1 = k
        BY <1>1, <3>1, <3>3
      <4>2. t[k - 1] = s[k]
        BY <1>2, <4>1
      <4> QED BY <1>2, <3>1, <4>1, <4>2 DEF Among
    <3> QED BY <3>2, <3>3
  <2> QED BY <2>1, <2>2
<1> QED BY <1>5, <1>6

----------------------------------------------------------------------------
\* Steps of the promise.

LEMMA SameOperators ==
  /\ \A q, p, k, c : Promise!Enqueue(q, p, k, c) = Enqueue(q, p, k, c)
  /\ \A q, p : Promise!Removed(q, p) = Removed(q, p)
  /\ \A q, n : Promise!Dropped(q, n) = Dropped(q, n)
  /\ \A q, p : Promise!Occurrences(q, p) = Occurrences(q, p)
<1>1. \A q, p, k, c : Promise!Enqueue(q, p, k, c) = Enqueue(q, p, k, c)
  BY DEF Promise!Enqueue, Enqueue, Promise!SelectInSeq, SelectInSeq, Promise!InsertAt, InsertAt,
         Promise!Min, Min
<1>2. \A q, p : Promise!Removed(q, p) = Removed(q, p)
  BY DEF Promise!Removed, Removed, Promise!RemoveFirstMatch, RemoveFirstMatch,
         Promise!SelectInSeq, SelectInSeq, Promise!RemoveAt, RemoveAt, Promise!Min, Min
<1>3. \A q, n : Promise!Dropped(q, n) = Dropped(q, n)
  BY DEF Promise!Dropped, Dropped
<1>4. \A q, p : Promise!Occurrences(q, p) = Occurrences(q, p)
  BY DEF Promise!Occurrences, Occurrences, Promise!Cardinality, Cardinality
<1> QED BY <1>1, <1>2, <1>3, <1>4

\* What a step of the lists is to those who only see what the queues hold.
Kept == Contents' = Contents /\ ret' = ret
Progress == Promise!OrderedNext \/ Kept

LEMMA CallFacts ==
  ASSUME NEW cl \in Calls
  PROVE  /\ cl.op = "none" => cl = None
         /\ cl.op \in {"none", "enqueue", "remove", "getbypid", "age", "lost"}
         /\ cl.op = "lost" => cl.curr = NULL
         /\ cl.op # "none" => cl.q \in Queue /\ cl.curr \in Pointer
         /\ cl.op = "enqueue" => cl.new \in Addr /\ cl.key \in Keys
         /\ cl.op \in {"remove", "getbypid"} => cl.pid \in Pid
         /\ cl.op = "age" => cl.spared \in SUBSET Pid
BY DEF Calls, None, Pointer

LEMMA CallMoved ==
  ASSUME NEW cl \in Calls, cl.op \notin {"none", "lost"}, NEW x \in Pointer,
         NEW cm, cm = [cl EXCEPT !.curr = x]
  PROVE  /\ cm \in Calls /\ cm.op = cl.op /\ cm.q = cl.q /\ cm.curr = x
         /\ cl.op = "enqueue" => cm.new = cl.new /\ cm.key = cl.key
         /\ cl.op \in {"remove", "getbypid"} => cm.pid = cl.pid
         /\ cl.op = "age" => cm.spared = cl.spared
<1>1. CASE cl \in [op : {"enqueue"}, q : Queue, curr : Pointer, new : Addr, key : Keys]
  BY <1>1 DEF Calls
<1>2. CASE cl \in [op : {"remove", "getbypid"}, q : Queue, curr : Pointer, pid : Pid]
  BY <1>2 DEF Calls
<1>3. CASE cl \in [op : {"age"}, q : Queue, curr : Pointer, spared : SUBSET Pid]
  BY <1>3 DEF Calls
<1> QED BY <1>1, <1>2, <1>3 DEF Calls, None

\* The head, the tail and the links onwards, as places.
LEMMA HeadFacts ==
  ASSUME NEW s \in Chains, NEW q, NEW E, Linked(q, E, s)
  PROVE  /\ q.size = Len(s) /\ q.head = AtPlace(s, 1)
         /\ Len(s) # 0 => q.tail = s[Len(s)] /\ q.head = s[1]
         /\ q.tail = NULL \/ q.tail \in Among(s)
         /\ \A m \in 1 .. Len(s) :
              /\ AtPlace(s, m) = s[m] /\ s[m] # NULL
              /\ E[s[m]].next = AtPlace(s, m + 1)
              /\ E[s[m]].prev = NULL \/ E[s[m]].prev \in Among(s)
         /\ \A m \in 1 .. Len(s) + 1 :
              /\ AtPlace(s, m) = NULL <=> m = Len(s) + 1
              /\ AtPlace(s, m) \in Pointer /\ (AtPlace(s, m) = NULL \/ AtPlace(s, m) \in Among(s))
              /\ AtPlace(s, m) # NULL => m \in 1 .. Len(s)
<1> PICK n : n = Len(s)
  OBVIOUS
<1>1. /\ n \in Nat /\ DOMAIN s = 1 .. n /\ (s = <<>> <=> n = 0)
      /\ \A i \in 1 .. n : s[i] \in Addr /\ s[i] # NULL
  BY ChainFacts
<1>2. /\ q.size = n
      /\ q.head = (IF n = 0 THEN NULL ELSE s[1])
      /\ q.tail = (IF n = 0 THEN NULL ELSE s[n])
      /\ \A i \in 1 .. n :
           /\ E[s[i]].next = (IF i = n THEN NULL ELSE s[i + 1])
           /\ E[s[i]].prev = (IF i = 1 THEN NULL ELSE s[i - 1])
  BY <1>1 DEF Linked
<1>3. q.head = AtPlace(s, 1) /\ (q.tail = NULL \/ q.tail \in Among(s))
  <2>1. n # 0 => n \in 1 .. n /\ 1 <= n
    BY <1>1
  <2>2. n = 0 => ~(1 <= n)
    OBVIOUS
  <2> QED BY <1>1, <1>2, <2>1, <2>2 DEF AtPlace, Among
<1>4. ASSUME NEW m \in 1 .. n
      PROVE  /\ AtPlace(s, m) = s[m] /\ s[m] # NULL
             /\ E[s[m]].next = AtPlace(s, m + 1)
             /\ E[s[m]].prev = NULL \/ E[s[m]].prev \in Among(s)
  <2>1. m <= n /\ (m + 1 <= n <=> m # n)
    BY <1>1
  <2>2. m # 1 => m - 1 \in 1 .. n
    BY <1>1
  <2> QED BY <1>1, <1>2, <2>1, <2>2 DEF AtPlace, Among
<1>5. ASSUME NEW m \in 1 .. n + 1
      PROVE  /\ AtPlace(s, m) = NULL <=> m = n + 1
             /\ AtPlace(s, m) \in Pointer /\ (AtPlace(s, m) = NULL \/ AtPlace(s, m) \in Among(s))
             /\ AtPlace(s, m) # NULL => m \in 1 .. n
  <2>1. m = n + 1 => ~(m <= n)
    BY <1>1
  <2>2. m # n + 1 => m \in 1 .. n /\ m <= n
    BY <1>1
  <2> QED BY <1>1, <2>1, <2>2 DEF AtPlace, Among, Pointer
<1> QED BY <1>1, <1>2, <1>3, <1>4, <1>5

\* A call begins at the head of a queue that is not empty.
LEMMA BeginsWalk ==
  ASSUME QueueInv, Idle, UNCHANGED <<queue, entry, used, ret>>, call' \in Calls,
         call'.op \in {"remove", "getbypid", "age"}, queue[call'.q].size # 0,
         call'.curr = queue[call'.q].head
  PROVE  QueueInv' /\ Kept
<1> PICK c, E, cl, cm : c = Cs /\ E = entry /\ cl = call /\ cm = call'
  OBVIOUS
<1>1. Picture(c, queue, E, used, cl)
  BY PictureNow
<1>2. cm \in Calls /\ cm.q \in Queue /\ cm.op \notin {"none", "enqueue"} /\ cl.op = "none"
  BY CallFacts DEF Idle
<1>3. /\ TypesOf(queue, E, used, cl) /\ ShapeOf(c, queue, E, used \ Pend(cl))
      /\ Pend(cl) \subseteq used
  BY <1>1 DEF Picture
<1>4. Pend(cl) = {} /\ Pend(cm) = {}
  BY <1>2 DEF Pend
<1> PICK s : s = c[cm.q]
  OBVIOUS
<1>5. s \in Chains /\ Linked(queue[cm.q], E, s)
  BY <1>2, <1>3, ListFacts
<1>6. Len(s) # 0 /\ Len(s) \in Nat /\ DOMAIN s = 1 .. Len(s)
      /\ cm.curr = AtPlace(s, 1) /\ cm.curr = s[1]
  BY <1>5, HeadFacts, ChainFacts
<1>7. Walking(s, E, cm)
  <2>1. 1 \in 1 .. Len(s) + 1 /\ 1 .. 1 - 1 = {}
    BY <1>6
  <2> QED BY <1>6, <2>1 DEF Walking
<1>8. Picture(c, queue, E, used, cm)
  BY <1>2, <1>3, <1>4, <1>7 DEF Picture, TypesOf, WalkOf
<1>9. Picture(c, queue', entry', used', call')
  BY <1>8
<1>10. QueueInv' /\ Cs' = c
  BY <1>9, PictureNext
<1>11. ASSUME NEW q \in Queue PROVE ShownBy(E, cm, q, c[q]) = ShownBy(E, cl, q, c[q])
  <2>1. ASSUME NEW i \in DOMAIN c[q] PROVE ~AgedIn(E, cm, q, c[q], i) /\ ~AgedIn(E, cl, q, c[q], i)
    <3>1. CASE q # cm.q
      BY <1>2, <3>1 DEF AgedIn
    <3>2. CASE q = cm.q
      <4>1. 1 \in DOMAIN s /\ 1 <= i /\ s[1] = cm.curr
        BY <1>6, <3>2
      <4> QED BY <1>2, <3>2, <4>1 DEF AgedIn
    <3> QED BY <3>1, <3>2
  <2> QED BY <2>1 DEF ShownBy
<1>12. ShownAll(c, E, cm) = ShownAll(c, E, cl)
  BY <1>11 DEF ShownAll
<1>13. Contents' = Contents
  BY <1>10, <1>12, ContentsNow, ContentsNext
<1> QED BY <1>10, <1>13 DEF Kept

\* A walk that has not come to its end.
LEMMA AtEntry ==
  ASSUME NEW s \in Chains, NEW q, NEW E, Linked(q, E, s), NEW cl, Walking(s, E, cl), cl.curr # NULL
  PROVE  \E m \in 1 .. Len(s) :
           /\ cl.curr = s[m] /\ E[cl.curr].next = AtPlace(s, m + 1)
           /\ cl.curr = AtPlace(s, m) /\ m + 1 \in 1 .. Len(s) + 1
           /\ cl.op = "enqueue" => \A i \in 1 .. m - 1 : E[s[i]].key >= cl.key
           /\ cl.op \in {"remove", "getbypid"} => \A i \in 1 .. m - 1 : E[s[i]].pid # cl.pid
<1>1. PICK m \in 1 .. Len(s) + 1 :
        /\ cl.curr = AtPlace(s, m)
        /\ cl.op = "enqueue" => \A i \in 1 .. m - 1 : E[s[i]].key >= cl.key
        /\ cl.op \in {"remove", "getbypid"} => \A i \in 1 .. m - 1 : E[s[i]].pid # cl.pid
  BY DEF Walking
<1>2. m \in 1 .. Len(s)
  BY <1>1, HeadFacts
<1>3. cl.curr = s[m] /\ E[cl.curr].next = AtPlace(s, m + 1)
  BY <1>1, <1>2, HeadFacts
<1>4. Len(s) \in Nat
  BY ChainFacts
<1>5. m + 1 \in 1 .. Len(s) + 1
  BY <1>2, <1>4
<1> QED BY <1>1, <1>2, <1>3, <1>5

LEMMA StepsOn ==
  ASSUME QueueInv, ~Idle, ~At("age"), call.curr # NULL, UNCHANGED <<queue, entry, used, ret>>,
         call' = [call EXCEPT !.curr = entry[call.curr].next],
         At("enqueue") => entry[call.curr].key >= call.key,
         call.op \in {"remove", "getbypid"} => entry[call.curr].pid # call.pid
  PROVE  QueueInv' /\ Kept
<1> PICK c, E, cl, cm, nx :
      c = Cs /\ E = entry /\ cl = call /\ cm = call' /\ nx = entry[call.curr].next
  OBVIOUS
<1>0. Picture(c, queue, E, used, cl)
  BY PictureNow
<1>1. /\ TypesOf(queue, E, used, cl) /\ ShapeOf(c, queue, E, used \ Pend(cl))
      /\ Pend(cl) \subseteq used /\ WalkOf(c, E, cl)
  BY <1>0 DEF Picture
<1>2. cl.op # "none" /\ cl.op # "age" /\ cl \in Calls /\ cl.curr # NULL
      /\ cm = [cl EXCEPT !.curr = nx]
  BY <1>1 DEF Idle, At, TypesOf
<1>3. cl.q \in Queue /\ cl.op \in {"none", "enqueue", "remove", "getbypid", "age"} /\ cl.op # "lost"
  BY <1>2, CallFacts
<1> PICK s : s = c[cl.q]
  OBVIOUS
<1>4. s \in Chains /\ Linked(queue[cl.q], E, s)
  BY <1>1, <1>3, ListFacts
<1>5. Walking(s, E, cl)
  BY <1>1, <1>2 DEF WalkOf
<1>6. PICK m \in 1 .. Len(s) :
           /\ cl.curr = s[m] /\ E[cl.curr].next = AtPlace(s, m + 1)
           /\ cl.curr = AtPlace(s, m) /\ m + 1 \in 1 .. Len(s) + 1
           /\ cl.op = "enqueue" => \A i \in 1 .. m - 1 : E[s[i]].key >= cl.key
           /\ cl.op \in {"remove", "getbypid"} => \A i \in 1 .. m - 1 : E[s[i]].pid # cl.pid
  BY ONLY <1>2, <1>4, <1>5, AtEntry
<1>7. nx \in Pointer /\ nx = AtPlace(s, m + 1)
  BY <1>4, <1>6, HeadFacts
<1>8. /\ cm \in Calls /\ cm.op = cl.op /\ cm.q = cl.q /\ cm.curr = nx
      /\ cl.op = "enqueue" => cm.new = cl.new /\ cm.key = cl.key
      /\ cl.op \in {"remove", "getbypid"} => cm.pid = cl.pid
  BY ONLY <1>2, <1>3, <1>7, CallMoved
<1>9. Walking(s, E, cm)
  <2>1. \A i \in 1 .. (m + 1) - 1 : i \in 1 .. m - 1 \/ i = m
    OBVIOUS
  <2>2. cl.op = "enqueue" => \A i \in 1 .. (m + 1) - 1 : E[s[i]].key >= cl.key
    BY <1>6, <2>1 DEF At
  <2>3. cl.op \in {"remove", "getbypid"} => \A i \in 1 .. (m + 1) - 1 : E[s[i]].pid # cl.pid
    BY <1>6, <2>1
  <2> QED BY <1>6, <1>7, <1>8, <2>2, <2>3 DEF Walking
<1>10. Picture(c, queue, E, used, cm)
  <2>1. Pend(cm) = Pend(cl)
    BY <1>8 DEF Pend
  <2>2. WalkOf(c, E, cm)
    BY <1>1, <1>8, <1>9 DEF WalkOf
  <2> QED BY <1>1, <1>8, <2>1, <2>2 DEF Picture, TypesOf
<1>11. Picture(c, queue', entry', used', call')
  BY <1>10
<1>12. QueueInv' /\ Cs' = c
  BY <1>11, PictureNext
<1>13. ShownAll(c, E, cm) = ShownAll(c, E, cl)
  <2>1. cm.op # "age" /\ cl.op # "age"
    BY <1>2, <1>8
  <2> QED BY ONLY <2>1, PlainShown
<1>14. Contents' = Contents
  BY <1>12, <1>13, ContentsNow, ContentsNext
<1> QED BY <1>12, <1>14 DEF Kept

\* A call that has only looked returns.
LEMMA EndsWalk ==
  ASSUME QueueInv, call.op # "enqueue", UNCHANGED <<queue, entry, used>>, call' = None
  PROVE  /\ QueueInv' /\ Contents' = [q \in Queue |-> Plain(entry, Cs[q])]
         /\ call.op # "age" => Contents' = Contents
<1> PICK c, E, cl : c = Cs /\ E = entry /\ cl = call
  OBVIOUS
<1>1. Picture(c, queue, E, used, cl)
  BY PictureNow
<1>2. Pend(cl) = {} /\ Pend(None) = {} /\ None \in Calls /\ None.op = "none"
  BY DEF Pend, None, Calls
<1>3. Picture(c, queue, E, used, None)
  BY <1>1, <1>2 DEF Picture, TypesOf, WalkOf
<1>4. Picture(c, queue', entry', used', call')
  BY <1>3
<1>5. QueueInv' /\ Cs' = c
  BY <1>4, PictureNext
<1>6. Contents' = [q \in Queue |-> Plain(E, c[q])]
  <2>1. Contents' = ShownAll(c, E, None)
    BY <1>5, ContentsNext
  <2> QED BY <1>2, <2>1, PlainShown
<1>7. cl.op # "age" => Contents = [q \in Queue |-> Plain(E, c[q])]
  BY ContentsNow, PlainShown
<1> QED BY <1>5, <1>6, <1>7

\* How far a walk of sched_age has come.
LEMMA AgedUpTo ==
  ASSUME NEW s \in Chains, OnceOn(s), NEW cl, cl.op = "age", NEW E, NEW m \in 1 .. Len(s) + 1,
         cl.curr = AtPlace(s, m), NEW i \in 1 .. Len(s)
  PROVE  AgedIn(E, cl, cl.q, s, i) <=> i < m /\ E[s[i]].pid \notin cl.spared
<1> PICK n : n = Len(s)
  OBVIOUS
<1>1. n \in Nat /\ DOMAIN s = 1 .. n /\ \A j \in 1 .. n : s[j] # NULL
  BY ChainFacts
<1>2. \A j, k \in 1 .. n : s[j] = s[k] => j = k
  BY <1>1 DEF OnceOn
<1>3. ASSUME i < m, NEW j \in 1 .. n, j <= i PROVE s[j] # cl.curr
  <2>1. CASE m <= n
    BY <1>1, <1>2, <1>3, <2>1 DEF AtPlace
  <2>2. CASE ~(m <= n)
    BY <1>1, <1>3, <2>2 DEF AtPlace
  <2> QED BY <2>1, <2>2
<1>4. ASSUME ~(i < m) PROVE \E j \in 1 .. n : j <= i /\ s[j] = cl.curr
  <2>1. m \in 1 .. n /\ m <= n /\ m <= i
    BY <1>1, <1>4
  <2> QED BY <2>1 DEF AtPlace
<1> QED BY <1>1, <1>3, <1>4 DEF AgedIn

\* The keys that a walk of sched_age has raised do not show until it ends.
LEMMA AgeSteps ==
  ASSUME QueueInv, AgeWalk
  PROVE  QueueInv' /\ Kept
<1> PICK c, E, F, cl, cm : c = Cs /\ E = entry /\ F = entry' /\ cl = call /\ cm = call'
  OBVIOUS
<1> PICK x, nx : x = cl.curr /\ nx = E[x].next
  OBVIOUS
<1>0. Picture(c, queue, E, used, cl)
  BY PictureNow
<1>1. /\ TypesOf(queue, E, used, cl) /\ ShapeOf(c, queue, E, used \ Pend(cl))
      /\ Pend(cl) \subseteq used /\ WalkOf(c, E, cl)
  BY <1>0 DEF Picture
<1>2. /\ cl.op = "age" /\ cl.op # "none" /\ cl \in Calls /\ cl.curr # NULL
      /\ cm = [cl EXCEPT !.curr = nx] /\ UNCHANGED <<queue, used, ret>>
      /\ F = IF E[x].pid \in cl.spared THEN E ELSE [E EXCEPT ![x].key = @ + 1]
  BY <1>1 DEF AgeWalk, At, TypesOf
<1>3. cl.q \in Queue
  BY <1>2, CallFacts
<1> PICK s : s = c[cl.q]
  OBVIOUS
<1>4. s \in Chains /\ Linked(queue[cl.q], E, s) /\ OnceOn(s)
  BY <1>1, <1>3, ListFacts
<1>5. Walking(s, E, cl)
  BY <1>1, <1>2 DEF WalkOf
<1>6. PICK m \in 1 .. Len(s) :
           /\ cl.curr = s[m] /\ E[cl.curr].next = AtPlace(s, m + 1)
           /\ cl.curr = AtPlace(s, m) /\ m + 1 \in 1 .. Len(s) + 1
  BY ONLY <1>2, <1>4, <1>5, AtEntry
<1>7. nx \in Pointer /\ nx = AtPlace(s, m + 1)
  BY <1>4, <1>6, HeadFacts
<1>8. /\ cm \in Calls /\ cm.op = cl.op /\ cm.q = cl.q /\ cm.curr = nx /\ cm.spared = cl.spared
  BY ONLY <1>2, <1>7, CallMoved
<1>9. x \in Addr /\ x = s[m]
  BY <1>4, <1>6, ChainFacts
<1>10. /\ F \in [Addr -> Entry]
       /\ \A a \in Addr : /\ SameLinks(E, F, a) /\ F[a].pid = E[a].pid /\ E[a].key \in Int
                          /\ F[a].key = IF a = x /\ E[x].pid \notin cl.spared
                                        THEN E[a].key + 1 ELSE E[a].key
  <2>1. E \in [Addr -> Entry] /\ \A a \in Addr : E[a].key \in Int
    BY <1>1 DEF TypesOf, Entry
  <2>2. CASE E[x].pid \in cl.spared
    BY <1>2, <2>1, <2>2 DEF SameLinks
  <2>3. CASE E[x].pid \notin cl.spared
    <3>1. F = [E EXCEPT ![x].key = E[x].key + 1]
      BY <1>2, <2>3
    <3>2. F \in [Addr -> Entry]
      <4> PICK g : g = [E[x] EXCEPT !.key = E[x].key + 1]
        OBVIOUS
      <4>1. E[x] \in Entry /\ E[x].key + 1 \in Int
        BY <1>9, <2>1
      <4>2. g \in Entry
        BY <4>1 DEF Entry
      <4>3. F = [E EXCEPT ![x] = g]
        BY <3>1
      <4> QED BY ONLY <2>1, <4>2, <4>3
    <3>3. ASSUME NEW a \in Addr
          PROVE  /\ F[a].next = E[a].next /\ F[a].prev = E[a].prev /\ F[a].pid = E[a].pid
                 /\ F[a].key = IF a = x THEN E[a].key + 1 ELSE E[a].key
      BY <1>9, <2>1, <3>1 DEF Entry
    <3> QED BY <2>1, <2>3, <3>2, <3>3 DEF SameLinks
  <2> QED BY <2>2, <2>3
<1>11. ShapeOf(c, queue, F, used \ Pend(cl))
  <2>1. \A a \in used \ Pend(cl) : SameLinks(E, F, a)
    BY <1>1, <1>10 DEF TypesOf
  <2> QED BY ONLY <1>1, <2>1, ShapeSame
<1>12. Picture(c, queue, F, used, cm)
  <2>1. Pend(cm) = Pend(cl)
    BY <1>2, <1>8 DEF Pend
  <2>2. Walking(s, F, cm)
    BY <1>2, <1>6, <1>7, <1>8 DEF Walking
  <2>3. WalkOf(c, F, cm)
    BY <1>2, <1>8, <2>2 DEF WalkOf
  <2> QED BY <1>1, <1>8, <1>10, <1>11, <2>1, <2>3 DEF Picture, TypesOf
<1>13. Picture(c, queue', entry', used', call')
  BY <1>2, <1>12
<1>14. QueueInv' /\ Cs' = c
  BY <1>13, PictureNext
<1>15. ASSUME NEW q \in Queue PROVE ShownBy(F, cm, q, c[q]) = ShownBy(E, cl, q, c[q])
  <2>0. c[q] \in Chains
    BY <1>1, ListFacts
  <2>1. /\ DOMAIN c[q] = 1 .. Len(c[q])
        /\ \A i \in DOMAIN c[q] : c[q][i] \in Addr /\ c[q][i] \in Among(c[q])
    BY <2>0, ChainFacts DEF Among
  <2>2. CASE q # cl.q
    <3>1. \A i \in DOMAIN c[q] : ~AgedIn(F, cm, q, c[q], i) /\ ~AgedIn(E, cl, q, c[q], i)
      BY <1>8, <2>2 DEF AgedIn
    <3>2. x \notin Among(c[q])
      <4>1. x \in Among(s)
        BY <1>4, <1>9, ChainFacts DEF Among
      <4> QED BY <1>1, <1>3, <2>2, <4>1, ListFacts
    <3>3. \A i \in DOMAIN c[q] :
            F[c[q][i]].pid = E[c[q][i]].pid /\ F[c[q][i]].key = E[c[q][i]].key
      BY <1>10, <2>1, <3>2
    <3> QED BY <3>1, <3>3 DEF ShownBy
  <2>3. CASE q = cl.q
    <3>1. ASSUME NEW i \in 1 .. Len(s)
          PROVE  /\ F[s[i]].pid = E[s[i]].pid
                 /\ (IF AgedIn(F, cm, q, s, i) THEN F[s[i]].key - 1 ELSE F[s[i]].key) =
                    (IF AgedIn(E, cl, q, s, i) THEN E[s[i]].key - 1 ELSE E[s[i]].key)
      <4>1. AgedIn(E, cl, q, s, i) <=> i < m /\ E[s[i]].pid \notin cl.spared
        <5>1. m \in 1 .. Len(s) + 1
          BY <1>4, ChainFacts
        <5>2. AgedIn(E, cl, cl.q, s, i) <=> i < m /\ E[s[i]].pid \notin cl.spared
          BY ONLY <1>2, <1>4, <1>6, <5>1, i \in 1 .. Len(s), AgedUpTo
        <5> QED BY <2>3, <5>2
      <4>2. AgedIn(F, cm, q, s, i) <=> i < m + 1 /\ F[s[i]].pid \notin cm.spared
        <5>1. cm.op = "age" /\ cm.curr = AtPlace(s, m + 1)
          BY <1>2, <1>7, <1>8
        <5>2. AgedIn(F, cm, cm.q, s, i) <=> i < m + 1 /\ F[s[i]].pid \notin cm.spared
          BY ONLY <1>4, <1>6, <5>1, i \in 1 .. Len(s), AgedUpTo
        <5> QED BY <1>8, <2>3, <5>2
      <4>3. s[i] \in Addr /\ (s[i] = x <=> i = m)
        <5>1. DOMAIN s = 1 .. Len(s) /\ s[i] \in Addr
          BY <1>4, ChainFacts
        <5> QED BY <1>4, <1>9, <5>1 DEF OnceOn
      <4>4. /\ F[s[i]].pid = E[s[i]].pid /\ E[s[i]].key \in Int
            /\ F[s[i]].key = IF i = m /\ E[s[i]].pid \notin cl.spared
                             THEN E[s[i]].key + 1 ELSE E[s[i]].key
        BY <1>10, <4>3
      <4>5. cm.spared = cl.spared
        BY <1>8
      <4>6. CASE i < m
        <5>1. i < m + 1 /\ i # m
          BY <4>6
        <5> QED BY <4>1, <4>2, <4>4, <4>5, <4>6, <5>1
      <4>7. CASE i = m
        <5>1. i < m + 1 /\ ~(i < m)
          BY <4>7
        <5>2. (E[s[i]].key + 1) - 1 = E[s[i]].key
          BY <4>4
        <5> QED BY <4>1, <4>2, <4>4, <4>5, <4>7, <5>1, <5>2
      <4>8. CASE i > m
        <5>1. ~(i < m + 1) /\ ~(i < m) /\ i # m
          BY <4>8
        <5> QED BY <4>1, <4>2, <4>4, <5>1
      <4> QED BY <4>6, <4>7, <4>8
    <3>2. DOMAIN s = 1 .. Len(s) /\ c[q] = s
      BY <2>1, <2>3
    <3> QED BY <3>1, <3>2 DEF ShownBy
  <2> QED BY <2>2, <2>3
<1>16. ShownAll(c, F, cm) = ShownAll(c, E, cl)
  BY <1>15 DEF ShownAll
<1>17. Contents' = Contents
  BY <1>14, <1>16, ContentsNow, ContentsNext
<1> QED BY <1>2, <1>14, <1>17 DEF Kept

\* When it ends they all do.
LEMMA AgeEnds ==
  ASSUME QueueInv, AgeEnd
  PROVE  QueueInv' /\ \E q \in Queue : \E spared \in SUBSET Pid : Promise!Age(q, spared)
<1> PICK c, E, cl : c = Cs /\ E = entry /\ cl = call
  OBVIOUS
<1>0. Picture(c, queue, E, used, cl)
  BY PictureNow
<1>1. /\ TypesOf(queue, E, used, cl) /\ ShapeOf(c, queue, E, used \ Pend(cl))
      /\ Pend(cl) \subseteq used /\ WalkOf(c, E, cl)
  BY <1>0 DEF Picture
<1>2. /\ cl.op = "age" /\ cl.op # "none" /\ cl.op # "enqueue" /\ cl \in Calls /\ cl.curr = NULL
      /\ UNCHANGED <<queue, entry, used, ret>> /\ call' = None
  BY <1>1 DEF AgeEnd, Return, Unchanged, At, TypesOf
<1>3. cl.q \in Queue /\ cl.spared \in SUBSET Pid
  BY <1>2, CallFacts
<1> PICK s, y : s = c[cl.q] /\ y = cl.q
  OBVIOUS
<1>4. s \in Chains /\ Linked(queue[cl.q], E, s) /\ OnceOn(s)
  BY <1>1, <1>3, ListFacts
<1>5. PICK m \in 1 .. Len(s) + 1 : cl.curr = AtPlace(s, m)
  BY <1>1, <1>2 DEF WalkOf, Walking
<1>6. m = Len(s) + 1 /\ Len(s) \in Nat /\ DOMAIN s = 1 .. Len(s)
  BY <1>2, <1>4, <1>5, HeadFacts, ChainFacts
<1>7. ASSUME NEW i \in 1 .. Len(s) PROVE AgedIn(E, cl, y, s, i) <=> E[s[i]].pid \notin cl.spared
  <2>1. AgedIn(E, cl, cl.q, s, i) <=> i < m /\ E[s[i]].pid \notin cl.spared
    BY ONLY <1>2, <1>4, <1>5, i \in 1 .. Len(s), AgedUpTo
  <2> QED BY <1>6, <2>1
<1>8. QueueInv' /\ Contents' = [q \in Queue |-> Plain(E, c[q])]
  BY <1>2, EndsWalk
<1>9. Contents = [q \in Queue |-> ShownBy(E, cl, q, c[q])]
  BY ContentsNow DEF ShownAll
<1> PICK e, f : e = ShownBy(E, cl, y, s) /\ f = Plain(E, s)
  OBVIOUS
<1>10. f = [i \in DOMAIN e |-> IF e[i].pid \in cl.spared THEN e[i]
                               ELSE [e[i] EXCEPT !.key = @ + 1]]
  <2>1. e = [i \in 1 .. Len(s) |->
               [pid |-> E[s[i]].pid,
                key |-> IF AgedIn(E, cl, y, s, i) THEN E[s[i]].key - 1 ELSE E[s[i]].key]]
    BY <1>6 DEF ShownBy
  <2>2. f = [i \in 1 .. Len(s) |-> [pid |-> E[s[i]].pid, key |-> E[s[i]].key]]
    BY <1>6 DEF Plain
  <2>3. ASSUME NEW i \in 1 .. Len(s)
        PROVE  f[i] = IF e[i].pid \in cl.spared THEN e[i] ELSE [e[i] EXCEPT !.key = @ + 1]
    <3>1. E[s[i]].key \in Int
      BY <1>1, <1>4, ChainFacts DEF TypesOf, Entry
    <3>2. e[i].pid = E[s[i]].pid
      BY <2>1
    <3>5. f[i] = [pid |-> E[s[i]].pid, key |-> E[s[i]].key]
      BY <2>2
    <3>3. CASE E[s[i]].pid \in cl.spared
      <4>1. e[i] = [pid |-> E[s[i]].pid, key |-> E[s[i]].key]
        BY <1>7, <2>1, <3>3
      <4>2. e[i].pid \in cl.spared /\ e[i] = f[i]
        BY <3>2, <3>3, <3>5, <4>1
      <4> QED BY <4>2
    <3>4. CASE E[s[i]].pid \notin cl.spared
      <4>1. e[i] = [pid |-> E[s[i]].pid, key |-> E[s[i]].key - 1]
        BY <1>7, <2>1, <3>4
      <4>2. [e[i] EXCEPT !.key = @ + 1] = [pid |-> E[s[i]].pid, key |-> (E[s[i]].key - 1) + 1]
        BY <4>1
      <4>3. (E[s[i]].key - 1) + 1 = E[s[i]].key
        BY <3>1
      <4>4. [e[i] EXCEPT !.key = @ + 1] = f[i] /\ e[i].pid \notin cl.spared
        BY <3>2, <3>4, <3>5, <4>2, <4>3
      <4> QED BY <4>4
    <3> QED BY <3>3, <3>4
  <2> QED BY <2>1, <2>2, <2>3
<1>11. ASSUME NEW q \in Queue, q # y PROVE Plain(E, c[q]) = ShownBy(E, cl, q, c[q])
  BY <1>11 DEF Plain, ShownBy, AgedIn
<1>12. Contents' = [Contents EXCEPT ![y] = f]
  BY <1>3, <1>8, <1>9, <1>11
<1>13. Contents[y] = e
  BY <1>3, <1>9
<1>14. Promise!Age(y, cl.spared)
  BY <1>2, <1>10, <1>12, <1>13 DEF Promise!Age, Promise!Becomes
<1> QED BY <1>3, <1>8, <1>14

\* The assignments of enqueue to three entries at most, and those of remove.
Written(E, x, b, c) == [E EXCEPT ![x].prev = b, ![x].next = c]

LEMMA LinkWrites ==
  ASSUME NEW E \in [Addr -> Entry], NEW x \in Addr, NEW b \in Pointer, NEW c \in Pointer,
         x # b, x # c,
         NEW F, F = SetPrev(SetNext(Written(E, x, b, c), b, x), c, x)
  PROVE  /\ F \in [Addr -> Entry]
         /\ \A a \in Addr :
              /\ Same(E, F, a)
              /\ F[a].next = IF a = x THEN c ELSE IF a = b THEN x ELSE E[a].next
              /\ F[a].prev = IF a = x THEN b ELSE IF a = c THEN x ELSE E[a].prev
<1> PICK E1, E2, G : /\ E1 = SetPrev(E, x, b) /\ E2 = SetNext(E1, x, c)
                     /\ G = SetNext(E2, b, x)
  OBVIOUS
<1>0. x \in Pointer /\ x # NULL
  BY QueuesAssumption DEF Pointer
<1>1. /\ E1 \in [Addr -> Entry]
      /\ \A a \in Addr : /\ Same(E, E1, a) /\ E1[a].next = E[a].next
                         /\ E1[a].prev = IF a = x THEN b ELSE E[a].prev
  <2>1. E1 = SetPrev(E, x, b) /\ x \in Pointer /\ b \in Pointer /\ E \in [Addr -> Entry]
    BY <1>0
  <2> QED BY ONLY <2>1, Assigned
<1>2. /\ E2 \in [Addr -> Entry]
      /\ \A a \in Addr : /\ Same(E1, E2, a) /\ E2[a].prev = E1[a].prev
                         /\ E2[a].next = IF a = x THEN c ELSE E1[a].next
  <2>1. E2 = SetNext(E1, x, c) /\ x \in Pointer /\ c \in Pointer /\ E1 \in [Addr -> Entry]
    BY <1>0, <1>1
  <2> QED BY ONLY <2>1, Assigned
<1>3. /\ G \in [Addr -> Entry]
      /\ \A a \in Addr : /\ Same(E2, G, a) /\ G[a].prev = E2[a].prev
                         /\ G[a].next = IF a = b THEN x ELSE E2[a].next
  <2>1. G = SetNext(E2, b, x) /\ b \in Pointer /\ x \in Pointer /\ E2 \in [Addr -> Entry]
    BY <1>0, <1>2
  <2> QED BY ONLY <2>1, Assigned
<1>4. F = SetPrev(G, c, x)
  <2>1. E1 = [E EXCEPT ![x].prev = b] /\ E2 = [E1 EXCEPT ![x].next = c]
    BY <1>0 DEF SetPrev, SetNext
  <2> QED BY <2>1 DEF Written
<1>5. /\ F \in [Addr -> Entry]
      /\ \A a \in Addr : /\ Same(G, F, a) /\ F[a].next = G[a].next
                         /\ F[a].prev = IF a = c THEN x ELSE G[a].prev
  BY ONLY <1>0, <1>3, <1>4, c \in Pointer, Assigned
<1>6. ASSUME NEW a \in Addr
      PROVE  /\ Same(E, F, a)
             /\ F[a].next = IF a = x THEN c ELSE IF a = b THEN x ELSE E[a].next
             /\ F[a].prev = IF a = x THEN b ELSE IF a = c THEN x ELSE E[a].prev
  <2>1. Same(E, E1, a) /\ Same(E1, E2, a) /\ Same(E2, G, a) /\ Same(G, F, a)
    BY <1>1, <1>2, <1>3, <1>5
  <2>2. Same(E, F, a)
    BY <2>1 DEF Same
  <2>3. /\ E1[a].next = E[a].next /\ E1[a].prev = IF a = x THEN b ELSE E[a].prev
        /\ E2[a].prev = E1[a].prev /\ E2[a].next = IF a = x THEN c ELSE E1[a].next
    BY <1>1, <1>2
  <2>4. /\ G[a].prev = E2[a].prev /\ G[a].next = IF a = b THEN x ELSE E2[a].next
        /\ F[a].next = G[a].next /\ F[a].prev = IF a = c THEN x ELSE G[a].prev
    BY <1>3, <1>5
  <2>5. F[a].next = IF a = x THEN c ELSE IF a = b THEN x ELSE E[a].next
    BY ONLY <2>3, <2>4, x # b
  <2>6. F[a].prev = IF a = x THEN b ELSE IF a = c THEN x ELSE E[a].prev
    BY ONLY <2>3, <2>4, x # c
  <2> QED BY ONLY <2>2, <2>5, <2>6
<1> QED BY <1>5, <1>6

Emptied(G, x) == [G EXCEPT ![x] = Blank]

LEMMA FreeWrites ==
  ASSUME NEW E \in [Addr -> Entry], NEW x \in Addr, NEW b \in Pointer, NEW c \in Pointer,
         NEW G, G = SetNext(SetPrev(E, c, b), b, c), NEW F, F = Emptied(G, x)
  PROVE  /\ F \in [Addr -> Entry]
         /\ \A a \in Addr \ {x} :
              /\ Same(E, F, a)
              /\ F[a].next = IF a = b THEN c ELSE E[a].next
              /\ F[a].prev = IF a = c THEN b ELSE E[a].prev
<1> PICK E1 : E1 = SetPrev(E, c, b)
  OBVIOUS
<1>1. /\ E1 \in [Addr -> Entry]
      /\ \A a \in Addr : /\ Same(E, E1, a) /\ E1[a].next = E[a].next
                         /\ E1[a].prev = IF a = c THEN b ELSE E[a].prev
  BY Assigned
<1>2. /\ G \in [Addr -> Entry]
      /\ \A a \in Addr : /\ Same(E1, G, a) /\ G[a].prev = E1[a].prev
                         /\ G[a].next = IF a = b THEN c ELSE E1[a].next
  BY <1>1, Assigned
<1>3. Blank \in Entry
  BY QueuesAssumption DEF Blank, Entry, Pid, NULLPROC, Pointer
<1>4. F \in [Addr -> Entry] /\ \A a \in Addr \ {x} : F[a] = G[a]
  BY <1>2, <1>3 DEF Emptied
<1>5. \A a \in Addr \ {x} : Same(E, F, a)
  BY <1>1, <1>2, <1>4 DEF Same
<1> QED BY <1>1, <1>2, <1>4, <1>5

\* What the queues hold between calls, and in a call that does not age.
LEMMA HoldsNow ==
  ASSUME QueueInv, call.op # "age", NEW q \in Queue
  PROVE  /\ Contents = [p \in Queue |-> Plain(entry, Cs[p])] /\ Contents[q] = Plain(entry, Cs[q])
         /\ Contents[q] \in Seq(Entries(Pid)) /\ Len(Contents[q]) = queue[q].size
         /\ Len(Contents[q]) = Len(Cs[q]) /\ Len(Cs[q]) \in Nat
         /\ \A i \in 1 .. Len(Cs[q]) : /\ Contents[q][i].pid = entry[Cs[q][i]].pid
                                       /\ Contents[q][i].key = entry[Cs[q][i]].key
<1> PICK c, E : c = Cs /\ E = entry
  OBVIOUS
<1>1. Contents = [p \in Queue |-> Plain(E, c[p])]
  BY ContentsNow, PlainShown
<1>2. TypesOf(queue, E, used, call) /\ ShapeOf(c, queue, E, used \ Pend(call))
  BY PictureNow DEF Picture
<1>3. c[q] \in Chains /\ Linked(queue[q], E, c[q]) /\ E \in [Addr -> Entry]
  BY <1>2, ListFacts DEF TypesOf
<1>4. /\ queue[q].size = Len(c[q]) /\ Len(c[q]) \in Nat
  BY <1>3, HeadFacts, ChainFacts
<1>5. /\ Plain(E, c[q]) \in Seq(Entries(Pid)) /\ Len(Plain(E, c[q])) = Len(c[q])
      /\ \A i \in 1 .. Len(c[q]) : /\ Plain(E, c[q])[i].pid = E[c[q][i]].pid
                                   /\ Plain(E, c[q])[i].key = E[c[q][i]].key
  BY <1>3, PlainFacts
<1> QED BY <1>1, <1>4, <1>5

\* An entry comes off its list and its place becomes free.
LEMMA TakesOff ==
  ASSUME QueueInv, call.op \notin {"age", "enqueue"}, NEW q \in Queue, NEW m \in 1 .. Len(Cs[q]),
         NEW x, x = Cs[q][m],
         entry' = [SetNext(SetPrev(entry, entry[x].next, entry[x].prev),
                           entry[x].prev, entry[x].next) EXCEPT ![x] = Blank],
         used' = used \ {x}, queue' = [queue EXCEPT ![q] = Unlink(queue[q], x)], call' = None
  PROVE  /\ QueueInv' /\ Contents' = [Contents EXCEPT ![q] = Skipped(Contents[q], m)]
<1> PICK c, E, F, s, t, r : /\ c = Cs /\ E = entry /\ F = entry' /\ s = Cs[q]
                            /\ t = Skipped(s, m) /\ r = Unlink(queue[q], x)
  OBVIOUS
<1>0. Picture(c, queue, E, used, call)
  BY PictureNow
<1>1. /\ TypesOf(queue, E, used, call) /\ ShapeOf(c, queue, E, used)
      /\ Pend(call) = {} /\ Pend(None) = {} /\ None.op = "none" /\ None \in Calls
  BY <1>0 DEF Picture, Pend, None, Calls
<1>2. /\ s \in Chains /\ Linked(queue[q], E, s) /\ OnceOn(s) /\ Among(s) \subseteq used
      /\ m \in 1 .. Len(s) /\ Len(s) \in Nat
  <2>1. s \in Chains /\ Linked(queue[q], E, s) /\ OnceOn(s) /\ Among(s) \subseteq used
    BY <1>1, ListFacts
  <2>2. m \in 1 .. Len(s) /\ Len(s) \in Nat
    BY <2>1, ChainFacts
  <2> QED BY <2>1, <2>2
<1>3. x \in Addr /\ x = s[m] /\ x \in Among(s) /\ DOMAIN s = 1 .. Len(s)
      /\ \A i \in DOMAIN s : s[i] \in Addr
  BY <1>2, ChainFacts DEF Among
<1> PICK b, d : b = E[x].prev /\ d = E[x].next
  OBVIOUS
<1>4. /\ E \in [Addr -> Entry] /\ b \in Pointer /\ d \in Pointer /\ queue \in [Queue -> Header]
  BY <1>1, <1>3 DEF TypesOf, Entry
<1> PICK G : G = SetNext(SetPrev(E, d, b), b, d)
  OBVIOUS
<1>5. F = Emptied(G, x) /\ G = SetNext(SetPrev(E, d, b), b, d)
  BY DEF Emptied
<1>6. /\ F \in [Addr -> Entry]
      /\ \A a \in Addr \ {x} :
           /\ Same(E, F, a)
           /\ F[a].next = IF a = b THEN d ELSE E[a].next
           /\ F[a].prev = IF a = d THEN b ELSE E[a].prev
  <2>1. x \in Addr /\ E \in [Addr -> Entry] /\ b \in Pointer /\ d \in Pointer
    BY <1>3, <1>4
  <2> QED BY ONLY <1>5, <2>1, FreeWrites
<1>7. r = [head |-> IF x = queue[q].head THEN E[x].next ELSE queue[q].head,
           tail |-> IF x = queue[q].tail THEN E[x].prev ELSE queue[q].tail,
           size |-> queue[q].size - 1]
  BY DEF Unlink
<1>8. t \in Chains /\ Linked(r, F, t)
  <2>1. \A a \in Addr \ {x} :
           /\ F[a].next = IF a = E[x].prev THEN E[x].next ELSE E[a].next
           /\ F[a].prev = IF a = E[x].next THEN E[x].prev ELSE E[a].prev
    BY <1>6
  <2> PICK q0 : q0 = queue[q]
    OBVIOUS
  <2>3. /\ s \in Chains /\ OnceOn(s) /\ m \in 1 .. Len(s) /\ Linked(q0, E, s) /\ x = s[m]
        /\ E \in [Addr -> Entry] /\ F \in [Addr -> Entry]
    BY <1>2, <1>3, <1>4, <1>6
  <2>4. r = [head |-> IF x = q0.head THEN E[x].next ELSE q0.head,
             tail |-> IF x = q0.tail THEN E[x].prev ELSE q0.tail, size |-> q0.size - 1]
    BY <1>7
  <2>2. Skipped(s, m) \in Chains /\ Linked(r, F, Skipped(s, m))
    BY ONLY <2>1, <2>3, <2>4, LinkedOut
  <2> QED BY <2>2
<1>9. Among(t) = Among(s) \ {x} /\ OnceOn(t)
  <2>1. s \in Chains /\ OnceOn(s) /\ m \in 1 .. Len(s) /\ x = s[m] /\ t = Skipped(s, m)
    BY <1>2, <1>3
  <2> QED BY ONLY <2>1, MembersOut
<1>10. ASSUME NEW a \in used \ Among(s) PROVE SameLinks(E, F, a)
  <2>1. a \in Addr \ {x}
    BY <1>1, <1>3 DEF TypesOf
  <2>2. (b = NULL \/ b \in Among(s)) /\ (d = NULL \/ d \in Among(s))
    <3>1. /\ E[s[m]].prev = NULL \/ E[s[m]].prev \in Among(s)
          /\ E[s[m]].next = AtPlace(s, m + 1)
      BY ONLY <1>2, HeadFacts
    <3>2. E[s[m]].next = AtPlace(s, m + 1) /\ m + 1 \in 1 .. Len(s) + 1
      BY <1>2, <3>1
    <3>3. AtPlace(s, m + 1) = NULL \/ AtPlace(s, m + 1) \in Among(s)
      BY ONLY <1>2, <3>2, HeadFacts
    <3> QED BY <1>3, <3>1, <3>2, <3>3
  <2>3. a # b /\ a # d
    BY <2>1, <2>2, QueuesAssumption
  <2> QED BY <1>6, <2>1, <2>3 DEF SameLinks
<1> PICK cn, Qn, Un : cn = [c EXCEPT ![q] = t] /\ Qn = [queue EXCEPT ![q] = r] /\ Un = used \ {x}
  BY ONLY q \in Queue
<1>11. ShapeOf(cn, Qn, F, Un)
  <2>1. Un = (used \ Among(s)) \union Among(t)
    BY <1>2, <1>3, <1>9
  <2>2. /\ \A a \in used \ Among(c[q]) : SameLinks(E, F, a)
        /\ \A a \in Among(t) : a \in Among(c[q]) \/ a \notin used
        /\ Un = (used \ Among(c[q])) \union Among(t)
    BY <1>9, <1>10, <2>1
  <2>3. ShapeOf([c EXCEPT ![q] = t], [queue EXCEPT ![q] = r], F, Un)
    BY ONLY <1>1, <1>4, <1>8, <1>9, <2>2, q \in Queue, ShapeChanges
  <2> QED BY <2>3
<1>12. Picture(cn, Qn, F, Un, None)
  <2>1. r \in Header
    <3>1. queue[q].size = Len(s) /\ Len(s) \in Nat /\ Len(s) # 0 /\ queue[q] \in Header
      <4>1. queue[q].size = Len(s)
        BY ONLY <1>2, HeadFacts
      <4>2. Len(s) \in Nat /\ Len(s) # 0
        BY ONLY <1>2
      <4>3. queue[q] \in Header
        BY ONLY <1>4, q \in Queue
      <4> QED BY ONLY <4>1, <4>2, <4>3
    <3>2. queue[q].size - 1 \in Nat
      BY ONLY <3>1
    <3>3. queue[q].head \in Pointer /\ queue[q].tail \in Pointer
      BY <3>1 DEF Header
    <3>4. E[x].next \in Pointer /\ E[x].prev \in Pointer
      BY <1>4
    <3> PICK h, l, z : /\ h = (IF x = queue[q].head THEN E[x].next ELSE queue[q].head)
                       /\ l = (IF x = queue[q].tail THEN E[x].prev ELSE queue[q].tail)
                       /\ z = queue[q].size - 1
      OBVIOUS
    <3>5. r = [head |-> h, tail |-> l, size |-> z]
      BY <1>7
    <3>6. h \in Pointer /\ l \in Pointer /\ z \in Nat
      BY <3>2, <3>3, <3>4
    <3> QED BY ONLY <3>5, <3>6 DEF Header
  <2>2. TypesOf(Qn, F, Un, None)
    BY <1>1, <1>4, <1>6, <2>1 DEF TypesOf
  <2> QED BY <1>1, <1>11, <2>2 DEF Picture, WalkOf
<1>13. QueueInv' /\ Cs' = cn
  <2>1. Picture(cn, queue', entry', used', call')
    BY <1>12
  <2> QED BY <2>1, PictureNext
<1>14. Contents' = [p \in Queue |-> Plain(F, cn[p])]
  <2>1. Contents' = ShownAll(cn, F, None)
    BY <1>13, ContentsNext
  <2>2. None.op # "age"
    BY <1>1
  <2>3. ShownAll(cn, F, None) = [p \in Queue |-> Plain(F, cn[p])]
    BY ONLY <2>2, PlainShown
  <2> QED BY <2>1, <2>3
<1>15. Plain(F, t) = Skipped(Plain(E, s), m)
  <2>1. \A i \in DOMAIN s : i # m => Same(E, F, s[i])
    BY <1>2, <1>3, <1>6 DEF OnceOn
  <2> QED BY <1>2, <2>1, PlainSkipped
<1>16. ASSUME NEW p \in Queue, p # q PROVE Plain(F, c[p]) = Plain(E, c[p])
  <2>1. \A a \in Among(c[p]) : a \in Addr \ {x}
    BY <1>1, <1>3, <1>16, ListFacts DEF TypesOf
  <2>2. ASSUME NEW i \in DOMAIN c[p] PROVE Same(E, F, c[p][i])
    <3>1. c[p][i] \in Among(c[p])
      BY DEF Among
    <3> QED BY <1>6, <2>1, <3>1
  <2> QED BY ONLY <2>2, PlainKept
<1>17. c \in [Queue -> Chains]
  BY <1>1 DEF ShapeOf
<1>18. Contents = [p \in Queue |-> Plain(E, c[p])]
  BY HoldsNow
<1>19. Contents' = [Contents EXCEPT ![q] = Skipped(Contents[q], m)]
  BY <1>14, <1>15, <1>16, <1>17, <1>18
<1> QED BY <1>13, <1>19

----------------------------------------------------------------------------
\* One lemma for each call.

\* enqueue.
LEMMA FullStep ==
  ASSUME QueueInv, NEW q \in Queue, EnqueueFull(q)
  PROVE  QueueInv' /\ \E p \in Pid : \E k \in Keys : Promise!Put(q, p, k)
<1>1. call.op # "age" /\ call.op # "enqueue" /\ call' = None /\ ret' = SYSERR
      /\ UNCHANGED <<queue, entry, used>> /\ queue[q].size >= NPROC
  BY DEF EnqueueFull, Idle, Return, Unchanged, isfull
<1>2. QueueInv' /\ Contents' = Contents
  BY <1>1, EndsWalk
<1>3. Contents[q] \in Seq(Entries(Pid)) /\ Len(Contents[q]) >= NPROC /\ Len(Contents[q]) \in Nat
  BY <1>1, HoldsNow
<1>4. \E p \in Pid : \E k \in Keys : TRUE
  <2>1. 0 \in Pid
    BY QueuesAssumption DEF Pid
  <2> QED BY <2>1, QueuesAssumption
<1>5. ASSUME NEW p \in Pid, NEW k \in Keys PROVE Promise!Put(q, p, k)
  <2>1. Enqueue(Contents[q], p, k, NPROC) = Contents[q]
    BY <1>3 DEF Enqueue
  <2>2. Contents' = [Contents EXCEPT ![q] = Contents[q]]
    BY <1>2 DEF Contents
  <2>3. ~(Len(Contents[q]) < NPROC) /\ SYSERR = Promise!SYSERR
    BY <1>3, QueuesAssumption DEF SYSERR, Promise!SYSERR
  <2> QED BY <1>1, <2>1, <2>2, <2>3, SameOperators DEF Promise!Put, Promise!Becomes
<1> QED BY <1>2, <1>4, <1>5

LEMMA EnqueueBegins ==
  ASSUME QueueInv, NEW q \in Queue, NEW p \in Pid, NEW k \in Keys, EnqueueCall(q, p, k)
  PROVE  QueueInv' /\ Kept
<1> PICK c, E, F, s, cm : c = Cs /\ E = entry /\ F = entry' /\ s = Cs[q] /\ cm = call'
  OBVIOUS
<1>0. Picture(c, queue, E, used, call)
  BY PictureNow
<1>1. /\ TypesOf(queue, E, used, call) /\ ShapeOf(c, queue, E, used \ Pend(call))
      /\ call.op = "none" /\ call.op # "age"
  BY <1>0 DEF Picture, EnqueueCall, Idle
<1>2. ShapeOf(c, queue, E, used) /\ E \in [Addr -> Entry] /\ used \subseteq Addr
      /\ queue \in [Queue -> Header]
  BY <1>1 DEF Pend, TypesOf
<1>3. PICK a \in Addr \ used :
        /\ used' = used \union {a}
        /\ F = [E EXCEPT ![a] = [pid |-> p, key |-> k, next |-> NULL, prev |-> NULL]]
        /\ cm = [op |-> "enqueue", q |-> q, curr |-> queue[q].head, new |-> a, key |-> k]
  BY DEF EnqueueCall
<1>4. queue' = queue /\ ret' = ret /\ ~(queue[q].size >= NPROC)
  BY DEF EnqueueCall, isfull
<1>5. s \in Chains /\ Linked(queue[q], E, s)
  BY <1>2, ListFacts
<1>6. Len(s) \in Nat /\ queue[q].size = Len(s) /\ queue[q].head = AtPlace(s, 1)
  BY <1>5, ChainFacts, HeadFacts
<1>7. /\ F \in [Addr -> Entry] /\ F[a].key = k
      /\ \A b \in used : F[b] = E[b]
  <2> PICK e : e = [pid |-> p, key |-> k, next |-> NULL, prev |-> NULL]
    OBVIOUS
  <2>1. e \in Entry /\ e.key = k
    BY QueuesAssumption DEF Entry, Pointer
  <2>2. F = [E EXCEPT ![a] = e]
    BY <1>3
  <2> QED BY <1>2, <1>3, <2>1, <2>2
<1>8. ShapeOf(c, queue, F, used)
  <2>1. \A b \in used : SameLinks(E, F, b)
    BY <1>7 DEF SameLinks
  <2> QED BY ONLY <1>2, <2>1, ShapeSame
<1>9. Picture(c, queue, F, used', cm)
  <2>1. Pend(cm) = {a} /\ used' \ Pend(cm) = used
    BY <1>3 DEF Pend
  <2>2. cm \in Calls
    <3>1. queue[q].head \in Pointer
      BY <1>2 DEF Header
    <3> QED BY <1>3, <3>1 DEF Calls
  <2>3. Walking(s, F, cm)
    <3>1. 1 \in 1 .. Len(s) + 1 /\ 1 .. 1 - 1 = {}
      BY <1>6
    <3> QED BY <1>3, <1>6, <3>1 DEF Walking
  <2>4. WalkOf(c, F, cm)
    <3>1. Len(s) < NPROC
      BY <1>4, <1>6, QueuesAssumption
    <3> QED BY <1>3, <1>7, <2>3, <3>1 DEF WalkOf
  <2> QED BY <1>2, <1>3, <1>7, <1>8, <2>1, <2>2, <2>4 DEF Picture, TypesOf
<1>10. QueueInv' /\ Cs' = c
  <2>1. Picture(c, queue', entry', used', call')
    BY <1>4, <1>9
  <2> QED BY <2>1, PictureNext
<1>11. Contents' = Contents
  <2>1. ShownAll(c, F, cm) = [r \in Queue |-> Plain(F, c[r])]
    <3>1. cm.op # "age"
      BY <1>3
    <3> QED BY ONLY <3>1, PlainShown
  <2>2. ShownAll(c, E, call) = [r \in Queue |-> Plain(E, c[r])]
    BY ONLY <1>1, PlainShown
  <2>3. ASSUME NEW r \in Queue PROVE Plain(F, c[r]) = Plain(E, c[r])
    <3>1. \A i \in DOMAIN c[r] : Same(E, F, c[r][i])
      BY <1>2, <1>7, ListFacts DEF Same, Among
    <3> QED BY ONLY <3>1, PlainKept
  <2> QED BY <1>10, <2>1, <2>2, <2>3, ContentsNow, ContentsNext
<1> QED BY <1>4, <1>10, <1>11 DEF Kept

\* malloc has no room: the lists are as they were when the entry is lost.
LEMMA EnqueueFails ==
  ASSUME QueueInv, NEW q \in Queue, EnqueueLost(q)
  PROVE  QueueInv' /\ Kept
<1> PICK c, E, s, cm : c = Cs /\ E = entry /\ s = Cs[q] /\ cm = call'
  OBVIOUS
<1>1. Picture(c, queue, E, used, call) /\ call.op = "none" /\ call.op # "age"
  BY PictureNow DEF EnqueueLost, Idle
<1>2. /\ TypesOf(queue, E, used, call) /\ ShapeOf(c, queue, E, used)
  BY <1>1 DEF Picture, Pend
<1>3. cm = [op |-> "lost", q |-> q, curr |-> NULL] /\ UNCHANGED <<queue, entry, used, ret>>
  BY DEF EnqueueLost, Unchanged
<1>4. cm \in Calls /\ cm.op = "lost" /\ cm.q = q /\ cm.curr = NULL
  BY <1>3 DEF Calls
<1>5. Walking(s, E, cm)
  <2>1. s \in Chains /\ Linked(queue[q], E, s)
    BY <1>2, ListFacts
  <2>2. Len(s) \in Nat /\ Len(s) + 1 \in 1 .. Len(s) + 1
    BY <2>1, ChainFacts
  <2>3. cm.curr = AtPlace(s, Len(s) + 1)
    BY <1>4, <2>2 DEF AtPlace
  <2> QED BY <1>4, <2>2, <2>3 DEF Walking
<1>6. WalkOf(c, E, cm) /\ Pend(cm) = {}
  BY <1>4, <1>5 DEF WalkOf, Pend
<1>7. Picture(c, queue', entry', used', call')
  BY <1>2, <1>3, <1>4, <1>6 DEF Picture, TypesOf
<1>8. QueueInv' /\ Cs' = c
  BY <1>7, PictureNext
<1>9. Contents' = Contents
  <2>1. cm.op # "age"
    BY <1>4
  <2>2. /\ ShownAll(c, E, cm) = [r \in Queue |-> Plain(E, c[r])]
        /\ ShownAll(c, E, call) = [r \in Queue |-> Plain(E, c[r])]
    BY ONLY <1>1, <2>1, PlainShown
  <2> QED BY <1>3, <1>8, <2>2, ContentsNow, ContentsNext
<1> QED BY <1>3, <1>8, <1>9 DEF Kept

\* The walk of enqueue ends where the order has the entry.
LEMMA EnqueueEnds ==
  ASSUME QueueInv, EnqueueLink
  PROVE  QueueInv' /\ \E q \in Queue : \E p \in Pid : \E k \in Keys : Promise!Put(q, p, k)
<1> PICK c, E, F, cl, q, x, y, k, b :
      /\ c = Cs /\ E = entry /\ F = entry' /\ cl = call /\ q = call.q /\ x = call.new
      /\ y = call.curr /\ k = call.key
      /\ b = (IF call.curr = NULL THEN queue[call.q].tail ELSE entry[call.curr].prev)
  OBVIOUS
<1>0. Picture(c, queue, E, used, cl)
  BY PictureNow
<1>1. /\ TypesOf(queue, E, used, cl) /\ ShapeOf(c, queue, E, used \ Pend(cl))
      /\ Pend(cl) \subseteq used /\ WalkOf(c, E, cl)
      /\ cl.op = "enqueue" /\ cl.op # "none" /\ cl.op # "age" /\ cl \in Calls
  BY <1>0 DEF Picture, EnqueueLink, At, TypesOf
<1>2. /\ q \in Queue /\ y \in Pointer /\ x \in Addr /\ k \in Keys /\ k \in Int
      /\ E \in [Addr -> Entry] /\ used \subseteq Addr /\ queue \in [Queue -> Header]
  BY <1>1, CallFacts, QueuesAssumption DEF TypesOf
<1> PICK U, s, q0 : U = used \ {x} /\ s = c[q] /\ q0 = queue[q]
  OBVIOUS
<1>3. ShapeOf(c, queue, E, U) /\ x \in used
  BY <1>1 DEF Pend
<1>4. s \in Chains /\ Linked(q0, E, s) /\ OnceOn(s) /\ Among(s) \subseteq U
  BY <1>2, <1>3, ListFacts
<1>5. Len(s) < NPROC /\ E[x].key = k /\ Walking(s, E, cl)
  BY <1>1 DEF WalkOf
<1>6. PICK m \in 1 .. Len(s) + 1 : /\ y = AtPlace(s, m)
                                   /\ \A i \in 1 .. m - 1 : E[s[i]].key >= k
  BY <1>1, <1>5 DEF Walking
<1>7. y # NULL => ~(E[y].key >= k)
  BY DEF EnqueueLink, Passes
<1> PICK r, t : /\ r = [head |-> IF b = NULL THEN x ELSE q0.head,
                        tail |-> IF y = NULL THEN x ELSE q0.tail, size |-> q0.size + 1]
                /\ t = InsertedAt(s, m, x)
  OBVIOUS
<1>8. /\ F = Link(x, b, y) /\ queue' = [queue EXCEPT ![q] = r] /\ used' = used /\ call' = None
      /\ ret' = OK
  BY DEF EnqueueLink, Return
<1>9. /\ b \in Pointer /\ (b = NULL \/ b \in Among(s)) /\ (y = NULL \/ y \in Among(s))
      /\ x \notin Among(s) /\ x # b /\ x # y
  <2>1. y = NULL \/ y \in Among(s)
    BY <1>4, <1>6, HeadFacts
  <2>2. b = NULL \/ b \in Among(s)
    <3>1. CASE y = NULL
      <4>1. b = q0.tail
        BY <3>1
      <4> QED BY <1>4, <4>1, HeadFacts
    <3>2. CASE y # NULL
      <4>1. m \in 1 .. Len(s) /\ y = s[m] /\ b = E[s[m]].prev
        <5>1. m \in 1 .. Len(s)
          BY <1>4, <1>6, <3>2, HeadFacts
        <5>2. y = s[m]
          BY <1>4, <1>6, <5>1, HeadFacts
        <5> QED BY <3>2, <5>1, <5>2
      <4> QED BY <1>4, <4>1, HeadFacts
    <3> QED BY <3>1, <3>2
  <2>3. x \notin Among(s) /\ x # NULL
    BY <1>2, <1>4, QueuesAssumption
  <2>4. b \in Pointer
    BY <1>2, <1>4, <2>2 DEF Pointer
  <2> QED BY <2>1, <2>2, <2>3, <2>4
<1>10. /\ F \in [Addr -> Entry]
       /\ \A a \in Addr :
            /\ Same(E, F, a)
            /\ F[a].next = IF a = x THEN y ELSE IF a = b THEN x ELSE E[a].next
            /\ F[a].prev = IF a = x THEN b ELSE IF a = y THEN x ELSE E[a].prev
  <2>1. F = SetPrev(SetNext(Written(E, x, b, y), b, x), y, x)
    BY <1>8 DEF Link, Written
  <2>2. /\ E \in [Addr -> Entry] /\ x \in Addr /\ b \in Pointer /\ y \in Pointer /\ x # b /\ x # y
    BY <1>2, <1>9
  <2> QED BY ONLY <2>1, <2>2, LinkWrites
<1>11. t \in Chains /\ Linked(r, F, t)
  <2>1. b = IF y = NULL THEN q0.tail ELSE E[y].prev
    OBVIOUS
  <2>2. \A a \in Addr :
            /\ F[a].next = IF a = x THEN y ELSE IF a = b THEN x ELSE E[a].next
            /\ F[a].prev = IF a = x THEN b ELSE IF a = y THEN x ELSE E[a].prev
    BY <1>10
  <2>3. r = [head |-> IF b = NULL THEN x ELSE q0.head,
             tail |-> IF y = NULL THEN x ELSE q0.tail, size |-> q0.size + 1]
    OBVIOUS
  <2>4. /\ s \in Chains /\ Len(s) < NPROC /\ OnceOn(s) /\ m \in 1 .. Len(s) + 1
        /\ x \in Addr /\ x \notin Among(s) /\ E \in [Addr -> Entry] /\ Linked(q0, E, s)
        /\ y = AtPlace(s, m) /\ F \in [Addr -> Entry]
    BY <1>2, <1>4, <1>5, <1>6, <1>9, <1>10
  <2>5. InsertedAt(s, m, x) \in Chains /\ Linked(r, F, InsertedAt(s, m, x))
    BY ONLY <2>1, <2>2, <2>3, <2>4, LinkedIn
  <2> QED BY <2>5
<1>12. Among(t) = Among(s) \union {x} /\ OnceOn(t)
  BY <1>4, <1>9, MembersIn
<1> PICK cn, Qn : cn = [c EXCEPT ![q] = t] /\ Qn = [queue EXCEPT ![q] = r]
  OBVIOUS
<1>13. ShapeOf(cn, Qn, F, used)
  <2>1. ASSUME NEW a \in U \ Among(s) PROVE SameLinks(E, F, a)
    <3>1. a \in Addr /\ a # x /\ a # b /\ a # y
      BY <1>2, <1>9, QueuesAssumption
    <3> QED BY <1>10, <3>1 DEF SameLinks
  <2>2. used = (U \ Among(s)) \union Among(t)
    BY <1>3, <1>4, <1>12
  <2>3. /\ \A a \in U \ Among(c[q]) : SameLinks(E, F, a)
        /\ \A a \in Among(t) : a \in Among(c[q]) \/ a \notin U
        /\ used = (U \ Among(c[q])) \union Among(t)
    BY <1>12, <2>1, <2>2
  <2>4. ShapeOf([c EXCEPT ![q] = t], [queue EXCEPT ![q] = r], F, used)
    BY ONLY <1>2, <1>3, <1>11, <1>12, <2>3, ShapeChanges
  <2> QED BY <2>4
<1>14. Picture(cn, Qn, F, used, None)
  <2>1. r \in Header
    <3> PICK h, l, z : /\ h = (IF b = NULL THEN x ELSE q0.head)
                       /\ l = (IF y = NULL THEN x ELSE q0.tail) /\ z = q0.size + 1
      OBVIOUS
    <3>1. q0 \in Header /\ x \in Pointer
      BY <1>2 DEF Pointer
    <3>2. h \in Pointer /\ l \in Pointer /\ z \in Nat
      BY <3>1 DEF Header
    <3>3. r = [head |-> h, tail |-> l, size |-> z]
      OBVIOUS
    <3> QED BY ONLY <3>2, <3>3 DEF Header
  <2>2. None.op = "none" /\ None \in Calls /\ Pend(None) = {}
    BY DEF None, Calls, Pend
  <2>3. TypesOf(Qn, F, used, None)
    BY <1>2, <1>10, <2>1, <2>2 DEF TypesOf
  <2> QED BY <1>13, <2>2, <2>3 DEF Picture, WalkOf
<1>15. QueueInv' /\ Cs' = cn
  <2>1. Picture(cn, queue', entry', used', call')
    BY <1>8, <1>14
  <2> QED BY <2>1, PictureNext
<1> PICK C, e : C = Contents /\ e = [pid |-> E[x].pid, key |-> k]
  OBVIOUS
<1>16. Contents' = [o \in Queue |-> Plain(F, cn[o])]
  <2>1. Contents' = ShownAll(cn, F, None)
    BY <1>8, <1>15, ContentsNext
  <2>2. None.op # "age"
    BY DEF None
  <2>3. ShownAll(cn, F, None) = [o \in Queue |-> Plain(F, cn[o])]
    BY ONLY <2>2, PlainShown
  <2> QED BY <2>1, <2>3
<1>17. Plain(F, t) = InsertedAt(Plain(E, s), m, e)
  <2>1. \A i \in DOMAIN s : Same(E, F, s[i])
    BY <1>4, <1>10, ChainFacts
  <2>2. F[x].pid = E[x].pid /\ F[x].key = k
    BY <1>2, <1>5, <1>10 DEF Same
  <2>3. Plain(F, InsertedAt(s, m, x)) =
           InsertedAt(Plain(E, s), m, [pid |-> F[x].pid, key |-> F[x].key])
    <3>1. InsertedAt(s, m, x) \in Chains
      BY <1>11
    <3> QED BY ONLY <1>4, <2>1, <3>1, m \in 1 .. Len(s) + 1, PlainInserted
  <2> QED BY <2>2, <2>3
<1>18. ASSUME NEW o \in Queue, o # q PROVE Plain(F, c[o]) = Plain(E, c[o])
  <2>1. \A a \in Among(c[o]) : a \in Addr
    BY <1>2, <1>3, ListFacts
  <2>2. ASSUME NEW i \in DOMAIN c[o] PROVE Same(E, F, c[o][i])
    <3>1. c[o][i] \in Among(c[o])
      BY DEF Among
    <3> QED BY <1>10, <2>1, <3>1
  <2> QED BY ONLY <2>2, PlainKept
<1>19. /\ C = [o \in Queue |-> Plain(E, c[o])] /\ C[q] = Plain(E, s)
       /\ C[q] \in Seq(Entries(Pid)) /\ Len(C[q]) = Len(s) /\ Len(s) \in Nat
       /\ \A i \in 1 .. Len(s) : C[q][i].key = E[s[i]].key
  BY <1>1, <1>2, HoldsNow
<1>20. Enqueue(C[q], E[x].pid, k, NPROC) = InsertedAt(C[q], m, e)
  <2>1. /\ m \in 1 .. Len(C[q]) + 1 /\ Len(C[q]) < NPROC
    BY <1>5, <1>19
  <2>2. \A i \in 1 .. m - 1 : C[q][i].key >= k
    <3>1. \A i \in 1 .. m - 1 : i \in 1 .. Len(s)
      BY <1>19
    <3> QED BY <1>6, <1>19, <3>1
  <2>3. m <= Len(C[q]) => C[q][m].key < k
    <3> SUFFICES ASSUME m <= Len(s) PROVE C[q][m].key < k
      BY <1>19
    <3>1. m \in 1 .. Len(s)
      BY <1>19
    <3>2. y = s[m] /\ s[m] \in Addr /\ y # NULL
      BY <1>4, <1>6, <3>1, HeadFacts, ChainFacts
    <3>3. E[s[m]].key \in Int /\ ~(E[s[m]].key >= k)
      BY <1>2, <1>7, <3>2 DEF Entry
    <3> QED BY <1>2, <1>19, <3>1, <3>3
  <2>4. E[x].pid \in Pid /\ NPROC \in Nat
    BY <1>2, QueuesAssumption DEF Entry
  <2>5. Enqueue(C[q], E[x].pid, k, NPROC) = InsertedAt(C[q], m, [pid |-> E[x].pid, key |-> k])
    BY ONLY <1>2, <1>19, <2>1, <2>2, <2>3, <2>4, EnqueueAt
  <2> QED BY <2>5
<1>21. Contents' = [C EXCEPT ![q] = InsertedAt(C[q], m, e)]
  <2>1. c \in [Queue -> Chains]
    BY <1>3 DEF ShapeOf
  <2> QED BY <1>2, <1>16, <1>17, <1>18, <1>19, <2>1
<1>22. Promise!Put(q, E[x].pid, k)
  <2>1. Len(C[q]) < NPROC /\ OK = Promise!OK
    BY <1>5, <1>19 DEF OK, Promise!OK
  <2>2. Contents' = [Contents EXCEPT ![q] = Enqueue(Contents[q], E[x].pid, k, NPROC)]
    BY <1>20, <1>21
  <2> QED BY <1>8, <2>1, <2>2, SameOperators DEF Promise!Put, Promise!Becomes
<1>23. E[x].pid \in Pid
  BY <1>2 DEF Entry
<1> QED BY <1>2, <1>15, <1>22, <1>23

\* dequeue, and getfirst.
LEMMA DequeueStep ==
  ASSUME QueueInv, NEW q \in Queue, Dequeue(q)
  PROVE  QueueInv' /\ Promise!TakeFirst(q)
<1> PICK c, E, s, q0, x : /\ c = Cs /\ E = entry /\ s = Cs[q] /\ q0 = queue[q]
                          /\ x = queue[q].head
  OBVIOUS
<1>1. /\ TypesOf(queue, E, used, call) /\ ShapeOf(c, queue, E, used \ Pend(call))
      /\ call.op \notin {"age", "enqueue"} /\ call.op # "age"
  BY PictureNow DEF Picture, Dequeue, Idle
<1>2. E \in [Addr -> Entry] /\ queue \in [Queue -> Header]
  BY <1>1 DEF TypesOf
<1>3. s \in Chains /\ Linked(q0, E, s) /\ OnceOn(s)
  BY <1>1, ListFacts
<1>4. Len(s) \in Nat /\ q0.size = Len(s) /\ Len(s) # 0
  <2>1. q0.size = Len(s) /\ Len(s) \in Nat
    BY <1>3, HeadFacts, ChainFacts
  <2> QED BY <2>1 DEF Dequeue, isempty
<1>5. 1 \in 1 .. Len(s) /\ Len(s) \in 1 .. Len(s)
  BY <1>4
<1>6. /\ x = s[1] /\ x = q0.head /\ q0.tail = s[Len(s)] /\ x \in Addr
      /\ E[x].prev = NULL /\ E[x].next = (IF Len(s) = 1 THEN NULL ELSE s[2])
      /\ DOMAIN s = 1 .. Len(s) /\ \A i \in 1 .. Len(s) : s[i] # NULL
  <2>1. x = s[1] /\ x = q0.head /\ q0.tail = s[Len(s)]
    BY <1>3, <1>4, HeadFacts
  <2>2. s[1] \in Addr /\ DOMAIN s = 1 .. Len(s) /\ \A i \in 1 .. Len(s) : s[i] # NULL
    BY <1>3, <1>5, ChainFacts
  <2>3. /\ E[s[1]].next = (IF 1 = Len(s) THEN NULL ELSE s[1 + 1])
        /\ E[s[1]].prev = (IF 1 = 1 THEN NULL ELSE s[1 - 1])
    BY <1>3, <1>5, <2>2 DEF Linked
  <2> QED BY <2>1, <2>2, <2>3
<1>7. E[x].next = NULL <=> x = q0.tail
  <2>1. CASE Len(s) = 1
    BY <1>6, <2>1
  <2>2. CASE Len(s) # 1
    <3>1. 2 \in 1 .. Len(s)
      <4> PICK n : n = Len(s)
        OBVIOUS
      <4>1. n \in Nat /\ n # 0 /\ n # 1
        BY <1>4, <2>2
      <4>2. n \in Int /\ n >= 2
        BY ONLY <4>1
      <4> QED BY ONLY <4>2, n = Len(s)
    <3>2. s[1] = s[Len(s)] => 1 = Len(s)
      BY <1>3, <1>5, <1>6 DEF OnceOn
    <3> QED BY <1>6, <2>2, <3>1, <3>2
  <2> QED BY <2>1, <2>2
<1>8. /\ entry' = [SetPrev(E, E[x].next, NULL) EXCEPT ![x] = Blank] /\ used' = used \ {x}
      /\ call' = None /\ ret' = E[x].pid
      /\ queue' = [queue EXCEPT ![q] =
                     [head |-> E[x].next, tail |-> IF E[x].next = NULL THEN NULL ELSE q0.tail,
                      size |-> q0.size - 1]]
  BY DEF Dequeue, free, Return
<1>9. entry' = [SetNext(SetPrev(E, E[x].next, E[x].prev), E[x].prev, E[x].next) EXCEPT ![x] = Blank]
  BY <1>6, <1>8 DEF SetNext
<1>10. queue' = [queue EXCEPT ![q] = Unlink(queue[q], x)]
  <2>1. Unlink(q0, x) = [head |-> E[x].next, size |-> q0.size - 1,
                         tail |-> IF E[x].next = NULL THEN NULL ELSE q0.tail]
    BY <1>6, <1>7 DEF Unlink
  <2> QED BY <1>8, <2>1
<1>11. QueueInv' /\ Contents' = [Contents EXCEPT ![q] = Skipped(Contents[q], 1)]
  <2>1. /\ 1 \in 1 .. Len(Cs[q]) /\ x = Cs[q][1]
        /\ entry' = [SetNext(SetPrev(entry, entry[x].next, entry[x].prev),
                             entry[x].prev, entry[x].next) EXCEPT ![x] = Blank]
    BY <1>5, <1>6, <1>9
  <2> QED BY ONLY <1>1, <1>8, <1>10, <2>1, QueueInv, q \in Queue, TakesOff
<1>12. /\ Contents[q] \in Seq(Entries(Pid)) /\ Len(Contents[q]) = Len(s)
       /\ Contents[q][1].pid = E[x].pid
  BY <1>1, <1>5, <1>6, HoldsNow
<1>13. Dropped(Contents[q], 1) = Skipped(Contents[q], 1) /\ Contents[q] # <<>>
  <2> PICK C : C = Contents[q]
    OBVIOUS
  <2>1. C \in Seq(Entries(Pid)) /\ Len(C) # 0
    BY <1>4, <1>12
  <2>2. Dropped(C, 1) = Skipped(C, 1)
    BY ONLY <2>1, DroppedFirst
  <2> QED BY <2>1, <2>2
<1>14. Promise!TakeFirst(q)
  BY <1>8, <1>11, <1>12, <1>13, SameOperators DEF Promise!TakeFirst, Promise!Becomes
<1> QED BY <1>11, <1>14

\* Calls of an empty queue.
LEMMA EmptyStep ==
  ASSUME QueueInv, NEW q \in Queue, Empty(q)
  PROVE  QueueInv' /\ Promise!TakeFirst(q)
<1>1. /\ call.op # "age" /\ call.op # "enqueue" /\ call' = None /\ ret' = EMPTY
      /\ UNCHANGED <<queue, entry, used>> /\ queue[q].size = 0
  BY DEF Empty, Idle, Return, Unchanged, isempty
<1>2. QueueInv' /\ Contents' = Contents
  BY <1>1, EndsWalk
<1>3. Contents[q] \in Seq(Entries(Pid)) /\ Len(Contents[q]) = 0
  BY <1>1, HoldsNow
<1>4. Dropped(Contents[q], 1) = Contents[q] /\ Contents[q] = <<>>
  <2> PICK C : C = Contents[q]
    OBVIOUS
  <2>1. C \in Seq(Entries(Pid)) /\ Len(C) = 0
    BY <1>3
  <2>2. Dropped(C, 1) = C
    BY ONLY <2>1, DroppedFirst
  <2> QED BY <2>1, <2>2
<1>5. Contents' = [Contents EXCEPT ![q] = Contents[q]]
  BY <1>2 DEF Contents
<1>6. EMPTY = Promise!EMPTY
  BY DEF EMPTY, Promise!EMPTY
<1>7. Promise!TakeFirst(q)
  BY <1>1, <1>4, <1>5, <1>6, SameOperators DEF Promise!TakeFirst, Promise!Becomes
<1> QED BY <1>2, <1>7

\* remove, when it has come to an entry of the pid, and when it has come to the end.
LEMMA RemoveFinds ==
  ASSUME QueueInv, RemoveUnlink
  PROVE  QueueInv' /\ \E q \in Queue : \E p \in Pid : Promise!Take(q, p)
<1> PICK c, E, cl, q, x, p : /\ c = Cs /\ E = entry /\ cl = call /\ q = call.q /\ x = call.curr
                             /\ p = call.pid
  OBVIOUS
<1>1. /\ TypesOf(queue, E, used, cl) /\ ShapeOf(c, queue, E, used \ Pend(cl)) /\ WalkOf(c, E, cl)
  BY PictureNow DEF Picture
<1>2. /\ cl.op = "remove" /\ cl.op # "none" /\ cl.op \notin {"age", "enqueue"} /\ cl.op # "age"
      /\ cl \in Calls /\ x # NULL /\ E[x].pid = p
  BY <1>1 DEF RemoveUnlink, At, Found, TypesOf
<1>3. q \in Queue /\ p \in Pid
  BY <1>2, CallFacts
<1> PICK s : s = c[q]
  OBVIOUS
<1>4. s \in Chains /\ Linked(queue[q], E, s)
  BY <1>1, <1>3, ListFacts
<1>5. Walking(s, E, cl)
  BY <1>1, <1>2 DEF WalkOf
<1>6. PICK m \in 1 .. Len(s) : x = s[m] /\ \A i \in 1 .. m - 1 : E[s[i]].pid # p
  <2>1. \E m \in 1 .. Len(s) :
           /\ cl.curr = s[m] /\ E[cl.curr].next = AtPlace(s, m + 1)
           /\ cl.curr = AtPlace(s, m) /\ m + 1 \in 1 .. Len(s) + 1
           /\ cl.op = "enqueue" => \A i \in 1 .. m - 1 : E[s[i]].key >= cl.key
           /\ cl.op \in {"remove", "getbypid"} => \A i \in 1 .. m - 1 : E[s[i]].pid # cl.pid
    <3>1. cl.curr # NULL
      BY <1>2
    <3> QED BY ONLY <1>4, <1>5, <3>1, AtEntry
  <2>2. PICK m \in 1 .. Len(s) :
           cl.curr = s[m] /\ (cl.op \in {"remove", "getbypid"} =>
                                \A i \in 1 .. m - 1 : E[s[i]].pid # cl.pid)
    BY ONLY <2>1
  <2>3. x = s[m] /\ \A i \in 1 .. m - 1 : E[s[i]].pid # p
    BY <1>2, <2>2
  <2> QED BY <2>3
<1>7. QueueInv' /\ Contents' = [Contents EXCEPT ![q] = Skipped(Contents[q], m)]
  <2>1. /\ entry' = [SetNext(SetPrev(entry, entry[x].next, entry[x].prev),
                             entry[x].prev, entry[x].next) EXCEPT ![x] = Blank]
        /\ used' = used \ {x} /\ call' = None
        /\ queue' = [queue EXCEPT ![q] = Unlink(queue[q], x)]
    BY DEF RemoveUnlink, free, Return
  <2>2. m \in 1 .. Len(Cs[q]) /\ x = Cs[q][m] /\ call.op \notin {"age", "enqueue"}
    BY <1>2, <1>6
  <2> QED BY ONLY <1>3, <2>1, <2>2, QueueInv, TakesOff
<1> PICK C : C = Contents[q]
  OBVIOUS
<1>8. /\ C \in Seq(Entries(Pid)) /\ Len(C) = Len(s) /\ Len(s) \in Nat
      /\ \A i \in 1 .. Len(s) : C[i].pid = E[s[i]].pid
  BY <1>2, <1>3, HoldsNow
<1>9. Removed(C, p) = Skipped(C, m)
  <2>1. m \in 1 .. Len(C) /\ C[m].pid = p
    BY <1>2, <1>6, <1>8
  <2>2. \A i \in 1 .. m - 1 : C[i].pid # p
    <3>1. \A i \in 1 .. m - 1 : i \in 1 .. Len(s)
      BY <1>8
    <3> QED BY <1>6, <1>8, <3>1
  <2> QED BY ONLY <1>8, <2>1, <2>2, RemovedAt
<1>10. Occurrences(C, p) # 0 /\ C # <<>>
  <2>1. \E i \in 1 .. Len(C) : C[i].pid = p
    BY <1>2, <1>6, <1>8
  <2>2. Occurrences(C, p) # 0
    BY ONLY <1>8, <2>1, OccurrencesFacts
  <2> QED BY <1>8, <2>1, <2>2
<1>11. ret' = p
  BY DEF RemoveUnlink, Return
<1>12. Promise!Take(q, p)
  BY <1>7, <1>9, <1>10, <1>11, SameOperators DEF Promise!Take, Promise!Becomes
<1> QED BY <1>3, <1>7, <1>12

\* What a search has passed when it has come to the end of its queue.
LEMMA NoneFound ==
  ASSUME QueueInv, call.op \in {"remove", "getbypid"}, call.curr = NULL
  PROVE  /\ call.q \in Queue /\ call.pid \in Pid
         /\ Contents[call.q] \in Seq(Entries(Pid))
         /\ \A i \in 1 .. Len(Contents[call.q]) : Contents[call.q][i].pid # call.pid
<1> PICK c, E, cl, q, p : c = Cs /\ E = entry /\ cl = call /\ q = call.q /\ p = call.pid
  OBVIOUS
<1>1. /\ TypesOf(queue, E, used, cl) /\ ShapeOf(c, queue, E, used \ Pend(cl)) /\ WalkOf(c, E, cl)
  BY PictureNow DEF Picture
<1>2. cl \in Calls /\ cl.op # "none" /\ cl.op # "age" /\ cl.op \in {"remove", "getbypid"}
  BY <1>1 DEF TypesOf
<1>3. q \in Queue /\ p \in Pid
  BY <1>2, CallFacts
<1> PICK s : s = c[q]
  OBVIOUS
<1>4. s \in Chains /\ Linked(queue[q], E, s)
  BY <1>1, <1>3, ListFacts
<1>5. PICK m \in 1 .. Len(s) + 1 : cl.curr = AtPlace(s, m) /\ \A i \in 1 .. m - 1 : E[s[i]].pid # p
  BY <1>1, <1>2 DEF WalkOf, Walking
<1>6. m = Len(s) + 1 /\ Len(s) \in Nat
  BY <1>4, <1>5, HeadFacts, ChainFacts
<1>7. \A i \in 1 .. Len(s) : E[s[i]].pid # p
  <2>1. \A i \in 1 .. Len(s) : i \in 1 .. m - 1
    BY <1>6
  <2> QED BY <1>5, <2>1
<1>8. /\ Contents[q] \in Seq(Entries(Pid)) /\ Len(Contents[q]) = Len(s)
      /\ \A i \in 1 .. Len(s) : Contents[q][i].pid = E[s[i]].pid
  BY <1>2, <1>3, HoldsNow
<1> QED BY <1>3, <1>7, <1>8

LEMMA RemoveFails ==
  ASSUME QueueInv, RemoveMissing
  PROVE  QueueInv' /\ \E q \in Queue : \E p \in Pid : Promise!Take(q, p)
<1> PICK q, p, C : q = call.q /\ p = call.pid /\ C = Contents[call.q]
  OBVIOUS
<1>1. /\ call.op = "remove" /\ call.op # "age" /\ call.op # "enqueue" /\ call.curr = NULL
      /\ call' = None /\ ret' = SYSERR /\ UNCHANGED <<queue, entry, used>>
  BY DEF RemoveMissing, At, Return, Unchanged
<1>2. QueueInv' /\ Contents' = Contents
  BY <1>1, EndsWalk
<1>3. q \in Queue /\ p \in Pid /\ C \in Seq(Entries(Pid)) /\ \A i \in 1 .. Len(C) : C[i].pid # p
  BY <1>1, NoneFound
<1>4. Removed(C, p) = C /\ Occurrences(C, p) = 0
  BY ONLY <1>3, RemovedNone, OccurrencesFacts
<1>5. Contents' = [Contents EXCEPT ![q] = C]
  BY <1>2 DEF Contents
<1>6. SYSERR = Promise!SYSERR /\ SYSERR = Promise!EMPTY
  BY DEF SYSERR, Promise!SYSERR, Promise!EMPTY
<1>7. Promise!Take(q, p)
  BY <1>1, <1>4, <1>5, <1>6, SameOperators DEF Promise!Take, Promise!Becomes
<1> QED BY <1>2, <1>3, <1>7

\* getbypid.
LEMMA GetbypidAnswers ==
  ASSUME QueueInv, GetbypidEnd
  PROVE  QueueInv' /\ \E q \in Queue : \E p \in Pid : Promise!Ask(q, p)
<1> PICK c, E, cl, q, p, C : /\ c = Cs /\ E = entry /\ cl = call /\ q = call.q /\ p = call.pid
                             /\ C = Contents[call.q]
  OBVIOUS
<1>1. /\ TypesOf(queue, E, used, cl) /\ ShapeOf(c, queue, E, used \ Pend(cl)) /\ WalkOf(c, E, cl)
  BY PictureNow DEF Picture
<1>2. /\ cl.op = "getbypid" /\ cl.op # "none" /\ cl.op # "age" /\ cl.op # "enqueue" /\ cl \in Calls
      /\ call' = None /\ ret' = (IF cl.curr = NULL THEN EMPTY ELSE OK)
      /\ UNCHANGED <<queue, entry, used>> /\ (cl.curr # NULL => E[cl.curr].pid = p)
  BY <1>1 DEF GetbypidEnd, At, Return, Unchanged, Passed, TypesOf
<1>3. QueueInv' /\ Contents' = Contents
  BY <1>2, EndsWalk
<1>4. q \in Queue /\ p \in Pid
  BY <1>2, CallFacts
<1>5. Contents' = [Contents EXCEPT ![q] = C]
  BY <1>3 DEF Contents
<1>6. EMPTY = Promise!EMPTY /\ OK = Promise!OK
  BY DEF EMPTY, Promise!EMPTY, OK, Promise!OK
<1>7. CASE cl.curr = NULL
  <2>1. C \in Seq(Entries(Pid)) /\ \A i \in 1 .. Len(C) : C[i].pid # p
    BY <1>2, <1>7, NoneFound
  <2>2. ~(Occurrences(C, p) > 0)
    BY ONLY <2>1, OccurrencesFacts
  <2>3. Promise!Ask(q, p)
    BY <1>2, <1>5, <1>6, <1>7, <2>2, SameOperators DEF Promise!Ask, Promise!Becomes
  <2> QED BY <1>3, <1>4, <2>3
<1>8. CASE cl.curr # NULL
  <2> PICK s : s = c[q]
    OBVIOUS
  <2>1. s \in Chains /\ Linked(queue[q], E, s)
    BY <1>1, <1>4, ListFacts
  <2>2. Walking(s, E, cl)
    BY <1>1, <1>2 DEF WalkOf
  <2>3. \E m \in 1 .. Len(s) : cl.curr = s[m]
    <3>1. \E m \in 1 .. Len(s) :
             /\ cl.curr = s[m] /\ E[cl.curr].next = AtPlace(s, m + 1)
             /\ cl.curr = AtPlace(s, m) /\ m + 1 \in 1 .. Len(s) + 1
             /\ cl.op = "enqueue" => \A i \in 1 .. m - 1 : E[s[i]].key >= cl.key
             /\ cl.op \in {"remove", "getbypid"} => \A i \in 1 .. m - 1 : E[s[i]].pid # cl.pid
      BY ONLY <1>8, <2>1, <2>2, AtEntry
    <3> QED BY <3>1
  <2>4. /\ C \in Seq(Entries(Pid)) /\ Len(C) = Len(s)
        /\ \A i \in 1 .. Len(s) : C[i].pid = E[s[i]].pid
    BY <1>2, <1>4, HoldsNow
  <2>5. \E i \in 1 .. Len(C) : C[i].pid = p
    BY <1>2, <1>8, <2>3, <2>4
  <2>6. Occurrences(C, p) > 0
    BY ONLY <2>4, <2>5, OccurrencesFacts
  <2>7. Promise!Ask(q, p)
    BY <1>2, <1>5, <1>6, <1>8, <2>6, SameOperators DEF Promise!Ask, Promise!Becomes
  <2> QED BY <1>3, <1>4, <2>7
<1> QED BY <1>7, <1>8

----------------------------------------------------------------------------
\* All together.

LEMMA StartSound ==
  ASSUME Init
  PROVE  QueueInv /\ Contents = [q \in Queue |-> <<>>] /\ ret = OK
<1> PICK c : c = [q \in Queue |-> <<>>]
  OBVIOUS
<1>1. <<>> \in Chains /\ DOMAIN <<>> = {} /\ Len(<<>>) = 0
  <2>1. <<>> \in Chains
    BY EmptyIsChain
  <2> QED BY <2>1
<1>2. /\ queue = [q \in Queue |-> newqueue] /\ entry = [a \in Addr |-> Blank]
      /\ used = {} /\ call = None /\ ret = OK
  BY DEF Init
<1>3. QueueTypes
  <2>1. Blank \in Entry
    BY QueuesAssumption DEF Blank, Entry, Pid, NULLPROC, Pointer
  <2>2. newqueue \in Header /\ None \in Calls
    BY DEF newqueue, Header, Pointer, Calls
  <2> QED BY <1>2, <2>1, <2>2 DEF QueueTypes
<1>4. ASSUME NEW q \in Queue PROVE Chain(queue[q], entry) = <<>> /\ Linked(queue[q], entry, <<>>)
  <2>1. Linked(queue[q], entry, <<>>)
    BY <1>1, <1>2 DEF Linked, newqueue
  <2> QED BY <1>1, <2>1, TheChain
<1>5. Cs = c
  BY <1>4 DEF Cs
<1>6. ~At("enqueue") /\ call.op = "none"
  BY <1>2 DEF At, None
<1>7. ListsSound
  <2>1. [q \in Queue |-> Chain(queue[q], entry)] = c
    BY <1>5 DEF Cs
  <2>2. \A q \in Queue : DOMAIN c[q] = {} /\ Linked(queue[q], entry, c[q])
    BY <1>1, <1>4
  <2> QED BY <1>2, <1>6, <2>1, <2>2 DEF ListsSound, Pending
<1>8. WalkSound
  BY <1>6 DEF WalkSound, WalkOf
<1>9. Contents = [q \in Queue |-> <<>>]
  <2>1. ShownAll(Cs, entry, call) = [q \in Queue |-> Plain(entry, Cs[q])]
    BY <1>6, PlainShown
  <2>2. Plain(entry, <<>>) = <<>>
    BY <1>1 DEF Plain
  <2> QED BY <1>5, <2>1, <2>2, ContentsNow
<1> QED BY <1>2, <1>3, <1>7, <1>8, <1>9 DEF QueueInv

\* Nothing happens.
LEMMA StaysSound ==
  ASSUME QueueInv, UNCHANGED vars
  PROVE  QueueInv' /\ Progress
<1>1. UNCHANGED <<queue, entry, used, call, ret>>
  BY DEF vars
<1> PICK c : c = Cs
  OBVIOUS
<1>2. Picture(c, queue', entry', used', call')
  BY <1>1, PictureNow
<1>3. QueueInv' /\ Cs' = c
  BY <1>2, PictureNext
<1>4. Contents' = Contents
  BY <1>1, <1>3, ContentsNow, ContentsNext
<1> QED BY <1>1, <1>3, <1>4 DEF Progress, Kept

LEMMA BeginsSound ==
  ASSUME QueueInv, Begin
  PROVE  QueueInv' /\ Progress
<1>1. PICK q \in Queue :
        \/ Empty(q) \/ EnqueueFull(q) \/ EnqueueLost(q) \/ Dequeue(q) \/ Getlast(q)
        \/ \E p \in Pid :
             RemoveCall(q, p) \/ GetbypidCall(q, p) \/ \E k \in Keys : EnqueueCall(q, p, k)
        \/ \E old, new \in Pid : AgeCall(q, old, new)
  BY DEF Begin
<1>2. TypesOf(queue, entry, used, call) /\ ShapeOf(Cs, queue, entry, used \ Pend(call))
  BY PictureNow DEF Picture
<1>3. queue[q] \in Header
  BY <1>2 DEF TypesOf
\* The searches and the walk of sched_age.
<1>4. ASSUME NEW op \in {"remove", "getbypid"}, NEW p \in Pid, Idle, ~isempty(q), Search(op, q, p)
      PROVE  QueueInv' /\ Kept
  <2>1. /\ call' = [op |-> op, q |-> q, curr |-> queue[q].head, pid |-> p]
        /\ UNCHANGED <<queue, entry, used, ret>>
    BY <1>4 DEF Search, Unchanged
  <2>2. call' \in Calls
    BY <1>3, <2>1 DEF Calls, Header
  <2>3. call'.op \in {"remove", "getbypid", "age"} /\ queue[call'.q].size # 0
        /\ call'.curr = queue[call'.q].head
    BY <1>4, <2>1 DEF isempty
  <2> QED BY ONLY <1>4, <2>1, <2>2, <2>3, QueueInv, BeginsWalk
<1>5. CASE Empty(q)
  BY <1>5, EmptyStep DEF Progress, Promise!OrderedNext
<1>6. CASE EnqueueFull(q)
  BY <1>6, FullStep DEF Progress, Promise!OrderedNext
<1>7. CASE Dequeue(q)
  BY <1>7, DequeueStep DEF Progress, Promise!OrderedNext
<1>8. CASE Getlast(q)
  <2>1. Idle /\ ~isempty(q) /\ Search("remove", q, entry[queue[q].tail].pid)
    BY <1>8 DEF Getlast
  <2>2. entry[queue[q].tail].pid \in Pid
    <3> PICK s : s = Cs[q]
      OBVIOUS
    <3>1. s \in Chains /\ Linked(queue[q], entry, s)
      BY <1>2, ListFacts
    <3>2. Len(s) \in Nat /\ queue[q].size = Len(s)
      BY <3>1, ChainFacts, HeadFacts
    <3>3. Len(s) # 0 /\ Len(s) \in 1 .. Len(s)
      BY <2>1, <3>2 DEF isempty
    <3>4. queue[q].tail = s[Len(s)] /\ s[Len(s)] \in Addr
      BY <3>1, <3>3, ChainFacts, HeadFacts
    <3>5. entry \in [Addr -> Entry]
      BY <1>2 DEF TypesOf
    <3> QED BY <3>4, <3>5 DEF Entry
  <2> QED BY <1>4, <2>1, <2>2 DEF Progress
<1>9. ASSUME NEW p \in Pid, RemoveCall(q, p) PROVE QueueInv' /\ Progress
  BY <1>4, <1>9 DEF RemoveCall, Progress
<1>10. ASSUME NEW p \in Pid, GetbypidCall(q, p) PROVE QueueInv' /\ Progress
  BY <1>4, <1>10 DEF GetbypidCall, Progress
<1>11. ASSUME NEW p \in Pid, NEW k \in Keys, EnqueueCall(q, p, k) PROVE QueueInv' /\ Progress
  BY <1>11, EnqueueBegins DEF Progress
<1>13. CASE EnqueueLost(q)
  BY <1>13, EnqueueFails DEF Progress
<1>12. ASSUME NEW old \in Pid, NEW new \in Pid, AgeCall(q, old, new) PROVE QueueInv' /\ Progress
  <2>1. /\ Idle /\ ~isempty(q) /\ UNCHANGED <<queue, entry, used, ret>>
        /\ call' = [op |-> "age", q |-> q, curr |-> queue[q].head, spared |-> {NULLPROC, old, new}]
    BY <1>12 DEF AgeCall, Unchanged
  <2>2. call' \in Calls
    <3>1. {NULLPROC, old, new} \in SUBSET Pid
      BY QueuesAssumption DEF Pid, NULLPROC
    <3> QED BY <1>3, <2>1, <3>1 DEF Calls, Header
  <2>3. call'.op \in {"remove", "getbypid", "age"} /\ queue[call'.q].size # 0
        /\ call'.curr = queue[call'.q].head
    BY <2>1 DEF isempty
  <2>4. QueueInv' /\ Kept
    BY ONLY <2>1, <2>2, <2>3, QueueInv, BeginsWalk
  <2> QED BY <2>4 DEF Progress
<1> QED BY <1>1, <1>5, <1>6, <1>7, <1>8, <1>9, <1>10, <1>11, <1>12, <1>13

LEMMA ContinuesSound ==
  ASSUME QueueInv, Continue
  PROVE  QueueInv' /\ Progress
<1>1. ASSUME Walk, ~Idle, ~At("age"), call.curr # NULL,
             At("enqueue") => entry[call.curr].key >= call.key,
             call.op \in {"remove", "getbypid"} => entry[call.curr].pid # call.pid
      PROVE  QueueInv' /\ Progress
  <2>1. /\ call' = [call EXCEPT !.curr = entry[call.curr].next]
        /\ UNCHANGED <<queue, entry, used, ret>>
    BY <1>1 DEF Walk
  <2> QED BY <1>1, <2>1, StepsOn DEF Progress
<1>2. CASE EnqueueWalk
  BY <1>1, <1>2 DEF EnqueueWalk, Passes, At, Idle
<1>3. CASE RemoveWalk
  BY <1>1, <1>3 DEF RemoveWalk, Passed, At, Idle
<1>4. CASE GetbypidWalk
  BY <1>1, <1>4 DEF GetbypidWalk, Passed, At, Idle
<1>5. CASE EnqueueLink
  BY <1>5, EnqueueEnds DEF Progress, Promise!OrderedNext
<1>6. CASE RemoveUnlink
  BY <1>6, RemoveFinds DEF Progress, Promise!OrderedNext
<1>7. CASE RemoveMissing
  BY <1>7, RemoveFails DEF Progress, Promise!OrderedNext
<1>8. CASE GetbypidEnd
  BY <1>8, GetbypidAnswers DEF Progress, Promise!OrderedNext
<1>9. CASE AgeWalk
  BY <1>9, AgeSteps DEF Progress
<1>10. CASE AgeEnd
  BY <1>10, AgeEnds DEF Progress, Promise!OrderedNext
<1>11. CASE Lost
  BY <1>11, StaysSound DEF Lost
<1> QED BY <1>2, <1>3, <1>4, <1>5, <1>6, <1>7, <1>8, <1>9, <1>10, <1>11 DEF Continue

LEMMA QueuesStep ==
  ASSUME QueueInv, [Next]_vars
  PROVE  QueueInv' /\ Progress
<1>1. CASE Next
  BY <1>1, BeginsSound, ContinuesSound DEF Next
<1> QED BY <1>1, StaysSound

LEMMA QueueInvAlways == Spec => []QueueInv
<1>1. Init => QueueInv
  BY StartSound
<1>2. QueueInv /\ [Next]_vars => QueueInv'
  BY QueuesStep
<1> QED BY <1>1, <1>2, PTL DEF Spec

\* Between the iterations of every call, for any number of queues, places and processes: the
\* head, the tail, the size and the links both ways of every queue tell of one list, the lists
\* have no entry in common, and what is allocated is on one of them (queue.c:90, queue.c:217).
THEOREM ListsAreSound == Spec => []ListsSound
<1>1. QueueInv => ListsSound
  BY DEF QueueInv
<1> QED BY <1>1, QueueInvAlways, PTL

\* The linked lists are the queues of OrderedQueues: whatever the calls, each one does to its
\* queue what it promises, and no other step is seen (queue.c:57, queue.c:196, resched.c:62).
THEOREM ImplementsOrderedQueues == Spec => KeepsOrder
<1>1. Init => Promise!OrderedInit
  <2>1. OK = Promise!OK
    BY DEF OK, Promise!OK
  <2> QED BY <2>1, StartSound DEF Promise!OrderedInit
<1>2. QueueInv /\ [Next]_vars => [Promise!OrderedNext]_(Promise!orderedVars)
  BY QueuesStep DEF Progress, Kept, Promise!orderedVars
<1> QED BY <1>1, <1>2, QueueInvAlways, PTL DEF Spec, KeepsOrder, Promise!OrderedSpec
=============================================================================
