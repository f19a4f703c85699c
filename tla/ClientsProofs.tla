--------------------------- MODULE ClientsProofs ---------------------------
(***************************************************************************)
(* Proofs about Clients, for every number of philosophers: the only        *)
(* circular wait they can get into is the one of the textbook.             *)
(***************************************************************************)
EXTENDS Clients, LocksProofs, WellFoundedInduction

\* What a process that takes lock a and then lock b, and uses the printer under both,
\* has still to do before each of its last five calls; before those, a worker uses
\* the printer under its first lock alone.
Rest1(a)    == <<Call("release", a)>>
Rest2(a, b) == <<Call("release", b)>> \o Rest1(a)
Rest3(a, b) == <<Call("release", printer_lock)>> \o Rest2(a, b)
Rest4(a, b) == <<Call("acquire", printer_lock)>> \o Rest3(a, b)
Rest5(a, b) == <<Call("acquire", b)>> \o Rest4(a, b)
Rest6(a, b) == <<Call("release", printer_lock)>> \o Rest5(a, b)
Rest7(a, b) == <<Call("acquire", printer_lock)>> \o Rest6(a, b)
Rest8(a, b) == <<Call("acquire", a)>> \o Rest7(a, b)
ThinkEnd    == <<Call("release", printer_lock)>>

\* p is between two calls, or inside the acquire of l, with the calls s to make and
\* the locks h taken.
Between(p, s, h)   == plan[p] = s /\ pc[p] = "run" /\ held[p] = h
Inside(p, s, h, l) == plan[p] = s /\ pc[p] \in {"spin", "got"} /\ held[p] = h /\ target[p] = l

\* Between two turns of a philosopher, or after the end of a worker.
Free(p) == plan[p] = <<>> /\ pc[p] \in {"run", "dead"} /\ held[p] = {}

Thinking(p) ==
  \/ Inside(p, ThinkEnd, {}, printer_lock)
  \/ Between(p, ThinkEnd, {printer_lock})

Starting(p, a, b) ==
  \/ Between(p, Rest8(a, b), {})
  \/ Inside(p, Rest7(a, b), {}, a)
  \/ Between(p, Rest7(a, b), {a})
  \/ Inside(p, Rest6(a, b), {a}, printer_lock)
  \/ Between(p, Rest6(a, b), {a, printer_lock})

Taking(p, a, b) ==
  \/ Inside(p, Rest5(a, b), {}, a)
  \/ Between(p, Rest5(a, b), {a})
  \/ Inside(p, Rest4(a, b), {a}, b)
  \/ Between(p, Rest4(a, b), {a, b})
  \/ Inside(p, Rest3(a, b), {a, b}, printer_lock)

Returning(p, a, b) ==
  \/ Between(p, Rest3(a, b), {a, b, printer_lock})
  \/ Between(p, Rest2(a, b), {a, b})
  \/ Between(p, Rest1(a), {a})

Nested(p, a, b) == Taking(p, a, b) \/ Returning(p, a, b)

Philosopher(p)  == p \in User /\ (Thinking(p) \/ Nested(p, right(p), left(p)))
WorkerAt(p, a, b) == Starting(p, a, b) \/ Nested(p, a, b)

\* The calls a process has to make say which locks it holds and waits for.
Place(p) ==
  \/ Free(p)
  \/ program = "philosophers" /\ Philosopher(p)
  \/ program = "workers" /\ p = 1 /\ WorkerAt(p, mylock(0), mylock(1))
  \/ program = "workers" /\ p = 2 /\ WorkerAt(p, mylock(1), mylock(0))

Table == DOMAIN plan = Pid /\ \A p \in Pid : Place(p)

TableInv == Intact => Table

\* Whoever waits does not have the printer, and with two locks in hand waits for nothing
\* but the printer.
Courteous ==
  \A p \in Pid : pc[p] \in {"spin", "got"} =>
    /\ printer_lock \notin held[p]
    /\ target[p] # printer_lock => \A k, l \in held[p] : k = l

----------------------------------------------------------------------------
\* The forks of a philosopher: the one of its number, and that of the one before it,
\* around the table.
LEMMA ForkFacts ==
  ASSUME NEW p \in User
  PROVE  /\ p \in 1 .. N /\ p \in Pid /\ p # NULLPROC
         /\ right(p) = p
         /\ left(p) = (IF p = 1 THEN N ELSE p - 1)
         /\ right(p) \in Lock /\ left(p) \in Lock /\ printer_lock \in Lock
         /\ printer_lock # right(p) /\ printer_lock # left(p) /\ right(p) # left(p)
<1>1. N \in Nat /\ N > 2 /\ User = 1 .. N /\ Lock = 0 .. N /\ Pid = 0 .. N
  BY ClientsAssumption DEF User, Pid, Lock, NULLPROC
<1>2. p \in 1 .. N /\ p \in Int
  BY <1>1
<1>3. right(p) = p
  BY <1>2 DEF right, forks
<1>4. CASE p = 1
  <2>1. (N - (p - 1)) % N = 0
    BY <1>1, <1>4
  <2>2. left(p) = N
    BY <1>1, <2>1 DEF left, forks
  <2> QED BY <1>1, <1>2, <1>3, <1>4, <2>2 DEF printer_lock, NULLPROC
<1>5. CASE p # 1
  <2> PICK m \in Int : m = N - (p - 1)
    BY <1>1, <1>2
  <2>1. 0 <= m /\ m < N
    BY <1>1, <1>2, <1>5
  <2>2. m % N = m
    BY <1>1, <2>1
  <2>3. left(p) = p - 1
    BY <1>1, <1>2, <2>2 DEF left, forks
  <2> QED BY <1>1, <1>2, <1>3, <1>5, <2>3 DEF printer_lock, NULLPROC
<1> QED BY <1>4, <1>5

----------------------------------------------------------------------------
\* Every list is one of calls for locks there are.
AnyCall == [call : {"acquire", "release"}, l : Lock]
Calls   == Seq(AnyCall)

Joined(x, y) == x \o y

LEMMA CallTypes ==
  /\ \A l \in Lock : Call("acquire", l) \in AnyCall /\ Call("release", l) \in AnyCall
  /\ printer_lock \in Lock /\ mylock(0) \in Lock /\ mylock(1) \in Lock
<1>1. \A l \in Lock : Call("acquire", l) \in AnyCall /\ Call("release", l) \in AnyCall
  BY DEF Call, AnyCall
<1> QED BY <1>1, ClientsAssumption DEF printer_lock, mylock, Lock

\* A list with one call before it.
LEMMA AddFirst ==
  ASSUME NEW s \in Calls, NEW x \in AnyCall
  PROVE  /\ <<x>> \o s \in Calls /\ <<x>> \o s # <<>>
         /\ Head(<<x>> \o s) = x /\ Tail(<<x>> \o s) = s
<1> USE DEF Calls
<1> PICK t : t = <<x>> \o s
  OBVIOUS
<1>1. <<x>> \in Calls /\ Len(<<x>>) = 1 /\ <<x>>[1] = x /\ Len(s) \in Nat
  OBVIOUS
<1>2. /\ t \in Calls /\ Len(t) = 1 + Len(s) /\ t[1] = x
      /\ \A i \in 1 .. Len(s) : t[i + 1] = s[i]
  <2>1. /\ t \in Calls /\ Len(t) = 1 + Len(s)
        /\ \A i \in 1 .. 1 + Len(s) : t[i] = IF i <= 1 THEN x ELSE s[i - 1]
    BY <1>1, ConcatProperties
  <2>2. 1 \in 1 .. 1 + Len(s) /\ 1 <= 1
    BY <1>1
  <2>3. \A i \in 1 .. Len(s) : i + 1 \in 1 .. 1 + Len(s) /\ ~(i + 1 <= 1) /\ (i + 1) - 1 = i
    BY <1>1
  <2> QED BY ONLY <2>1, <2>2, <2>3
<1>3. t # <<>> /\ Head(t) = x
  BY <1>1, <1>2
<1>4. /\ Tail(t) \in Calls /\ Len(Tail(t)) = Len(s)
      /\ \A i \in 1 .. Len(Tail(t)) : Tail(t)[i] = s[i]
  BY <1>1, <1>2, <1>3
<1>5. Tail(t) = s
  BY ONLY <1>4, s \in Calls, SeqEqual
<1> QED BY <1>2, <1>3, <1>5

\* Lists of calls one after the other.
LEMMA ThreeInARow ==
  \A x, y, z \in Calls :
    Joined(x, y) \in Calls /\ Joined(Joined(x, y), z) = Joined(x, Joined(y, z))
<1> TAKE x, y, z \in Calls
<1>1. x \o y \in Calls
  BY ConcatProperties DEF Calls
<1>2. (x \o y) \o z = x \o (y \o z)
  BY ConcatAssociative DEF Calls
<1> QED BY ONLY <1>1, <1>2 DEF Joined

\* With, in front of something else.
LEMMA WithThen ==
  ASSUME NEW l \in Lock, NEW s \in Calls, NEW t \in Calls
  PROVE  /\ With(l, s) \in Calls
         /\ With(l, s) = <<Call("acquire", l)>> \o (s \o <<Call("release", l)>>)
         /\ With(l, s) \o t = <<Call("acquire", l)>> \o (s \o (<<Call("release", l)>> \o t))
<1> PICK A, R : A = <<Call("acquire", l)>> /\ R = <<Call("release", l)>>
  OBVIOUS
<1>1. A \in Calls /\ R \in Calls
  BY CallTypes DEF Calls
<1>2. /\ Joined(s, R) \in Calls /\ Joined(A, Joined(s, R)) \in Calls
      /\ Joined(Joined(A, s), R) = Joined(A, Joined(s, R))
  BY <1>1, ThreeInARow
<1>3. Joined(Joined(A, Joined(s, R)), t) = Joined(A, Joined(s, Joined(R, t)))
  BY <1>1, <1>2, ThreeInARow
<1> QED BY <1>2, <1>3 DEF Joined, With

LEMMA RestTypes ==
  ASSUME NEW a \in Lock, NEW b \in Lock
  PROVE  /\ Rest1(a) \in Calls /\ Rest2(a, b) \in Calls
         /\ Rest3(a, b) \in Calls /\ Rest4(a, b) \in Calls
         /\ Rest5(a, b) \in Calls /\ Rest6(a, b) \in Calls
         /\ Rest7(a, b) \in Calls /\ ThinkEnd \in Calls
<1>1. Rest1(a) \in Calls /\ ThinkEnd \in Calls
  BY CallTypes DEF Rest1, ThinkEnd, Calls
<1>2. Rest2(a, b) \in Calls
  BY <1>1, CallTypes, AddFirst DEF Rest2
<1>3. Rest3(a, b) \in Calls
  BY <1>2, CallTypes, AddFirst DEF Rest3
<1>4. Rest4(a, b) \in Calls
  BY <1>3, CallTypes, AddFirst DEF Rest4
<1>5. Rest5(a, b) \in Calls
  BY <1>4, CallTypes, AddFirst DEF Rest5
<1>6. Rest6(a, b) \in Calls
  BY <1>5, CallTypes, AddFirst DEF Rest6
<1>7. Rest7(a, b) \in Calls
  BY <1>6, CallTypes, AddFirst DEF Rest7
<1> QED BY <1>1, <1>2, <1>3, <1>4, <1>5, <1>6, <1>7

\* From each point of a turn, the next call and what remains after it.
LEMMA NextCalls ==
  ASSUME NEW a \in Lock, NEW b \in Lock
  PROVE  /\ Head(Rest8(a, b)) = Call("acquire", a) /\ Tail(Rest8(a, b)) = Rest7(a, b)
         /\ Head(Rest7(a, b)) = Call("acquire", printer_lock) /\ Tail(Rest7(a, b)) = Rest6(a, b)
         /\ Head(Rest6(a, b)) = Call("release", printer_lock) /\ Tail(Rest6(a, b)) = Rest5(a, b)
         /\ Head(Rest5(a, b)) = Call("acquire", b) /\ Tail(Rest5(a, b)) = Rest4(a, b)
         /\ Head(Rest4(a, b)) = Call("acquire", printer_lock) /\ Tail(Rest4(a, b)) = Rest3(a, b)
         /\ Head(Rest3(a, b)) = Call("release", printer_lock) /\ Tail(Rest3(a, b)) = Rest2(a, b)
         /\ Head(Rest2(a, b)) = Call("release", b) /\ Tail(Rest2(a, b)) = Rest1(a)
         /\ Head(Rest1(a)) = Call("release", a) /\ Tail(Rest1(a)) = <<>>
         /\ Head(ThinkEnd) = Call("release", printer_lock) /\ Tail(ThinkEnd) = <<>>
<1>2. Head(Rest2(a, b)) = Call("release", b) /\ Tail(Rest2(a, b)) = Rest1(a)
  BY CallTypes, RestTypes, AddFirst DEF Rest2
<1>3. Head(Rest3(a, b)) = Call("release", printer_lock) /\ Tail(Rest3(a, b)) = Rest2(a, b)
  BY CallTypes, RestTypes, AddFirst DEF Rest3
<1>4. Head(Rest4(a, b)) = Call("acquire", printer_lock) /\ Tail(Rest4(a, b)) = Rest3(a, b)
  BY CallTypes, RestTypes, AddFirst DEF Rest4
<1>5. Head(Rest5(a, b)) = Call("acquire", b) /\ Tail(Rest5(a, b)) = Rest4(a, b)
  BY CallTypes, RestTypes, AddFirst DEF Rest5
<1>6. Head(Rest6(a, b)) = Call("release", printer_lock) /\ Tail(Rest6(a, b)) = Rest5(a, b)
  BY CallTypes, RestTypes, AddFirst DEF Rest6
<1>7. Head(Rest7(a, b)) = Call("acquire", printer_lock) /\ Tail(Rest7(a, b)) = Rest6(a, b)
  BY CallTypes, RestTypes, AddFirst DEF Rest7
<1>8. Head(Rest8(a, b)) = Call("acquire", a) /\ Tail(Rest8(a, b)) = Rest7(a, b)
  BY CallTypes, RestTypes, AddFirst DEF Rest8
<1>9. \A x : Head(<<x>>) = x /\ Tail(<<x>>) = <<>>
  OBVIOUS
<1> QED BY <1>2, <1>3, <1>4, <1>5, <1>6, <1>7, <1>8, <1>9 DEF Rest1, ThinkEnd

LEMMA SomethingLeft ==
  ASSUME NEW a \in Lock, NEW b \in Lock
  PROVE  /\ Rest1(a) # <<>> /\ Rest2(a, b) # <<>> /\ Rest3(a, b) # <<>> /\ Rest4(a, b) # <<>>
         /\ Rest5(a, b) # <<>> /\ Rest6(a, b) # <<>> /\ Rest7(a, b) # <<>> /\ Rest8(a, b) # <<>>
         /\ Rest8(a, b) \in Calls
<1>1. Rest1(a) # <<>>
  BY DEF Rest1
<1>2. /\ Rest2(a, b) # <<>> /\ Rest3(a, b) # <<>> /\ Rest4(a, b) # <<>> /\ Rest5(a, b) # <<>>
      /\ Rest6(a, b) # <<>> /\ Rest7(a, b) # <<>> /\ Rest8(a, b) # <<>>
      /\ Rest8(a, b) \in Calls
  BY CallTypes, RestTypes, AddFirst DEF Rest2, Rest3, Rest4, Rest5, Rest6, Rest7, Rest8
<1> QED BY <1>1, <1>2

\* The turns of the programs: work under the printer lock, alone or before the rest.
LEMMA Turns ==
  /\ Work \in Calls /\ Work = <<Call("acquire", printer_lock)>> \o ThinkEnd
  /\ \A t \in Calls :
       Work \o t = <<Call("acquire", printer_lock)>> \o (<<Call("release", printer_lock)>> \o t)
<1>1. <<>> \in Calls /\ printer_lock \in Lock /\ ThinkEnd \in Calls
  BY CallTypes DEF ThinkEnd, Calls
<1>2. \A s \in Calls : <<>> \o s = s
  BY ConcatEmptySeq DEF Calls
<1>3. Work \in Calls /\ Work = <<Call("acquire", printer_lock)>> \o ThinkEnd
  <2>1. /\ With(printer_lock, <<>>) \in Calls
        /\ With(printer_lock, <<>>)
             = <<Call("acquire", printer_lock)>> \o (<<>> \o <<Call("release", printer_lock)>>)
    BY <1>1, WithThen
  <2>2. <<>> \o ThinkEnd = ThinkEnd
    BY ONLY <1>1, <1>2
  <2> QED BY <2>1, <2>2 DEF Work, ThinkEnd
<1>4. ASSUME NEW t \in Calls
      PROVE  Work \o t = <<Call("acquire", printer_lock)>>
                           \o (<<Call("release", printer_lock)>> \o t)
  <2> PICK u : u = <<Call("release", printer_lock)>> \o t
    OBVIOUS
  <2>1. u \in Calls
    BY <1>1, <1>4, CallTypes, AddFirst
  <2>2. <<>> \o u = u
    BY ONLY <1>2, <2>1
  <2>3. Work \o t = <<Call("acquire", printer_lock)>> \o (<<>> \o u)
    BY <1>1, <1>4, WithThen DEF Work
  <2> QED BY <2>2, <2>3
<1> QED BY <1>3, <1>4

\* Two locks, one within the other, and the printer under both.
LEMMA NestedTurn ==
  ASSUME NEW a \in Lock, NEW b \in Lock
  PROVE  /\ With(b, Work) \in Calls /\ With(b, Work) \o Rest1(a) = Rest5(a, b)
         /\ With(a, With(b, Work)) = <<Call("acquire", a)>> \o Rest5(a, b)
         /\ With(a, Work \o With(b, Work)) = Rest8(a, b)
<1>1. With(b, Work) \in Calls /\ With(b, Work) \o Rest1(a) = Rest5(a, b)
  <2>1. With(b, Work) \o Rest1(a) = <<Call("acquire", b)>> \o (Work \o Rest2(a, b))
    BY Turns, RestTypes, WithThen DEF Rest2
  <2>2. Work \o Rest2(a, b) = Rest4(a, b)
    BY Turns, RestTypes DEF Rest3, Rest4
  <2> QED BY <2>1, <2>2, Turns, RestTypes, WithThen DEF Rest5
<1>2. With(a, With(b, Work)) = <<Call("acquire", a)>> \o Rest5(a, b)
  <2> PICK V : V = With(b, Work)
    OBVIOUS
  <2>1. With(a, V) = <<Call("acquire", a)>> \o (V \o <<Call("release", a)>>)
    BY <1>1, WithThen
  <2>2. V \o <<Call("release", a)>> = Rest5(a, b)
    BY <1>1 DEF Rest1
  <2> QED BY <2>1, <2>2
<1>3. With(a, Work \o With(b, Work)) = Rest8(a, b)
  <2> PICK W, V : W = Work /\ V = With(b, Work)
    OBVIOUS
  <2>1. W \in Calls /\ V \in Calls /\ Rest1(a) \in Calls
    BY <1>1, Turns, RestTypes
  <2>2. (W \o V) \o Rest1(a) = W \o (V \o Rest1(a)) /\ W \o V \in Calls
    <3>1. /\ Joined(Joined(W, V), Rest1(a)) = Joined(W, Joined(V, Rest1(a)))
          /\ Joined(W, V) \in Calls
      BY <2>1, ThreeInARow
    <3> QED BY ONLY <3>1 DEF Joined
  <2>3. W \o Rest5(a, b) = Rest7(a, b)
    BY Turns, RestTypes DEF Rest6, Rest7
  <2>4. With(a, W \o V) = <<Call("acquire", a)>> \o ((W \o V) \o Rest1(a))
    BY <2>1, <2>2, WithThen DEF Rest1
  <2> QED BY <1>1, <2>2, <2>3, <2>4 DEF Rest8
<1> QED BY <1>1, <1>2, <1>3

\* The first call of a turn of a philosopher.
LEMMA FirstCalls ==
  ASSUME NEW p \in User
  PROVE  /\ Head(Think(p)) = Call("acquire", printer_lock) /\ Tail(Think(p)) = ThinkEnd
         /\ Head(Eat(p)) = Call("acquire", right(p)) /\ Tail(Eat(p)) = Rest5(right(p), left(p))
         /\ Think(p) # <<>> /\ Eat(p) # <<>>
         /\ Think(p) \in Calls /\ Eat(p) \in Calls
<1>1. right(p) \in Lock /\ left(p) \in Lock
  BY ForkFacts
<1>2. Think(p) = <<Call("acquire", printer_lock)>> \o ThinkEnd
  BY Turns DEF Think
<1>3. Eat(p) = <<Call("acquire", right(p))>> \o Rest5(right(p), left(p))
  BY <1>1, NestedTurn DEF Eat
<1>4. /\ ThinkEnd \in Calls /\ Rest5(right(p), left(p)) \in Calls
      /\ Call("acquire", printer_lock) \in AnyCall /\ Call("acquire", right(p)) \in AnyCall
  BY <1>1, RestTypes, CallTypes
<1>5. /\ Head(Think(p)) = Call("acquire", printer_lock) /\ Tail(Think(p)) = ThinkEnd
      /\ Think(p) # <<>> /\ Think(p) \in Calls
  BY <1>2, <1>4, AddFirst
<1>6. /\ Head(Eat(p)) = Call("acquire", right(p)) /\ Tail(Eat(p)) = Rest5(right(p), left(p))
      /\ Eat(p) # <<>> /\ Eat(p) \in Calls
  BY <1>3, <1>4, AddFirst
<1> QED BY <1>5, <1>6

----------------------------------------------------------------------------
\* A process about whom nothing changes is where it was.
LEMMA Stays ==
  ASSUME NEW p, Place(p), program' = program,
         plan'[p] = plan[p], pc'[p] = pc[p], held'[p] = held[p], target'[p] = target[p]
  PROVE  Place(p)'
<1>1. /\ \A s, h : Between(p, s, h) => Between(p, s, h)'
      /\ \A s, h, l : Inside(p, s, h, l) => Inside(p, s, h, l)'
  BY DEF Between, Inside
<1>2. \A a, b : /\ Starting(p, a, b) => Starting(p, a, b)'
                /\ Taking(p, a, b) => Taking(p, a, b)'
                /\ Returning(p, a, b) => Returning(p, a, b)'
  BY <1>1 DEF Starting, Taking, Returning, Rest1, Rest2, Rest3, Rest4, Rest5, Rest6, Rest7, Rest8
<1>3. Thinking(p) => Thinking(p)'
  BY <1>1 DEF Thinking, ThinkEnd
<1> QED BY <1>2, <1>3 DEF Place, Free, Philosopher, WorkerAt, Nested

\* A step that moves one process along keeps the table.
LEMMA OneMoves ==
  ASSUME NEW c \in Pid, Table, DOMAIN plan' = Pid, Place(c)', program' = program,
         \A p \in Pid \ {c} : /\ plan'[p] = plan[p] /\ pc'[p] = pc[p]
                              /\ held'[p] = held[p] /\ target'[p] = target[p]
  PROVE  Table'
<1>1. ASSUME NEW p \in Pid PROVE Place(p)'
  <2>1. CASE p = c
    BY <2>1
  <2>2. CASE p # c
    BY <2>2, Stays DEF Table
  <2> QED BY <2>1, <2>2
<1> QED BY <1>1 DEF Table

\* c, with the locks h, begins the first call of s.
Called(c, s, h) ==
  \A l : /\ Head(s) = Call("acquire", l) => Inside(c, Tail(s), h, l)'
         /\ Head(s) = Call("release", l) => Between(c, Tail(s), h \ {l})'

LEMMA CallStep ==
  ASSUME LocksInv, DOMAIN plan = Pid, MakeCall, NEW c, c = currpid, NEW h, h = held[c]
  PROVE  /\ c \in Pid /\ pc[c] = "run" /\ DOMAIN plan' = Pid
         /\ \E s \in Plans : Called(c, s, h)
         /\ \A p \in Pid \ {c} : /\ plan'[p] = plan[p] /\ pc'[p] = pc[p]
                                 /\ held'[p] = held[p] /\ target'[p] = target[p]
<1>0. c \in Pid /\ pc[c] = "run"
  BY DEF MakeCall, AcquireRequest, Release, Me, LocksInv, OwnTypes
<1>1. PICK s \in Plans :
        /\ plan' = [plan EXCEPT ![c] = Tail(s)]
        /\ \/ Head(s).call = "acquire" /\ AcquireRequest(Head(s).l)
           \/ Head(s).call = "release" /\ Release(Head(s).l)
  BY DEF MakeCall
<1>2. PICK l :
        /\ Head(s).l = l /\ plan' = [plan EXCEPT ![c] = Tail(s)]
        /\ \/ Head(s).call = "acquire" /\ AcquireRequest(l)
           \/ Head(s).call = "release" /\ Release(l)
  BY <1>1
<1>3. /\ DOMAIN plan' = Pid /\ plan'[c] = Tail(s)
      /\ \A p \in Pid \ {c} : plan'[p] = plan[p]
  BY <1>0, <1>2
<1>4. \A p \in Pid \ {c} : pc'[p] = pc[p] /\ held'[p] = held[p] /\ target'[p] = target[p]
  BY <1>2 DEF AcquireRequest, Release, LocksInv, OwnTypes
<1>5. ASSUME NEW k, Head(s) = Call("acquire", k) PROVE Inside(c, Tail(s), h, k)'
  <2>1. k = l /\ AcquireRequest(l)
    BY <1>2, <1>5 DEF Call
  <2> QED BY <1>0, <1>3, <2>1 DEF AcquireRequest, LocksInv, OwnTypes, Inside
<1>6. ASSUME NEW k, Head(s) = Call("release", k) PROVE Between(c, Tail(s), h \ {k})'
  <2>1. k = l /\ Release(l)
    BY <1>2, <1>6 DEF Call
  <2> QED BY <1>0, <1>3, <2>1 DEF Release, LocksInv, OwnTypes, Between
<1>7. Called(c, s, h)
  BY <1>5, <1>6 DEF Called
<1> QED BY <1>0, <1>3, <1>4, <1>7

\* The calls of a process that takes one lock and then another.
LEMMA NestedCall ==
  ASSUME NEW c, NEW a \in Lock, NEW b \in Lock, NEW h, h = held[c], pc[c] = "run",
         NEW t, t = plan[c], Called(c, t, h),
         a # b, a # printer_lock, b # printer_lock, Nested(c, a, b)
  PROVE  Nested(c, a, b)' \/ Between(c, <<>>, {})'
<1>a. ASSUME NEW s, NEW l, Between(c, s, h), Head(s) = Call("acquire", l)
      PROVE  Inside(c, Tail(s), h, l)'
  BY <1>a DEF Called, Between
<1>r. ASSUME NEW s, NEW l, Between(c, s, h), Head(s) = Call("release", l)
      PROVE  Between(c, Tail(s), h \ {l})'
  BY <1>r DEF Called, Between
<1>1. CASE Between(c, Rest5(a, b), {a})
  <2>1. h = {a} /\ Between(c, Rest5(a, b), h)
    BY <1>1 DEF Between
  <2>2. Head(Rest5(a, b)) = Call("acquire", b) /\ Tail(Rest5(a, b)) = Rest4(a, b)
    BY NextCalls
  <2>3. Inside(c, Rest4(a, b), {a}, b)'
    BY <1>a, <2>1, <2>2 DEF Inside
  <2> QED BY <2>3 DEF Nested, Taking
<1>2. CASE Between(c, Rest4(a, b), {a, b})
  <2>1. h = {a, b} /\ Between(c, Rest4(a, b), h)
    BY <1>2 DEF Between
  <2>2. Head(Rest4(a, b)) = Call("acquire", printer_lock) /\ Tail(Rest4(a, b)) = Rest3(a, b)
    BY NextCalls
  <2>3. Inside(c, Rest3(a, b), {a, b}, printer_lock)'
    BY <1>a, <2>1, <2>2 DEF Inside
  <2> QED BY <2>3 DEF Nested, Taking
<1>3. CASE Between(c, Rest3(a, b), {a, b, printer_lock})
  <2>1. h = {a, b, printer_lock} /\ Between(c, Rest3(a, b), h)
    BY <1>3 DEF Between
  <2>2. Head(Rest3(a, b)) = Call("release", printer_lock) /\ Tail(Rest3(a, b)) = Rest2(a, b)
    BY NextCalls
  <2>3. h \ {printer_lock} = {a, b}
    BY <2>1
  <2>4. Between(c, Rest2(a, b), {a, b})'
    BY <1>r, <2>1, <2>2, <2>3 DEF Between
  <2> QED BY <2>4 DEF Nested, Returning
<1>4. CASE Between(c, Rest2(a, b), {a, b})
  <2>1. h = {a, b} /\ Between(c, Rest2(a, b), h)
    BY <1>4 DEF Between
  <2>2. Head(Rest2(a, b)) = Call("release", b) /\ Tail(Rest2(a, b)) = Rest1(a)
    BY NextCalls
  <2>3. h \ {b} = {a}
    BY <2>1
  <2>4. Between(c, Rest1(a), {a})'
    BY <1>r, <2>1, <2>2, <2>3 DEF Between
  <2> QED BY <2>4 DEF Nested, Returning
<1>5. CASE Between(c, Rest1(a), {a})
  <2>1. h = {a} /\ Between(c, Rest1(a), h)
    BY <1>5 DEF Between
  <2>2. Head(Rest1(a)) = Call("release", a) /\ Tail(Rest1(a)) = <<>>
    BY NextCalls
  <2>3. h \ {a} = {}
    BY <2>1
  <2>4. Between(c, <<>>, {})'
    BY <1>r, <2>1, <2>2, <2>3 DEF Between
  <2> QED BY <2>4
<1> QED BY <1>1, <1>2, <1>3, <1>4, <1>5 DEF Nested, Taking, Returning, Inside

\* The calls of a worker under its first lock.
LEMMA StartingCall ==
  ASSUME NEW c, NEW a \in Lock, NEW b \in Lock, NEW h, h = held[c], pc[c] = "run",
         NEW t, t = plan[c], Called(c, t, h),
         a # b, a # printer_lock, b # printer_lock, Starting(c, a, b)
  PROVE  WorkerAt(c, a, b)'
<1>a. ASSUME NEW s, NEW l, Between(c, s, h), Head(s) = Call("acquire", l)
      PROVE  Inside(c, Tail(s), h, l)'
  BY <1>a DEF Called, Between
<1>r. ASSUME NEW s, NEW l, Between(c, s, h), Head(s) = Call("release", l)
      PROVE  Between(c, Tail(s), h \ {l})'
  BY <1>r DEF Called, Between
<1>1. CASE Between(c, Rest8(a, b), {})
  <2>1. h = {} /\ Between(c, Rest8(a, b), h)
    BY <1>1 DEF Between
  <2>2. Head(Rest8(a, b)) = Call("acquire", a) /\ Tail(Rest8(a, b)) = Rest7(a, b)
    BY NextCalls
  <2>3. Inside(c, Rest7(a, b), {}, a)'
    BY <1>a, <2>1, <2>2 DEF Inside
  <2> QED BY <2>3 DEF WorkerAt, Starting
<1>2. CASE Between(c, Rest7(a, b), {a})
  <2>1. h = {a} /\ Between(c, Rest7(a, b), h)
    BY <1>2 DEF Between
  <2>2. Head(Rest7(a, b)) = Call("acquire", printer_lock) /\ Tail(Rest7(a, b)) = Rest6(a, b)
    BY NextCalls
  <2>3. Inside(c, Rest6(a, b), {a}, printer_lock)'
    BY <1>a, <2>1, <2>2 DEF Inside
  <2> QED BY <2>3 DEF WorkerAt, Starting
<1>3. CASE Between(c, Rest6(a, b), {a, printer_lock})
  <2>1. h = {a, printer_lock} /\ Between(c, Rest6(a, b), h)
    BY <1>3 DEF Between
  <2>2. Head(Rest6(a, b)) = Call("release", printer_lock) /\ Tail(Rest6(a, b)) = Rest5(a, b)
    BY NextCalls
  <2>3. h \ {printer_lock} = {a}
    BY <2>1
  <2>4. Between(c, Rest5(a, b), {a})'
    BY <1>r, <2>1, <2>2, <2>3 DEF Between
  <2> QED BY <2>4 DEF WorkerAt, Nested, Taking
<1> QED BY <1>1, <1>2, <1>3 DEF Starting, Inside

\* The locks of a process are two, and the printer is neither.
LEMMA LockPairs ==
  /\ \A p \in User : /\ right(p) # left(p) /\ right(p) # printer_lock /\ left(p) # printer_lock
                      /\ right(p) \in Lock /\ left(p) \in Lock
  /\ mylock(0) \in Lock /\ mylock(1) \in Lock
  /\ mylock(0) # mylock(1) /\ mylock(0) # printer_lock /\ mylock(1) # printer_lock
<1>1. mylock(0) # mylock(1) /\ mylock(0) # printer_lock /\ mylock(1) # printer_lock
  BY DEF mylock, printer_lock
<1> QED BY <1>1, ForkFacts, CallTypes

\* The call a process makes is the next of its turn, or the first of a new one.
LEMMA CallKeepsTable ==
  ASSUME LocksInv, Table, MakeCall, program' = program
  PROVE  Table'
<1> PICK c, h, t : c = currpid /\ h = held[c] /\ t = plan[c]
  OBVIOUS
<1>1. /\ c \in Pid /\ pc[c] = "run" /\ DOMAIN plan' = Pid
      /\ \A p \in Pid \ {c} : /\ plan'[p] = plan[p] /\ pc'[p] = pc[p]
                              /\ held'[p] = held[p] /\ target'[p] = target[p]
  BY CallStep DEF Table
<1>2. PICK s \in Plans : Called(c, s, h)
  BY CallStep DEF Table
<1>3. Place(c)
  BY <1>1 DEF Table
<1>4. t # <<>> => s = t
  BY <1>2 DEF Plans
<1> SUFFICES Place(c)'
  BY <1>1, OneMoves
<1>5. CASE Free(c)
  <2>1. h = {} /\ program = "philosophers" /\ c \in User /\ s \in {Think(c), Eat(c)}
    BY <1>1, <1>2, <1>5 DEF Free, Plans, User
  <2>2. CASE s = Think(c)
    <3>1. Head(s) = Call("acquire", printer_lock) /\ Tail(s) = ThinkEnd
      BY <2>1, <2>2, FirstCalls
    <3>2. Inside(c, ThinkEnd, {}, printer_lock)'
      BY <1>2, <2>1, <3>1 DEF Called, Inside
    <3>3. Thinking(c)'
      BY <3>2 DEF Thinking
    <3> QED BY <2>1, <3>3 DEF Place, Philosopher
  <2>3. CASE s = Eat(c)
    <3> PICK a, b : a = right(c) /\ b = left(c)
      OBVIOUS
    <3>1. Head(s) = Call("acquire", a) /\ Tail(s) = Rest5(a, b)
      BY <2>1, <2>3, FirstCalls
    <3>2. Inside(c, Rest5(a, b), {}, a)'
      BY <1>2, <2>1, <3>1 DEF Called, Inside
    <3>3. Nested(c, a, b)'
      BY <3>2 DEF Nested, Taking
    <3> QED BY <2>1, <3>3 DEF Place, Philosopher, right, left
  <2> QED BY <2>1, <2>2, <2>3
<1>6. ASSUME NEW a \in Lock, NEW b \in Lock, a # b, a # printer_lock, b # printer_lock,
             Nested(c, a, b)
      PROVE  (Nested(c, a, b) \/ Free(c))'
  <2>1. t # <<>>
    BY <1>1, <1>6, SomethingLeft DEF Nested, Taking, Returning, Between, Inside
  <2>2. Called(c, t, h)
    BY <1>2, <1>4, <2>1
  <2>3. Nested(c, a, b)' \/ Between(c, <<>>, {})'
    BY ONLY <1>1, <1>6, <2>2, h = held[c], t = plan[c], NestedCall
  <2> QED BY <2>3 DEF Between, Free
<1>7. ASSUME NEW a \in Lock, NEW b \in Lock, a # b, a # printer_lock, b # printer_lock,
             WorkerAt(c, a, b)
      PROVE  (WorkerAt(c, a, b) \/ Free(c))'
  <2>1. CASE Starting(c, a, b)
    <3>1. t # <<>>
      BY <1>1, <2>1, SomethingLeft DEF Starting, Between, Inside
    <3>2. Called(c, t, h)
      BY <1>2, <1>4, <3>1
    <3>3. WorkerAt(c, a, b)'
      BY ONLY <1>1, <1>7, <2>1, <3>2, h = held[c], t = plan[c], StartingCall
    <3> QED BY <3>3
  <2>2. CASE Nested(c, a, b)
    BY <1>6, <1>7, <2>2 DEF WorkerAt
  <2> QED BY <1>7, <2>1, <2>2 DEF WorkerAt
<1>8. CASE program = "philosophers" /\ Philosopher(c)
  <2>1. c \in User
    BY <1>8 DEF Philosopher
  <2>2. CASE Thinking(c)
    <3>1. t = ThinkEnd /\ h = {printer_lock}
      BY <1>1, <2>2 DEF Thinking, Between, Inside
    <3>2. s = t
      BY <1>4, <3>1 DEF ThinkEnd
    <3>3. Head(s) = Call("release", printer_lock) /\ Tail(s) = <<>>
      BY <3>1, <3>2, CallTypes, NextCalls
    <3>4. Between(c, <<>>, {})'
      BY <1>2, <3>1, <3>3 DEF Called, Between
    <3> QED BY <3>4 DEF Between, Free, Place
  <2>3. CASE Nested(c, right(c), left(c))
    <3> PICK a, b : a = right(c) /\ b = left(c)
      OBVIOUS
    <3>1. (Nested(c, a, b) \/ Free(c))'
      BY <1>6, <2>1, <2>3, LockPairs
    <3> QED BY <1>8, <2>1, <3>1 DEF Place, Philosopher, right, left
  <2> QED BY <1>8, <2>2, <2>3 DEF Philosopher
<1>9. CASE program = "workers" /\ c = 1 /\ WorkerAt(c, mylock(0), mylock(1))
  <2> PICK a, b : a = mylock(0) /\ b = mylock(1)
    OBVIOUS
  <2>1. (WorkerAt(c, a, b) \/ Free(c))'
    BY <1>7, <1>9, LockPairs
  <2> QED BY <1>9, <2>1 DEF Place, mylock
<1>10. CASE program = "workers" /\ c = 2 /\ WorkerAt(c, mylock(1), mylock(0))
  <2> PICK a, b : a = mylock(1) /\ b = mylock(0)
    OBVIOUS
  <2>1. (WorkerAt(c, a, b) \/ Free(c))'
    BY <1>7, <1>10, LockPairs
  <2> QED BY <1>10, <2>1 DEF Place, mylock
<1> QED BY <1>3, <1>5, <1>8, <1>9, <1>10 DEF Place

\* Inside acquire, the step that takes the lock, and the one that returns with it.
Got(c) ==
  \A s, h, l : Inside(c, s, h, l) =>
    Inside(c, s, h, l)' \/ (\A k : k = h \union {l} => Between(c, s, k)')

LEMMA AcquireStep ==
  ASSUME LocksInv, DOMAIN plan = Pid, InCall, NEW c, c = currpid
  PROVE  /\ c \in Pid /\ pc[c] \in {"spin", "got"} /\ UNCHANGED plan /\ Got(c)
         /\ \A p \in Pid \ {c} : pc'[p] = pc[p] /\ held'[p] = held[p] /\ target'[p] = target[p]
<1>0. c \in Pid /\ pc[c] \in {"spin", "got"} /\ UNCHANGED plan
  BY DEF InCall, TestAndSet, AcquireReturn, Me, LocksInv, OwnTypes
<1>1. \A p \in Pid \ {c} : pc'[p] = pc[p] /\ held'[p] = held[p] /\ target'[p] = target[p]
  BY DEF InCall, TestAndSet, AcquireReturn, LocksInv, OwnTypes
<1>2. ASSUME NEW s, NEW h, NEW l, Inside(c, s, h, l), TestAndSet
      PROVE  Inside(c, s, h, l)'
  BY <1>0, <1>2 DEF Inside, TestAndSet, LocksInv, OwnTypes
<1>3. ASSUME NEW s, NEW h, NEW l, Inside(c, s, h, l), AcquireReturn
      PROVE  \A k : k = h \union {l} => Between(c, s, k)'
  BY <1>0, <1>3 DEF Inside, Between, AcquireReturn, LocksInv, OwnTypes
<1>4. Got(c)
  BY <1>2, <1>3 DEF InCall, Got
<1> QED BY <1>0, <1>1, <1>4

\* A lock that is got is held from then on.
LEMMA NestedGets ==
  ASSUME NEW c, NEW a, NEW b, pc[c] \in {"spin", "got"}, Got(c)
  PROVE  /\ Nested(c, a, b) => Nested(c, a, b)'
         /\ Starting(c, a, b) => Starting(c, a, b)'
         /\ Thinking(c) => Thinking(c)'
<1>1. ASSUME NEW s, NEW h, NEW l, NEW k, k = h \union {l}, Inside(c, s, h, l)
      PROVE  Inside(c, s, h, l)' \/ Between(c, s, k)'
  BY <1>1 DEF Got
<1>2. /\ {a} = {} \union {a} /\ {a, b} = {a} \union {b}
      /\ {a, b, printer_lock} = {a, b} \union {printer_lock}
      /\ {a, printer_lock} = {a} \union {printer_lock}
      /\ {printer_lock} = {} \union {printer_lock}
  OBVIOUS
<1>3. ASSUME Thinking(c) PROVE Thinking(c)'
  <2>1. Inside(c, ThinkEnd, {}, printer_lock)
    BY <1>3 DEF Thinking, Between
  <2>2. Inside(c, ThinkEnd, {}, printer_lock)' \/ Between(c, ThinkEnd, {printer_lock})'
    BY <1>1, <1>2, <2>1
  <2> QED BY <2>2 DEF Thinking
<1>4. ASSUME Starting(c, a, b) PROVE Starting(c, a, b)'
  <2>1. CASE Inside(c, Rest7(a, b), {}, a)
    <3>1. Inside(c, Rest7(a, b), {}, a)' \/ Between(c, Rest7(a, b), {a})'
      BY <1>1, <1>2, <2>1
    <3> QED BY <3>1 DEF Starting
  <2>2. CASE Inside(c, Rest6(a, b), {a}, printer_lock)
    <3>1. \/ Inside(c, Rest6(a, b), {a}, printer_lock)'
          \/ Between(c, Rest6(a, b), {a, printer_lock})'
      BY <1>1, <1>2, <2>2
    <3> QED BY <3>1 DEF Starting
  <2> QED BY <1>4, <2>1, <2>2 DEF Starting, Between
<1>5. ASSUME Nested(c, a, b) PROVE Nested(c, a, b)'
  <2>1. CASE Inside(c, Rest5(a, b), {}, a)
    <3>1. Inside(c, Rest5(a, b), {}, a)' \/ Between(c, Rest5(a, b), {a})'
      BY <1>1, <1>2, <2>1
    <3> QED BY <3>1 DEF Nested, Taking
  <2>2. CASE Inside(c, Rest4(a, b), {a}, b)
    <3>1. Inside(c, Rest4(a, b), {a}, b)' \/ Between(c, Rest4(a, b), {a, b})'
      BY <1>1, <1>2, <2>2
    <3> QED BY <3>1 DEF Nested, Taking
  <2>3. CASE Inside(c, Rest3(a, b), {a, b}, printer_lock)
    <3>1. \/ Inside(c, Rest3(a, b), {a, b}, printer_lock)'
          \/ Between(c, Rest3(a, b), {a, b, printer_lock})'
      BY <1>1, <1>2, <2>3
    <3> QED BY <3>1 DEF Nested, Taking, Returning
  <2> QED BY <1>5, <2>1, <2>2, <2>3 DEF Nested, Taking, Returning, Between
<1> QED BY <1>3, <1>4, <1>5

LEMMA AcquireKeepsTable ==
  ASSUME LocksInv, Table, InCall, program' = program
  PROVE  Table'
<1> PICK c : c = currpid
  OBVIOUS
<1>1. /\ c \in Pid /\ pc[c] \in {"spin", "got"} /\ UNCHANGED plan /\ Got(c)
      /\ \A p \in Pid \ {c} : pc'[p] = pc[p] /\ held'[p] = held[p] /\ target'[p] = target[p]
  BY AcquireStep DEF Table
<1>2. Place(c) /\ ~Free(c)
  <2>1. CASE Free(c)
    <3>1. plan[c] = <<>> /\ pc[c] \in {"run", "dead"}
      BY <2>1 DEF Free
    <3> QED BY <1>1, <3>1
  <2> QED BY <1>1, <2>1 DEF Table
<1>3. Place(c)'
  <2>1. ASSUME NEW a, NEW b PROVE Nested(c, a, b) => Nested(c, a, b)'
    BY <1>1, NestedGets
  <2>2. ASSUME NEW a, NEW b, WorkerAt(c, a, b) PROVE WorkerAt(c, a, b)'
    BY <1>1, <2>2, NestedGets DEF WorkerAt
  <2>3. Thinking(c) => Thinking(c)'
    BY <1>1, NestedGets
  <2>4. CASE program = "philosophers" /\ Philosopher(c)
    <3> PICK a, b : a = right(c) /\ b = left(c)
      OBVIOUS
    <3>1. Thinking(c)' \/ Nested(c, a, b)'
      BY <2>1, <2>3, <2>4 DEF Philosopher
    <3> QED BY <2>4, <3>1 DEF Place, Philosopher, right, left
  <2>5. CASE program = "workers" /\ c = 1 /\ WorkerAt(c, mylock(0), mylock(1))
    <3> PICK a, b : a = mylock(0) /\ b = mylock(1)
      OBVIOUS
    <3> QED BY <2>2, <2>5 DEF Place, mylock
  <2>6. CASE program = "workers" /\ c = 2 /\ WorkerAt(c, mylock(1), mylock(0))
    <3> PICK a, b : a = mylock(1) /\ b = mylock(0)
      OBVIOUS
    <3> QED BY <2>2, <2>6 DEF Place, mylock
  <2> QED BY <1>2, <2>4, <2>5, <2>6 DEF Place
<1>4. DOMAIN plan' = Pid /\ \A p \in Pid : plan'[p] = plan[p]
  BY <1>1 DEF Table
<1> QED BY <1>1, <1>3, <1>4, OneMoves

\* A process that has no call left to make ends, and a philosopher has always one.
LEMMA ReturnKeepsTable ==
  ASSUME LocksInv, Table, Return, program' = program
  PROVE  Table'
<1> PICK c : c = currpid
  OBVIOUS
<1>1. /\ c \in Pid /\ pc[c] = "run" /\ UNCHANGED <<plan, held, target>>
      /\ pc' = pc \/ pc' = [pc EXCEPT ![c] = "dead"]
  BY DEF Return, Exit, Me, LocksInv, OwnTypes
<1>2. plan[c] = <<>>
  BY DEF Return, Plans
<1>3. Free(c)
  <2>1. ASSUME NEW a \in Lock, NEW b \in Lock PROVE ~Nested(c, a, b) /\ ~Starting(c, a, b)
    BY <1>2, SomethingLeft DEF Nested, Starting, Taking, Returning, Between, Inside
  <2>2. ~Thinking(c)
    BY <1>2 DEF Thinking, Between, Inside, ThinkEnd
  <2> QED BY <1>1, <2>1, <2>2, LockPairs DEF Table, Place, Philosopher, WorkerAt
<1>4. Free(c)' /\ \A p \in Pid \ {c} : pc'[p] = pc[p]
  BY <1>1, <1>3 DEF Free, LocksInv, OwnTypes
<1> QED BY <1>1, <1>4, OneMoves DEF Table, Place

\* What else happens before the first report does not concern the programs.
LEMMA TableFrame ==
  ASSUME Table, UNCHANGED <<program, plan, pc, held, target>>
  PROVE  Table'
BY Stays DEF Table

LEMMA TablePreserved ==
  ASSUME LocksInv, TableInv, [ClientNext]_clientVars
  PROVE  TableInv'
<1> SUFFICES ASSUME Intact' PROVE Table'
  BY DEF TableInv
<1>0. program' = program
  BY DEF ClientNext, clientVars
<1>1. CASE ClientStep
  <2>1. UNCHANGED <<deadlocks, torn>>
    BY <1>1 DEF ClientStep, MakeCall, InCall, Return, AcquireRequest, Release, TestAndSet,
       AcquireReturn, Exit, Resched, DetectEntry, ragVars, detectVars
  <2>2. Table
    BY <2>1 DEF TableInv, Intact
  <2> QED BY <1>0, <1>1, <2>2, CallKeepsTable, AcquireKeepsTable, ReturnKeepsTable DEF ClientStep
<1>2. CASE Preempt /\ UNCHANGED plan
  <2>1. OutsideStep /\ UNCHANGED <<plan, pc, held, target, torn>>
    BY <1>2 DEF OutsideStep, Preempt, ownVars
  <2>2. Intact
    BY <2>1, ReportPreserved DEF Intact
  <2> QED BY <1>0, <2>1, <2>2, TableFrame DEF TableInv
<1>3. CASE DetectWork /\ UNCHANGED plan
  BY <1>0, <1>3, QuietDetection, TableFrame DEF TableInv
<1>4. CASE UNCHANGED <<vars, plan>>
  <2>1. Intact /\ UNCHANGED <<plan, pc, held, target>>
    BY <1>4 DEF vars, ragVars, detectVars, ownVars, Intact
  <2> QED BY <1>0, <2>1, TableFrame DEF TableInv
<1> QED BY <1>1, <1>2, <1>3, <1>4 DEF ClientNext, System, Stopped, clientVars

----------------------------------------------------------------------------
\* The lists hold calls for locks there are, so that the steps of the programs are
\* steps of the lock system.
PlanTypes == program \in {"philosophers", "workers"} /\ plan \in [Pid -> Calls]

LEMMA StartTypes == \A p \in Pid : StartPlan(p) \in Calls
<1>1. Worker(0, 1) \in Calls /\ Worker(1, 0) \in Calls
  BY CallTypes, NestedTurn, SomethingLeft DEF Worker
<1>2. <<>> \in Calls
  BY DEF Calls
<1> QED BY <1>1, <1>2 DEF StartPlan

\* The invariant of the programs.
ClientInv == LocksInv /\ PlanTypes /\ TableInv

LEMMA PlansHaveCalls ==
  ASSUME PlanTypes, currpid \in Pid, NEW s \in Plans
  PROVE  s \in Calls /\ s # <<>>
<1>1. CASE plan[currpid] # <<>>
  BY <1>1 DEF Plans, PlanTypes
<1>2. CASE plan[currpid] = <<>>
  <2>1. currpid \in User /\ s \in {Think(currpid), Eat(currpid)}
    BY <1>2 DEF Plans, User
  <2>2. s \in Calls
    BY <2>1, FirstCalls
  <2>3. Think(currpid) # <<>> /\ Eat(currpid) # <<>>
    BY <2>1, FirstCalls
  <2> QED BY <2>1, <2>2, <2>3
<1> QED BY <1>1, <1>2

\* A step of the programs is a step of the lock system.
LEMMA ClientStepIsLockStep ==
  ASSUME ClientInv, [ClientNext]_clientVars
  PROVE  [Next]_vars /\ PlanTypes'
<1>0. currpid \in Pid
  BY DEF ClientInv, LocksInv, OwnTypes
<1>1. CASE MakeCall /\ UNCHANGED program
  <2> PICK s \in Plans :
        /\ \/ Head(s).call = "acquire" /\ AcquireRequest(Head(s).l)
           \/ Head(s).call = "release" /\ Release(Head(s).l)
        /\ plan' = [plan EXCEPT ![currpid] = Tail(s)]
    BY <1>1 DEF MakeCall
  <2>1. s \in Calls /\ s # <<>>
    BY <1>0, PlansHaveCalls DEF ClientInv
  <2>2. Head(s) \in AnyCall /\ Tail(s) \in Calls
    BY <2>1 DEF Calls
  <2>3. Head(s).l \in Lock
    BY <2>2 DEF AnyCall
  <2>4. Next
    BY <2>3 DEF Next, LockStep
  <2>5. PlanTypes'
    BY <1>0, <1>1, <2>2 DEF ClientInv, PlanTypes
  <2> QED BY <2>4, <2>5
<1>2. CASE (Return \/ InCall \/ System) /\ UNCHANGED program
  <2>1. Next
    BY <1>2 DEF Return, InCall, System, Next, LockStep
  <2>2. UNCHANGED plan
    BY <1>2 DEF Return, InCall, System
  <2> QED BY <1>2, <2>1, <2>2 DEF ClientInv, PlanTypes
<1>3. CASE UNCHANGED clientVars
  BY <1>3 DEF clientVars, ClientInv, PlanTypes
<1> QED BY <1>1, <1>2, <1>3 DEF ClientNext, ClientStep

LEMMA ClientsStart ==
  ASSUME ClientInit
  PROVE  ClientInv
<1>1. LocksInv
  BY InitEstablishes DEF ClientInit
<1>2. PlanTypes
  BY StartTypes DEF ClientInit, PlanTypes
<1>3. \A p \in Pid : pc[p] = "run" /\ held[p] = {} /\ plan[p] = StartPlan(p)
  BY DEF ClientInit, Init
<1>4. ASSUME NEW p \in Pid PROVE Place(p)
  <2>1. CASE program = "philosophers" \/ p \notin {1, 2}
    BY <1>3, <2>1 DEF StartPlan, Place, Free
  <2>2. CASE program = "workers" /\ p = 1
    <3>1. plan[p] = Worker(0, 1)
      BY <1>3, <2>2 DEF StartPlan
    <3>2. Worker(0, 1) = Rest8(mylock(0), mylock(1))
      <4> PICK a \in Lock, b \in Lock : a = mylock(0) /\ b = mylock(1)
        BY CallTypes
      <4>1. With(a, Work \o With(b, Work)) = Rest8(a, b)
        BY NestedTurn
      <4> QED BY ONLY <4>1, a = mylock(0) /\ b = mylock(1) DEF Worker
    <3> QED BY <1>3, <2>2, <3>1, <3>2 DEF Place, WorkerAt, Starting, Between
  <2>3. CASE program = "workers" /\ p = 2
    <3>1. plan[p] = Worker(1, 0)
      BY <1>3, <2>3 DEF StartPlan
    <3>2. Worker(1, 0) = Rest8(mylock(1), mylock(0))
      <4> PICK a \in Lock, b \in Lock : a = mylock(1) /\ b = mylock(0)
        BY CallTypes
      <4>1. With(a, Work \o With(b, Work)) = Rest8(a, b)
        BY NestedTurn
      <4> QED BY ONLY <4>1, a = mylock(1) /\ b = mylock(0) DEF Worker
    <3> QED BY <1>3, <2>3, <3>1, <3>2 DEF Place, WorkerAt, Starting, Between
  <2> QED BY <1>2, <2>1, <2>2, <2>3 DEF PlanTypes
<1>5. Table
  BY <1>4 DEF Table, ClientInit
<1> QED BY <1>1, <1>2, <1>5 DEF ClientInv, TableInv

LEMMA ClientsInvariant == ClientSpec => []ClientInv
<1>1. ASSUME ClientInv, [ClientNext]_clientVars PROVE ClientInv'
  <2>1. [Next]_vars /\ PlanTypes'
    BY <1>1, ClientStepIsLockStep
  <2>2. LocksInv'
    BY <1>1, <2>1, LocksStepPreserves DEF ClientInv
  <2>3. TableInv'
    BY <1>1, TablePreserved DEF ClientInv
  <2> QED BY <2>1, <2>2, <2>3 DEF ClientInv
<1>2. ClientInv /\ [ClientNext]_clientVars => ClientInv'
  BY <1>1
<1> QED BY <1>2, ClientsStart, PTL DEF ClientSpec

----------------------------------------------------------------------------
\* A nonempty set of positions around the table that holds with every position the
\* one before it is the whole table.
LEMMA AroundTheTable ==
  ASSUME NEW C, C \subseteq User, C # {}, \A p \in C : left(p) \in C
  PROVE  C = User
<1>1. N \in Nat /\ N > 2 /\ User = 1 .. N
  BY ClientsAssumption DEF User, Pid, NULLPROC
<1>2. \A p \in User : left(p) = IF p = 1 THEN N ELSE p - 1
  BY ForkFacts
<1>3. N \in C
  <2>1. PICK m \in C : \A q \in C : <<q, m>> \notin OpToRel(<, Nat)
    <3>1. C \subseteq Nat
      BY <1>1
    <3> QED BY <3>1, NatLessThanWellFounded, WFMin
  <2>2. ASSUME m # 1 PROVE FALSE
    <3>1. m - 1 \in C /\ m \in Nat /\ m - 1 \in Nat /\ m - 1 < m
      BY <1>1, <1>2, <2>2
    <3> QED BY <2>1, <3>1 DEF OpToRel
  <2> QED BY <1>2, <2>2
<1>4. ASSUME NEW x \in User \ C PROVE FALSE
  <2> PICK D : D = {k \in 0 .. N : N - k \in User \ C}
    OBVIOUS
  <2>1. N - x \in D
    BY <1>1
  <2>2. PICK k \in D : \A j \in D : <<j, k>> \notin OpToRel(<, Nat)
    <3>1. D \subseteq Nat
      BY <1>1
    <3> QED BY <2>1, <3>1, NatLessThanWellFounded, WFMin
  <2>3. k # 0
    BY <1>1, <1>3
  <2>4. k \in Nat /\ k - 1 \in Nat /\ k - 1 < k /\ N - (k - 1) \in 1 .. N
    BY <1>1, <2>3
  <2>5. k - 1 \notin D
    BY <2>2, <2>4 DEF OpToRel
  <2>6. N - (k - 1) \in C
    BY <1>1, <2>4, <2>5
  <2>7. left(N - (k - 1)) = N - k
    <3>1. N - k \in User /\ N - (k - 1) # 1 /\ (N - (k - 1)) - 1 = N - k
      BY <1>1, <2>4
    <3> QED BY <1>1, <1>2, <2>4, <3>1
  <2> QED BY <2>6, <2>7
<1> QED BY <1>4

\* Who spins in acquire, of the philosophers, and with what in hand.
LEMMA WhoSpins ==
  ASSUME Table, program = "philosophers", NEW p \in User, pc[p] = "spin"
  PROVE  \/ held[p] = {} /\ target[p] \in {printer_lock, right(p)}
         \/ held[p] = {right(p)} /\ target[p] = left(p)
         \/ held[p] = {right(p), left(p)} /\ target[p] = printer_lock
<1>1. p \in Pid /\ Place(p)
  BY DEF User, Table
<1>2. Philosopher(p)
  BY <1>1 DEF Place, Free
<1> QED BY <1>2 DEF Philosopher, Thinking, Nested, Taking, Returning, Between, Inside

\* The philosophers of a circular wait all hold their right fork and wait for their left.
LEMMA CircleIsHungry ==
  ASSUME Table, program = "philosophers", NEW C, C \subseteq User,
         \A p \in C : pc[p] = "spin" /\ \E q \in C : target[p] \in held[q]
  PROVE  \A p \in C : held[p] = {right(p)} /\ target[p] = left(p) /\ left(p) \in C
<1>1. \A p \in C : /\ p \in User /\ right(p) = p /\ printer_lock # right(p)
                   /\ printer_lock # left(p) /\ right(p) # left(p)
  BY ForkFacts
<1>2. \A p \in C :
         \/ held[p] = {} /\ target[p] \in {printer_lock, right(p)}
         \/ held[p] = {right(p)} /\ target[p] = left(p)
         \/ held[p] = {right(p), left(p)} /\ target[p] = printer_lock
  BY WhoSpins
<1>3. \A p \in C : target[p] # printer_lock
  BY <1>1, <1>2
<1>4. \A p \in C : held[p] \in {{}, {right(p)}}
  BY <1>2, <1>3
<1>5. ASSUME NEW p \in C PROVE held[p] = {right(p)} /\ target[p] = left(p) /\ left(p) \in C
  <2>1. PICK q \in C : target[p] \in held[q]
    OBVIOUS
  <2>2. target[p] = q
    BY <1>1, <1>4, <2>1
  <2>3. held[p] # {}
    <3> SUFFICES ASSUME held[p] = {} PROVE FALSE
      OBVIOUS
    <3>1. target[p] = p
      <4>1. {right(p)} # {} /\ {right(p), left(p)} # {} /\ right(p) = p
        BY <1>1
      <4>2. target[p] \in {printer_lock, right(p)} /\ target[p] # printer_lock
        BY <1>2, <1>3, <4>1
      <4> QED BY <4>1, <4>2
    <3> QED BY <2>1, <2>2, <3>1
  <2> QED BY <1>2, <1>3, <2>2, <2>3
<1> QED BY <1>5

\* Three or more philosophers, however they take turns, get stuck in one way only: all
\* of them, each with its right fork in hand and asking for its left, and nobody at the
\* printer.
THEOREM OneDeadlockOnly == ClientSpec => []OnlyTheTextbookDeadlock
<1>1. ASSUME ClientInv PROVE OnlyTheTextbookDeadlock
  <2> SUFFICES ASSUME program = "philosophers", Intact, CircularWait
               PROVE  /\ \A p \in User : held[p] = {right(p)} /\ Waits(p, left(p))
                      /\ ~lock[printer_lock]
    BY DEF OnlyTheTextbookDeadlock
  <2>1. Table /\ WordIsOwner
    BY <1>1 DEF ClientInv, TableInv, LocksInv, Clean
  <2>2. PICK C \in SUBSET User : C # {} /\ \A p \in C :
          pc[p] = "spin" /\ \E q \in C : target[p] \in held[q]
    BY DEF CircularWait
  <2>3. \A p \in C : held[p] = {right(p)} /\ target[p] = left(p) /\ left(p) \in C
    BY <2>1, <2>2, CircleIsHungry
  <2>4. C = User
    BY <2>2, <2>3, AroundTheTable
  <2>5. \A p \in User : held[p] = {right(p)} /\ Waits(p, left(p)) /\ ~Owns(p, printer_lock)
    BY <2>2, <2>3, <2>4, ForkFacts DEF Waits, Owns
  <2>6. ~Owns(NULLPROC, printer_lock)
    BY <2>1, ProcFacts DEF Table, Place, Philosopher, Free, Owns
  <2>7. \A p \in Pid : ~Owns(p, printer_lock)
    BY <2>5, <2>6 DEF User
  <2>8. printer_lock \in Lock
    BY ClientsAssumption DEF printer_lock, Lock
  <2> QED BY <2>1, <2>5, <2>7, <2>8 DEF WordIsOwner
<1>2. ClientInv => OnlyTheTextbookDeadlock
  BY <1>1
<1> QED BY <1>2, ClientsInvariant, PTL

----------------------------------------------------------------------------
\* The programs are courteous: they ask for a second lock only while they have one, for
\* the printer last, and for nothing while they have the printer.
LEMMA ProgramsAreCourteous ==
  ASSUME Table
  PROVE  Courteous
<1>1. ASSUME NEW p \in Pid, NEW a, NEW b, a # printer_lock, b # printer_lock,
             Nested(p, a, b) \/ Starting(p, a, b), pc[p] \in {"spin", "got"}
      PROVE  /\ printer_lock \notin held[p]
             /\ target[p] # printer_lock => \A k, l \in held[p] : k = l
  <2>1. /\ held[p] \in {{}, {a}, {a, b}}
        /\ target[p] # printer_lock => held[p] \in {{}, {a}}
    BY <1>1 DEF Nested, Starting, Taking, Returning, Between, Inside
  <2> QED BY <1>1, <2>1
<1>2. ASSUME NEW p \in Pid, pc[p] \in {"spin", "got"}
      PROVE  /\ printer_lock \notin held[p]
             /\ target[p] # printer_lock => \A k, l \in held[p] : k = l
  <2>1. Place(p) /\ ~Free(p)
    <3>1. ~Free(p)
      BY <1>2 DEF Free
    <3> QED BY <3>1 DEF Table
  <2>2. CASE Thinking(p)
    BY <1>2, <2>2 DEF Thinking, Between, Inside
  <2>3. CASE \E a, b : /\ a # printer_lock /\ b # printer_lock
                       /\ Nested(p, a, b) \/ Starting(p, a, b)
    BY <1>1, <1>2, <2>3
  <2>4. CASE program = "philosophers" /\ Philosopher(p)
    BY <2>2, <2>3, <2>4, LockPairs DEF Philosopher
  <2>5. CASE program = "workers" /\ p = 1 /\ WorkerAt(p, mylock(0), mylock(1))
    BY <2>3, <2>5, LockPairs DEF WorkerAt
  <2>6. CASE program = "workers" /\ p = 2 /\ WorkerAt(p, mylock(1), mylock(0))
    BY <2>3, <2>6, LockPairs DEF WorkerAt
  <2> QED BY <2>1, <2>4, <2>5, <2>6 DEF Place
<1> QED BY <1>2 DEF Courteous

\* Of a path of the graph: a process on it, but for the end, waits for the lock that
\* comes next, and holds the one before it.
LEMMA OnThePath ==
  ASSUME OwnTypes, Clean, StackIsPath, stack \in Seq(Vertex), NEW p \in Pid,
         NEW k \in 1 .. Len(stack), stack[k] = Proc(p)
  PROVE  /\ k < Len(stack) => stack[k + 1] \in Lock /\ Waits(p, stack[k + 1])
         /\ k > 1 => stack[k - 1] \in Lock /\ stack[k - 1] \in held[p]
<1>0. EdgeByEdge /\ k \in Nat /\ Len(stack) \in Nat
  BY DEF Clean
<1>1. ASSUME k < Len(stack) PROVE stack[k + 1] \in Lock /\ Waits(p, stack[k + 1])
  <2> PICK v : v = stack[k + 1]
    OBVIOUS
  <2>1. <<Proc(p), v>> \in RAG
    BY <1>0, <1>1 DEF StackIsPath
  <2>2. PICK l \in Lock, q \in Pid : \/ <<Proc(p), v>> = <<l, Proc(q)>>
                                     \/ <<Proc(p), v>> = <<Proc(q), l>>
    BY <1>0, <2>1 DEF EdgeByEdge, Bipartite
  <2>3. v = l
    BY <2>2, ProcFacts
  <2> QED BY <1>0, <2>1, <2>3 DEF EdgeByEdge
<1>2. ASSUME k > 1 PROVE stack[k - 1] \in Lock /\ stack[k - 1] \in held[p]
  <2> PICK v, j : v = stack[j] /\ j = k - 1
    OBVIOUS
  <2>0. j \in 1 .. (Len(stack) - 1) /\ j + 1 = k
    BY <1>0, <1>2
  <2>1. <<v, Proc(p)>> \in RAG
    BY <2>0 DEF StackIsPath
  <2>2. PICK l \in Lock, q \in Pid : \/ <<v, Proc(p)>> = <<l, Proc(q)>>
                                     \/ <<v, Proc(p)>> = <<Proc(q), l>>
    BY <1>0, <2>1 DEF EdgeByEdge, Bipartite
  <2>3. v = l
    BY <2>2, ProcFacts
  <2> QED BY <1>0, <2>1, <2>3 DEF EdgeByEdge
<1> QED BY <1>1, <1>2

\* The walk of the search closes at the request of a process, never at a lock.  A lock
\* that closes it leads to its owner, a process further down the walk that waits for the
\* next lock there.  If the walk began at that process it has passed every lock already,
\* this one too.  If not, the process holds two locks, so it waits for the printer; but
\* whoever has the printer waits for nothing, and the walk would have ended there.
LEMMA WalkEndsAtProcess ==
  ASSUME OwnTypes, Clean, Courteous, RagInv, StackIsPath, FinishedClosed,
         stack \in Seq(Vertex), stack # <<>>, NEW n \in Nat, n = Len(stack),
         \A v \in Vertex : v < root => v \in Finished,
         NEW k \in 1 .. n, <<stack[n], stack[k]>> \in RAG
  PROVE  \E q \in Pid : stack[n] = Proc(q)
<1>0. EdgeByEdge /\ n \in 1 .. n
  BY DEF Clean
<1> SUFFICES ASSUME \A q \in Pid : stack[n] # Proc(q) PROVE FALSE
  OBVIOUS
<1>1. PICK l \in Lock, p \in Pid : stack[n] = l /\ stack[k] = Proc(p)
  BY <1>0 DEF EdgeByEdge, Bipartite
<1>2. k < n /\ l \in held[p]
  <2>1. k # n
    BY <1>1
  <2>2. l \in held[p]
    BY <1>0, <1>1 DEF EdgeByEdge
  <2> QED BY <1>0, <2>1, <2>2
<1>3. stack[k + 1] \in Lock /\ Waits(p, stack[k + 1])
  BY <1>1, <1>2, OnThePath
<1>4. CASE k = 1
  <2>1. root = Proc(p) /\ l < root
    BY <1>1, <1>4, SizeAssumption DEF StackIsPath, Proc, Lock, Pid
  <2>2. l \in Finished
    BY <2>1, VertexFacts
  <2>3. l \in recur
    BY <1>0, <1>1 DEF StackIsPath
  <2> QED BY <2>2, <2>3 DEF Finished
<1>5. CASE k > 1
  <2>1. stack[k - 1] \in held[p]
    BY <1>1, <1>5, OnThePath
  <2>2. stack[k - 1] # l
    <3>1. k - 1 \in 1 .. n /\ k - 1 # n
      BY <1>2, <1>5
    <3> QED BY <1>0, <1>1, <3>1 DEF StackIsPath
  <2>3. stack[k + 1] = printer_lock /\ printer_lock \notin held[p]
    BY <1>2, <1>3, <2>1, <2>2 DEF Courteous, Waits
  <2>4. k + 1 # n
    BY <1>1, <1>2, <2>3
  <2> PICK m : m = k + 1
    OBVIOUS
  <2>5. m \in 1 .. (n - 1) /\ m + 1 \in 1 .. n /\ m + 1 > 1 /\ (m + 1) - 1 = m
    BY <1>2, <2>4
  <2>6. PICK q \in Pid : stack[m + 1] = Proc(q)
    <3>1. <<stack[m], stack[m + 1]>> \in RAG /\ stack[m] \in Lock
      BY <1>3, <2>5 DEF StackIsPath
    <3> QED BY <1>0, <3>1, ProcFacts DEF EdgeByEdge, Bipartite
  <2>7. printer_lock \in held[q]
    BY <2>3, <2>5, <2>6, OnThePath
  <2>8. m + 1 < n
    <3>1. m + 1 # n
      BY <2>6
    <3> QED BY <2>5, <3>1
  <2>9. \E t : Waits(q, t)
    BY <2>5, <2>6, <2>8, OnThePath
  <2> QED BY <2>7, <2>9 DEF Courteous, Waits
<1> QED BY <1>4, <1>5

\* In both programs, however they are scheduled, the first report hands the recovery a
\* process as its victim and then a lock to take from it, in that order (the caller takes
\* the first vertex for a process and the second for a lock unseen, deadlock.c:153).
THEOREM FirstVictimIsThere == ClientSpec => FirstVictimOK
<1>1. ASSUME ClientInv, [ClientNext]_clientVars, Intact, deadlocks' # <<>> PROVE VictimOK'
  <2>1. LocksInv /\ Table
    BY <1>1 DEF ClientInv, TableInv
  <2>2. Next
    <3>1. [Next]_vars
      BY <1>1, ClientStepIsLockStep
    <3>2. UNCHANGED vars => deadlocks' = deadlocks
      BY DEF vars, ragVars, detectVars
    <3> QED BY <1>1, <3>1, <3>2 DEF Intact
  <2>3. DfsReport /\ ~reported /\ OwnTypes /\ Clean
    BY <1>1, <2>1, <2>2, FirstReportStep
  <2>4. /\ stack \in Seq(Vertex) /\ stack # <<>> /\ RagInv /\ StackIsPath /\ FinishedClosed
        /\ \A v \in Vertex : v < root => v \in Finished
    BY <2>1, <2>3 DEF LocksInv, RagInv, RagTypeOK, SearchInv, DfsReport, Store, Closes, InSearch, InScan
  <2>5. Courteous
    BY <2>1, ProgramsAreCourteous
  <2> PICK n \in Nat : n = Len(stack)
    BY <2>4
  <2>6. n \in 1 .. n
    BY <2>4
  <2>7. PICK k \in 1 .. n : <<stack[n], stack[k]>> \in RAG
    <3>1. PICK w \in recur : <<Top, w>> \in RAG
      BY <2>3 DEF DfsReport, Store, Closes, IsNext, Pending
    <3> QED BY <2>4, <3>1 DEF StackIsPath, Top
  <2>8. PICK q \in Pid : stack[n] = Proc(q)
    BY <2>3, <2>4, <2>5, <2>7, WalkEndsAtProcess
  <2>9. n > 1
    <3>1. SUFFICES ASSUME n = 1 PROVE FALSE
      BY <2>6
    <3>2. <<Proc(q), Proc(q)>> \in RAG
      BY <2>7, <2>8, <3>1
    <3> QED BY <2>3, <3>2, ProcFacts DEF Clean, EdgeByEdge, Bipartite
  <2>10. stack[n - 1] \in Lock
    BY <2>3, <2>4, <2>6, <2>8, <2>9, OnThePath
  <2>11. deadlocks' = Reverse(stack)
    BY <1>1, <2>3, <2>4 DEF DfsReport, Store, Closes, Reverse, Intact
  <2>12. deadlocks'[1] = stack[n] /\ deadlocks'[2] = stack[n - 1]
    BY <2>4, <2>9, <2>11 DEF Reverse
  <2>13. Proc(q) \in ProcVertex
    BY SizeAssumption DEF Proc, ProcVertex, Pid, SIZE
  <2> QED BY <2>8, <2>10, <2>12, <2>13 DEF VictimOK
<1>2. ClientInv /\ [ClientNext]_clientVars => [Intact /\ deadlocks' # <<>> => VictimOK']_clientVars
  BY <1>1
<1> QED BY <1>2, ClientsInvariant, PTL DEF ClientSpec, FirstVictimOK
=============================================================================
