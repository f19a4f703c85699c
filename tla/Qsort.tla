------------------------------- MODULE Qsort -------------------------------
(***************************************************************************)
(* qsort.c: the sort of the C library, one action per branch of qs1.  An   *)
(* element is a number and the comparison its order; positions count       *)
(* elements, where the code counts bytes.  The calls of qs1 that have not  *)
(* returned are on a stack.                                                *)
(***************************************************************************)
EXTENDS Integers, Sequences, FiniteSets

CONSTANTS MaxElements, Elements

ASSUME QsortAssumption == MaxElements \in Nat /\ Elements \subseteq Int /\ Elements # {}

VARIABLES
  input, arr,          \* the array as it was given, and as it is; positions from 0
  a, l,                \* the part being sorted: a <= position < l
  i, j, lp, hp,        \* what is at lp .. hp is equal and divides the part
  pc,
  stack                \* parts to return to

sortVars == <<input, arr, a, l, i, j, lp, hp, pc, stack>>

Arrays == UNION {[0 .. n - 1 -> Elements] : n \in 0 .. MaxElements}

\* qsort
SortInit ==
  /\ input \in Arrays /\ arr = input
  /\ a = 0 /\ l = CHOOSE n \in 0 .. MaxElements : DOMAIN input = 0 .. n - 1
  /\ i = 0 /\ j = 0 /\ lp = 0 /\ hp = 0 /\ pc = "start" /\ stack = <<>>

qsexc(x, y)     == [arr EXCEPT ![x] = arr[y], ![y] = arr[x]]
qstexc(x, y, z) == [arr EXCEPT ![x] = arr[z], ![z] = arr[y], ![y] = arr[x]]

Goto(where) == pc' = where /\ UNCHANGED <<input, a, l, stack>>

----------------------------------------------------------------------------
\* A part of one element is sorted.  Any other is divided round its middle.
Start ==
  /\ pc = "start" /\ l - a > 1
  /\ lp' = a + (l - a) \div 2 /\ hp' = lp'
  /\ i' = a /\ j' = l - 1
  /\ UNCHANGED arr /\ Goto("left")

Return ==
  /\ pc = "start" /\ l - a <= 1
  /\ IF stack = <<>> THEN pc' = "done" /\ UNCHANGED <<a, l, stack>>
     ELSE /\ a' = Head(stack).a /\ l' = Head(stack).l /\ stack' = Tail(stack)
          /\ UNCHANGED pc
  /\ UNCHANGED <<input, arr, i, j, lp, hp>>

\* From the left: an equal element joins the middle, a smaller one stays.
LeftEqual ==
  /\ pc = "left" /\ i < lp /\ arr[i] = arr[lp]
  /\ arr' = qsexc(i, lp - 1) /\ lp' = lp - 1
  /\ UNCHANGED <<i, j, hp>> /\ Goto("left")

LeftLess ==
  /\ pc = "left" /\ i < lp /\ arr[i] < arr[lp]
  /\ i' = i + 1
  /\ UNCHANGED <<arr, j, lp, hp>> /\ Goto("left")

LeftStops ==
  /\ pc = "left" /\ (i < lp => arr[i] > arr[lp])
  /\ UNCHANGED <<arr, i, j, lp, hp>> /\ Goto("right")

\* Faulty variant: a greater element is seen again and again.
RightGreaterStays ==
  /\ pc = "right" /\ j > hp /\ arr[hp] < arr[j]
  /\ UNCHANGED <<arr, i, j, lp, hp>> /\ Goto("right")

\* Faulty variant: an equal element is counted into the middle and not brought there.
RightEqualUnexchanged ==
  /\ pc = "right" /\ j > hp /\ arr[hp] = arr[j]
  /\ hp' = hp + 1
  /\ UNCHANGED <<arr, i, j, lp>> /\ Goto("right")

\* From the right, in the same way.
RightEqual ==
  /\ pc = "right" /\ j > hp /\ arr[hp] = arr[j]
  /\ arr' = qsexc(hp + 1, j) /\ hp' = hp + 1
  /\ UNCHANGED <<i, j, lp>> /\ Goto("right")

RightGreater ==
  /\ pc = "right" /\ j > hp /\ arr[hp] < arr[j]
  /\ j' = j - 1
  /\ UNCHANGED <<arr, i, lp, hp>> /\ Goto("right")

\* The left has nothing to exchange: the middle moves up by one.
ShiftUp ==
  /\ pc = "right" /\ j > hp /\ arr[hp] > arr[j] /\ i = lp
  /\ arr' = qstexc(i, hp + 1, j) /\ hp' = hp + 1 /\ lp' = lp + 1 /\ i' = lp + 1
  /\ UNCHANGED j /\ Goto("right")

Exchange ==
  /\ pc = "right" /\ j > hp /\ arr[hp] > arr[j] /\ i # lp
  /\ arr' = qsexc(i, j) /\ j' = j - 1 /\ i' = i + 1
  /\ UNCHANGED <<lp, hp>> /\ Goto("left")

\* The right has nothing to exchange: the middle moves down by one.
ShiftDown ==
  /\ pc = "right" /\ j <= hp /\ i # lp
  /\ arr' = qstexc(j, lp - 1, i) /\ lp' = lp - 1 /\ hp' = hp - 1 /\ j' = hp - 1
  /\ UNCHANGED i /\ Goto("left")

\* Faulty variant: the larger part is sorted by the recursive call.
DivideLarger ==
  /\ pc = "right" /\ j <= hp /\ i = lp /\ pc' = "start"
  /\ IF lp - a < l - hp
     THEN stack' = <<[a |-> a, l |-> lp]>> \o stack /\ a' = hp + 1 /\ UNCHANGED l
     ELSE stack' = <<[a |-> hp + 1, l |-> l]>> \o stack /\ l' = lp /\ UNCHANGED a
  /\ UNCHANGED <<input, arr, i, j, lp, hp>>

\* Divided: the smaller part is sorted by a call of qs1, then the other in its place.
Divide ==
  /\ pc = "right" /\ j <= hp /\ i = lp /\ pc' = "start"
  /\ IF lp - a >= l - hp
     THEN stack' = <<[a |-> a, l |-> lp]>> \o stack /\ a' = hp + 1 /\ UNCHANGED l
     ELSE stack' = <<[a |-> hp + 1, l |-> l]>> \o stack /\ l' = lp /\ UNCHANGED a
  /\ UNCHANGED <<input, arr, i, j, lp, hp>>

SortStep ==
  \/ Start \/ Return \/ LeftEqual \/ LeftLess \/ LeftStops
  \/ RightEqual \/ RightGreater \/ ShiftUp \/ Exchange \/ ShiftDown \/ Divide
----------------------------------------------------------------------------
Count(f, e) == Cardinality({k \in DOMAIN f : f[k] = e})

\* qsort returns the elements it was given, and returns them in order (qsort.c:16): no
\* exchange of the four kinds loses an element, no part is forgotten on the way.
Sorts ==
  /\ \A e \in Elements : Count(arr, e) = Count(input, e)
  /\ pc = "done" => \A k, m \in DOMAIN arr : k <= m => arr[k] <= arr[m]

\* A process has a fixed stack: the calls of qs1 that have not returned are at most the
\* logarithm of the number of elements, because the smaller part is the one called for
\* (qsort.c:89).
ShallowStack == 2 ^ Len(stack) <= Cardinality(DOMAIN input) + 1
=============================================================================
