---------------------------- MODULE LibraryProofs ----------------------------
(***************************************************************************)
(* Proofs about the C library, for arrays of any length and any elements   *)
(* and for buffers of any size: qsort sorts and needs little stack, the    *)
(* string functions agree with each other and the copies keep the rest.    *)
(***************************************************************************)
EXTENDS Library, FiniteSetTheorems, FunctionTheorems, SequenceTheorems, TLAPS

Places == DOMAIN input
Part   == [a : Int, l : Int]
Cur    == [a |-> a, l |-> l]

Within(k, q) == q.a <= k /\ k < q.l
Apart(p, q)  == p.l <= q.a \/ q.l <= p.a
Shaped(q)    == q.a <= q.l /\ \A k \in Int : Within(k, q) => k \in Places

SortTypes ==
  /\ input \in Arrays /\ arr \in [Places -> Elements]
  /\ a \in Int /\ l \in Int /\ i \in Int /\ j \in Int /\ lp \in Int /\ hp \in Int
  /\ pc \in {"start", "left", "right", "done"} /\ stack \in Seq(Part)

\* The parts to be sorted, now and on return, do not overlap.
PartsApart ==
  /\ Shaped(Cur)
  /\ \A x \in DOMAIN stack : Shaped(stack[x]) /\ Apart(Cur, stack[x])
  /\ \A x, y \in DOMAIN stack : x # y => Apart(stack[x], stack[y])

\* Two places of one part that is still to be sorted.
Together(k, m) ==
  \/ Within(k, Cur) /\ Within(m, Cur)
  \/ \E x \in DOMAIN stack : Within(k, stack[x]) /\ Within(m, stack[x])

\* Whatever is not in one part is in order already.
OrderedAcross == \A k, m \in Places : k < m => Together(k, m) \/ arr[k] <= arr[m]

\* The array is the one given, rearranged.
Rearranged == \E g \in Bijection(Places, Places) : \A k \in Places : arr[k] = input[g[k]]

\* Left of i is smaller, right of j is greater, lp to hp is equal.
Dividing ==
  /\ a <= i /\ i <= lp /\ lp <= hp /\ hp <= j /\ j < l
  /\ \A k \in Places : /\ a <= k /\ k < i => arr[k] < arr[lp]
                       /\ lp <= k /\ k <= hp => arr[k] = arr[lp]
                       /\ j < k /\ k < l => arr[k] > arr[lp]
  /\ pc = "right" /\ i < lp => arr[i] > arr[lp]

SortInv ==
  /\ SortTypes /\ PartsApart /\ OrderedAcross /\ Rearranged
  /\ pc \in {"left", "right"} => Dividing
  /\ pc = "done" => stack = <<>> /\ l - a <= 1

----------------------------------------------------------------------------
\* An array of n elements has the places 0 to n - 1.
LEMMA ArrayPlaces ==
  ASSUME NEW f \in Arrays
  PROVE  /\ \E n \in 0 .. MaxElements : DOMAIN f = 0 .. n - 1
         /\ DOMAIN f \subseteq Int /\ IsFiniteSet(DOMAIN f) /\ f \in [DOMAIN f -> Elements]
<1>1. PICK n \in 0 .. MaxElements : f \in [0 .. n - 1 -> Elements]
  BY DEF Arrays
<1>2. DOMAIN f = 0 .. n - 1 /\ n \in Int
  BY <1>1, QsortAssumption
<1>3. IsFiniteSet(0 .. n - 1)
  BY <1>2, FS_Interval
<1> QED BY <1>1, <1>2, <1>3

\* In the beginning there is one part, the array.
LEMMA SortStarts ==
  ASSUME SortInit
  PROVE  SortInv
<1>1. input \in Arrays /\ arr = input /\ arr \in [Places -> Elements] /\ Places \subseteq Int
  BY ArrayPlaces DEF SortInit, Places
<1>2. l \in Int /\ Places = 0 .. l - 1 /\ 0 <= l
  <2>1. \E n \in 0 .. MaxElements : DOMAIN input = 0 .. n - 1
    BY <1>1, ArrayPlaces
  <2>2. l \in 0 .. MaxElements /\ DOMAIN input = 0 .. l - 1
    BY <2>1 DEF SortInit
  <2> QED BY <2>2, QsortAssumption DEF Places
<1>3. /\ a = 0 /\ i = 0 /\ j = 0 /\ lp = 0 /\ hp = 0 /\ pc = "start" /\ stack = <<>>
  BY DEF SortInit
<1>4. SortTypes
  BY <1>1, <1>2, <1>3 DEF SortTypes
<1>5. PartsApart
  BY <1>2, <1>3 DEF PartsApart, Shaped, Within, Cur
<1>6. OrderedAcross
  BY <1>2, <1>3 DEF OrderedAcross, Together, Within, Cur
<1>7. Rearranged
  <2> PICK g : g = [k \in Places |-> k]
    OBVIOUS
  <2>1. g \in Bijection(Places, Places)
    BY Fun_IsBij
  <2> QED BY <1>1, <2>1 DEF Rearranged
<1> QED BY <1>3, <1>4, <1>5, <1>6, <1>7 DEF SortInv

\* No part has a place of the current one and one outside it.
LEMMA OneOutside ==
  ASSUME SortTypes, PartsApart, NEW k \in Int, NEW m \in Int,
         Within(k, Cur), ~Within(m, Cur)
  PROVE  ~Together(k, m) /\ ~Together(m, k)
<1>1. ASSUME NEW x \in DOMAIN stack PROVE ~Within(k, stack[x])
  <2>1. stack[x] \in Part /\ Apart(Cur, stack[x])
    BY DEF SortTypes, PartsApart
  <2>2. stack[x].a \in Int /\ stack[x].l \in Int
    BY <2>1 DEF Part
  <2> QED BY <2>1, <2>2 DEF Apart, Within, Cur, SortTypes
<1> QED BY <1>1 DEF Together

\* A rearrangement within the part being sorted leaves in order what was.
LEMMA MovedInside ==
  ASSUME SortTypes, PartsApart, OrderedAcross, Rearranged,
         NEW h \in Bijection(Places, Places), arr' \in [Places -> Elements],
         \A k \in Places : /\ arr'[k] = arr[h[k]]
                           /\ Within(k, Cur) => Within(h[k], Cur)
                           /\ ~Within(k, Cur) => h[k] = k,
         UNCHANGED <<input, a, l, stack>>
  PROVE  OrderedAcross' /\ Rearranged'
<1>1. h \in [Places -> Places] /\ Places \subseteq Int /\ Places' = Places /\ Cur' = Cur
  BY Fun_BijectionProperties, ArrayPlaces DEF Places, Cur, SortTypes
<1>2. \A k, m \in Places : Together(k, m)' <=> Together(k, m)
  BY <1>1 DEF Together, Within
<1>3. ASSUME NEW k \in Places, NEW m \in Places, k < m, ~Together(k, m)
      PROVE  arr'[k] <= arr'[m]
  <2>1. ~(Within(k, Cur) /\ Within(m, Cur))
    BY <1>3 DEF Together
  <2>2. CASE ~Within(k, Cur) /\ ~Within(m, Cur)
    BY <1>3, <2>2 DEF OrderedAcross
  <2>3. CASE Within(k, Cur) /\ ~Within(m, Cur)
    <3>1. h[k] \in Places /\ h[k] < m /\ h[m] = m /\ Within(h[k], Cur)
      BY <1>1, <1>3, <2>3 DEF Within, Cur, SortTypes
    <3>2. ~Together(h[k], m)
      BY <1>1, <2>3, <3>1, OneOutside
    <3> QED BY <3>1, <3>2 DEF OrderedAcross
  <2>4. CASE ~Within(k, Cur) /\ Within(m, Cur)
    <3>1. h[m] \in Places /\ k < h[m] /\ h[k] = k /\ Within(h[m], Cur)
      BY <1>1, <1>3, <2>4 DEF Within, Cur, SortTypes
    <3>2. ~Together(k, h[m])
      BY <1>1, <2>4, <3>1, OneOutside
    <3> QED BY <3>1, <3>2 DEF OrderedAcross
  <2> QED BY <2>1, <2>2, <2>3, <2>4
<1>4. OrderedAcross'
  BY <1>1, <1>2, <1>3 DEF OrderedAcross
<1>5. Rearranged'
  <2>1. PICK g \in Bijection(Places, Places) : \A k \in Places : arr[k] = input[g[k]]
    BY DEF Rearranged
  <2> PICK f : f = [k \in Places |-> g[h[k]]]
    OBVIOUS
  <2>2. f \in Bijection(Places, Places)
    BY Fun_BijTransitive
  <2>3. \A k \in Places : arr'[k] = input'[f[k]]
    BY <1>1, <2>1
  <2> QED BY <1>1, <2>2, <2>3 DEF Rearranged
<1> QED BY <1>4, <1>5

\* qsexc within the part.
LEMMA Exchanged ==
  ASSUME SortTypes, PartsApart, OrderedAcross, Rearranged,
         NEW x \in Places, NEW y \in Places, Within(x, Cur), Within(y, Cur),
         arr' = qsexc(x, y), UNCHANGED <<input, a, l, stack>>
  PROVE  /\ OrderedAcross' /\ Rearranged' /\ arr' \in [Places -> Elements]
         /\ arr'[x] = arr[y] /\ arr'[y] = arr[x]
         /\ \A k \in Places \ {x, y} : arr'[k] = arr[k]
<1> PICK h : h = [k \in Places |-> IF k = x THEN y ELSE IF k = y THEN x ELSE k]
  OBVIOUS
<1>1. h \in Bijection(Places, Places)
  BY Fun_IsBij
<1>2. /\ arr' \in [Places -> Elements] /\ arr'[x] = arr[y] /\ arr'[y] = arr[x]
      /\ \A k \in Places \ {x, y} : arr'[k] = arr[k]
  BY DEF SortTypes, qsexc
<1>3. \A k \in Places : /\ arr'[k] = arr[h[k]]
                        /\ Within(k, Cur) => Within(h[k], Cur)
                        /\ ~Within(k, Cur) => h[k] = k
  BY <1>2
<1> QED BY <1>1, <1>2, <1>3, MovedInside

\* qstexc within the part, of which the last two places may be one.
LEMMA Rotated ==
  ASSUME SortTypes, PartsApart, OrderedAcross, Rearranged,
         NEW x \in Places, NEW y \in Places, NEW z \in Places, x # y, x # z,
         Within(x, Cur), Within(y, Cur), Within(z, Cur),
         arr' = qstexc(x, y, z), UNCHANGED <<input, a, l, stack>>
  PROVE  /\ OrderedAcross' /\ Rearranged' /\ arr' \in [Places -> Elements]
         /\ arr'[x] = arr[z] /\ arr'[y] = arr[x] /\ (y # z => arr'[z] = arr[y])
         /\ \A k \in Places \ {x, y, z} : arr'[k] = arr[k]
<1> PICK h : h = [k \in Places |-> IF k = y THEN x ELSE IF k = z THEN y ELSE IF k = x THEN z ELSE k]
  OBVIOUS
<1>1. h \in Bijection(Places, Places)
  BY Fun_IsBij
<1>2. /\ arr' \in [Places -> Elements]
      /\ arr'[x] = arr[z] /\ arr'[y] = arr[x] /\ (y # z => arr'[z] = arr[y])
      /\ \A k \in Places \ {x, y, z} : arr'[k] = arr[k]
  BY DEF SortTypes, qstexc
<1>3. h[y] = x /\ h[x] = z /\ (y # z => h[z] = y)
  OBVIOUS
<1>4. ASSUME NEW k \in Places
      PROVE  /\ arr'[k] = arr[h[k]]
             /\ Within(k, Cur) => Within(h[k], Cur)
             /\ ~Within(k, Cur) => h[k] = k
  <2>1. CASE k \notin {x, y, z}
    BY <1>2, <2>1
  <2>2. CASE k = y
    BY ONLY <1>2, <1>3, <2>2, Within(x, Cur), Within(y, Cur), Within(z, Cur)
  <2>3. CASE k = z /\ k # y
    BY ONLY <1>2, <1>3, <2>3, Within(x, Cur), Within(y, Cur), Within(z, Cur)
  <2>4. CASE k = x
    BY ONLY <1>2, <1>3, <2>4, Within(x, Cur), Within(y, Cur), Within(z, Cur)
  <2> QED BY <2>1, <2>2, <2>3, <2>4
<1> QED BY <1>1, <1>2, <1>4, MovedInside

----------------------------------------------------------------------------
\* Where the pointers of a part being divided are.
LEMMA Pointers ==
  ASSUME SortTypes, PartsApart, Dividing
  PROVE  /\ Places \subseteq Int /\ \A k \in Places : arr[k] \in Int
         /\ \A k \in Int : a <= k /\ k < l => k \in Places /\ Within(k, Cur)
<1>1. Places \subseteq Int /\ Elements \subseteq Int
  BY ArrayPlaces, QsortAssumption DEF SortTypes, Places
<1>2. \A k \in Int : a <= k /\ k < l => Within(k, Cur)
  BY DEF Within, Cur
<1> QED BY <1>1, <1>2 DEF PartsApart, Shaped, SortTypes

\* A step that only moves pointers leaves the array and the parts alone.
LEMMA PointersMove ==
  ASSUME SortInv, UNCHANGED <<input, arr, a, l, stack>>
  PROVE  PartsApart' /\ OrderedAcross' /\ Rearranged' /\ arr' \in [Places' -> Elements]
<1>1. Places' = Places /\ Cur' = Cur
  BY DEF Places, Cur
<1>2. PartsApart'
  BY <1>1 DEF SortInv, PartsApart, Shaped
<1>3. OrderedAcross'
  BY <1>1 DEF SortInv, OrderedAcross, Together
<1> QED BY <1>1, <1>2, <1>3 DEF SortInv, Rearranged, SortTypes

LEMMA StartKeeps ==
  ASSUME SortInv, Start
  PROVE  SortInv'
<1>1. lp' \in Int /\ hp' = lp' /\ a <= lp' /\ lp' < l /\ i' = a /\ j' = l - 1
  BY DEF SortInv, SortTypes, Start
<1>2. UNCHANGED <<input, arr, a, l, stack>> /\ pc' = "left"
  BY DEF Start, Goto
<1>3. Dividing'
  <2>1. \A k \in Places' : k \in Int
    BY <1>2, ArrayPlaces DEF SortInv, SortTypes, Places
  <2> QED BY <1>1, <1>2, <2>1 DEF Dividing, SortInv, SortTypes
<1>4. SortTypes'
  BY <1>1, <1>2, PointersMove DEF SortInv, SortTypes
<1> QED BY <1>2, <1>3, <1>4, PointersMove DEF SortInv

\* The steps that only move a pointer past an element, or stop.
LEMMA PassKeeps ==
  ASSUME SortInv, LeftLess \/ LeftStops \/ RightGreater
  PROVE  SortInv'
<1> USE DEF Goto
<1>1. Dividing /\ SortTypes /\ PartsApart
  BY DEF SortInv, LeftLess, LeftStops, RightGreater
<1>2. UNCHANGED <<input, arr, a, l, stack>> /\ pc' \in {"left", "right"}
  BY DEF LeftLess, LeftStops, RightGreater
<1>3. Places' = Places /\ Places \subseteq Int /\ \A k \in Places : arr[k] \in Int
  BY <1>1, <1>2, Pointers DEF Places
<1>4. Dividing' /\ SortTypes'
  <2>1. CASE LeftLess
    BY <1>1, <1>2, <1>3, <2>1 DEF LeftLess, Dividing, SortTypes
  <2>2. CASE LeftStops
    BY <1>1, <1>2, <1>3, <2>2 DEF LeftStops, Dividing, SortTypes
  <2>3. CASE RightGreater
    <3>1. hp \in Places /\ arr[hp] = arr[lp]
      BY <1>1, <1>3, Pointers DEF Dividing, SortTypes
    <3> QED BY <1>1, <1>2, <1>3, <2>3, <3>1 DEF RightGreater, Dividing, SortTypes
  <2> QED BY <2>1, <2>2, <2>3
<1> QED BY <1>2, <1>4, PointersMove DEF SortInv

\* A step that rearranges the part keeps the invariant if the middle is where it should be.
LEMMA MoveKeeps ==
  ASSUME SortInv, UNCHANGED <<input, a, l, stack>>, pc' \in {"left", "right"},
         arr' \in [Places -> Elements], OrderedAcross', Rearranged', Dividing',
         i' \in Int, j' \in Int, lp' \in Int, hp' \in Int
  PROVE  SortInv'
<1>1. Places' = Places /\ Cur' = Cur
  BY DEF Places, Cur
<1>2. PartsApart'
  BY <1>1 DEF SortInv, PartsApart, Shaped
<1>3. SortTypes'
  BY <1>1 DEF SortInv, SortTypes
<1> QED BY <1>2, <1>3 DEF SortInv

LEMMA EqualKeeps ==
  ASSUME SortInv, LeftEqual \/ RightEqual
  PROVE  SortInv'
<1> USE DEF Goto
<1>1. Dividing /\ SortTypes /\ PartsApart /\ OrderedAcross /\ Rearranged
  BY DEF SortInv, LeftEqual, RightEqual
<1>2. UNCHANGED <<input, a, l, stack>> /\ pc' \in {"left", "right"} /\ Places' = Places
  BY DEF LeftEqual, RightEqual, Places
<1>3. /\ Places \subseteq Int /\ \A k \in Places : arr[k] \in Int
      /\ \A k \in Int : a <= k /\ k < l => k \in Places /\ Within(k, Cur)
  BY <1>1, Pointers
<1>4. CASE LeftEqual
  <2> PICK x, y : x = i /\ y = lp - 1
    OBVIOUS
  <2>1. x \in Places /\ y \in Places /\ Within(x, Cur) /\ Within(y, Cur) /\ x <= y
    BY <1>1, <1>3, <1>4 DEF LeftEqual, Dividing, SortTypes
  <2>2. arr' = qsexc(x, y)
    BY <1>4 DEF LeftEqual
  <2>3. /\ OrderedAcross' /\ Rearranged' /\ arr' \in [Places -> Elements]
        /\ arr'[x] = arr[y] /\ arr'[y] = arr[x]
        /\ \A k \in Places \ {x, y} : arr'[k] = arr[k]
    BY <1>1, <1>2, <2>1, <2>2, Exchanged
  <2>4. /\ i' = x /\ lp' = y /\ j' = j /\ hp' = hp /\ y \in Int /\ lp = y + 1 /\ i = x
        /\ arr[x] = arr[lp] /\ pc' = "left"
    BY <1>1, <1>4 DEF LeftEqual, SortTypes
  <2>5. Dividing'
    BY <1>1, <1>2, <1>3, <2>1, <2>3, <2>4 DEF Dividing, SortTypes
  <2> QED BY <1>1, <1>2, <2>1, <2>3, <2>4, <2>5, MoveKeeps DEF SortTypes
<1>5. CASE RightEqual
  <2> PICK x, y : x = hp + 1 /\ y = j
    OBVIOUS
  <2>1. x \in Places /\ y \in Places /\ Within(x, Cur) /\ Within(y, Cur) /\ x <= y
    BY <1>1, <1>3, <1>5 DEF RightEqual, Dividing, SortTypes
  <2>2. arr' = qsexc(x, y)
    BY <1>5 DEF RightEqual
  <2>3. /\ OrderedAcross' /\ Rearranged' /\ arr' \in [Places -> Elements]
        /\ arr'[x] = arr[y] /\ arr'[y] = arr[x]
        /\ \A k \in Places \ {x, y} : arr'[k] = arr[k]
    BY <1>1, <1>2, <2>1, <2>2, Exchanged
  <2>4. /\ i' = i /\ lp' = lp /\ j' = y /\ hp' = x /\ x \in Int /\ hp = x - 1 /\ j = y
        /\ arr[y] = arr[hp] /\ pc' = "right" /\ pc = "right"
    BY <1>1, <1>5 DEF RightEqual, SortTypes
  <2>5. arr[hp] = arr[lp] /\ lp \in Places /\ hp \in Places
    BY <1>1, <1>3 DEF Dividing, SortTypes
  <2>6. Dividing'
    BY <1>1, <1>2, <1>3, <2>1, <2>3, <2>4, <2>5 DEF Dividing, SortTypes
  <2> QED BY <1>1, <1>2, <2>1, <2>3, <2>4, <2>6, MoveKeeps DEF SortTypes
<1> QED BY <1>4, <1>5

\* Two elements that are each on the wrong side.
LEMMA ExchangeKeeps ==
  ASSUME SortInv, Exchange
  PROVE  SortInv'
<1> USE DEF Goto
<1>1. Dividing /\ SortTypes /\ PartsApart /\ OrderedAcross /\ Rearranged
  BY DEF SortInv, Exchange
<1>2. UNCHANGED <<input, a, l, stack>> /\ pc' = "left" /\ Places' = Places
  BY DEF Exchange, Places
<1>3. /\ Places \subseteq Int /\ \A k \in Places : arr[k] \in Int
      /\ \A k \in Int : a <= k /\ k < l => k \in Places /\ Within(k, Cur)
  BY <1>1, Pointers
<1> PICK x, y : x = i /\ y = j
  OBVIOUS
<1>4. x \in Places /\ y \in Places /\ Within(x, Cur) /\ Within(y, Cur) /\ x < lp /\ hp < y
  BY <1>1, <1>3 DEF Exchange, Dividing, SortTypes
<1>5. arr' = qsexc(x, y)
  BY DEF Exchange
<1>6. /\ OrderedAcross' /\ Rearranged' /\ arr' \in [Places -> Elements]
      /\ arr'[x] = arr[y] /\ arr'[y] = arr[x]
      /\ \A k \in Places \ {x, y} : arr'[k] = arr[k]
  BY <1>1, <1>2, <1>4, <1>5, Exchanged
<1>7. /\ i' = x + 1 /\ j' = y - 1 /\ lp' = lp /\ hp' = hp /\ i = x /\ j = y
      /\ arr[hp] > arr[y] /\ pc = "right"
  BY DEF Exchange
<1>8. arr[hp] = arr[lp] /\ lp \in Places /\ hp \in Places /\ arr[x] > arr[lp]
  BY <1>1, <1>3, <1>4, <1>7 DEF Dividing, SortTypes
<1>9. Dividing'
  BY <1>1, <1>2, <1>3, <1>4, <1>6, <1>7, <1>8 DEF Dividing, SortTypes
<1> QED BY <1>1, <1>2, <1>3, <1>4, <1>6, <1>7, <1>9, MoveKeeps DEF SortTypes

\* One element on the wrong side, and nothing to exchange it with: the middle moves.
LEMMA ShiftKeeps ==
  ASSUME SortInv, ShiftUp \/ ShiftDown
  PROVE  SortInv'
<1> USE DEF Goto
<1>1. Dividing /\ SortTypes /\ PartsApart /\ OrderedAcross /\ Rearranged
  BY DEF SortInv, ShiftUp, ShiftDown
<1>2. UNCHANGED <<input, a, l, stack>> /\ pc' \in {"left", "right"} /\ Places' = Places
  BY DEF ShiftUp, ShiftDown, Places
<1>3. /\ Places \subseteq Int /\ \A k \in Places : arr[k] \in Int
      /\ \A k \in Int : a <= k /\ k < l => k \in Places /\ Within(k, Cur)
  BY <1>1, Pointers
<1>4. CASE ShiftUp
  <2> PICK x, y, z : x = i /\ y = hp + 1 /\ z = j
    OBVIOUS
  <2>1. /\ x \in Places /\ y \in Places /\ z \in Places /\ x < y /\ y <= z
        /\ Within(x, Cur) /\ Within(y, Cur) /\ Within(z, Cur)
    BY <1>1, <1>3, <1>4 DEF ShiftUp, Dividing, SortTypes
  <2>2. arr' = qstexc(x, y, z)
    BY <1>4 DEF ShiftUp
  <2>3. /\ OrderedAcross' /\ Rearranged' /\ arr' \in [Places -> Elements]
        /\ arr'[x] = arr[z] /\ arr'[y] = arr[x] /\ (y # z => arr'[z] = arr[y])
        /\ \A k \in Places \ {x, y, z} : arr'[k] = arr[k]
    BY <1>1, <1>2, <1>3, <2>1, <2>2, Rotated
  <2>4. /\ i' = x + 1 /\ lp' = x + 1 /\ hp' = y /\ j' = z /\ pc' = "right" /\ pc = "right"
        /\ i = x /\ lp = x /\ hp = y - 1 /\ j = z /\ arr[hp] > arr[z]
    BY <1>1, <1>3, <1>4, <2>1 DEF ShiftUp, SortTypes
  <2>5. arr[hp] = arr[x] /\ hp \in Places
    BY <1>1, <1>3, <2>4 DEF Dividing, SortTypes
  <2>6. Dividing'
    <3>1. arr'[x + 1] = arr[x] /\ x + 1 \in Places /\ x + 1 <= y
      BY <1>1, <1>3, <2>1, <2>3, <2>4 DEF Dividing, SortTypes
    <3> QED BY <1>1, <1>2, <1>3, <2>1, <2>3, <2>4, <2>5, <3>1 DEF Dividing, SortTypes
  <2> QED BY <1>1, <1>2, <1>3, <2>1, <2>3, <2>4, <2>6, MoveKeeps DEF SortTypes
<1>5. CASE ShiftDown
  <2> PICK x, y, z : x = j /\ y = lp - 1 /\ z = i
    OBVIOUS
  <2>1. /\ x \in Places /\ y \in Places /\ z \in Places /\ y < x /\ z <= y
        /\ Within(x, Cur) /\ Within(y, Cur) /\ Within(z, Cur)
    BY <1>1, <1>3, <1>5 DEF ShiftDown, Dividing, SortTypes
  <2>2. arr' = qstexc(x, y, z)
    BY <1>5 DEF ShiftDown
  <2>3. /\ OrderedAcross' /\ Rearranged' /\ arr' \in [Places -> Elements]
        /\ arr'[x] = arr[z] /\ arr'[y] = arr[x] /\ (y # z => arr'[z] = arr[y])
        /\ \A k \in Places \ {x, y, z} : arr'[k] = arr[k]
    BY <1>1, <1>2, <1>3, <2>1, <2>2, Rotated
  <2>4. /\ i' = z /\ lp' = y /\ hp' = x - 1 /\ j' = x - 1 /\ pc' = "left" /\ pc = "right"
        /\ i = z /\ lp = y + 1 /\ hp = x /\ j = x
    BY <1>1, <1>3, <1>5, <2>1 DEF ShiftDown, SortTypes, Dividing
  <2>5. arr[x] = arr[lp] /\ lp \in Places /\ arr[z] > arr[lp]
    BY <1>1, <1>3, <2>1, <2>4 DEF Dividing, SortTypes
  <2>6. Dividing'
    BY <1>1, <1>2, <1>3, <2>1, <2>3, <2>4, <2>5 DEF Dividing, SortTypes
  <2> QED BY <1>1, <1>2, <1>3, <2>1, <2>3, <2>4, <2>6, MoveKeeps DEF SortTypes
<1> QED BY <1>4, <1>5

----------------------------------------------------------------------------
\* What is on the stack after a call and after a return.
LEMMA Pushed ==
  ASSUME NEW s \in Seq(Part), NEW p \in Part, NEW t, t = <<p>> \o s
  PROVE  /\ t \in Seq(Part) /\ 1 \in DOMAIN t /\ t[1] = p
         /\ \A x \in DOMAIN t : x = 1 \/ (x - 1 \in DOMAIN s /\ t[x] = s[x - 1])
         /\ \A x \in DOMAIN s : x + 1 \in DOMAIN t /\ t[x + 1] = s[x]
<1>1. <<p>> \in Seq(Part) /\ Len(<<p>>) = 1 /\ <<p>>[1] = p /\ Len(s) \in Nat
  OBVIOUS
<1>2. /\ t \in Seq(Part) /\ Len(t) = 1 + Len(s)
      /\ \A x \in 1 .. 1 + Len(s) : t[x] = IF x <= 1 THEN p ELSE s[x - 1]
  BY <1>1, ConcatProperties
<1>3. DOMAIN t = 1 .. 1 + Len(s) /\ DOMAIN s = 1 .. Len(s)
  BY <1>2
<1>4. 1 \in DOMAIN t /\ t[1] = p
  BY ONLY <1>1, <1>2, <1>3
<1>5. ASSUME NEW x \in DOMAIN t, x # 1 PROVE x - 1 \in DOMAIN s /\ t[x] = s[x - 1]
  <2>1. x \in 1 .. 1 + Len(s) /\ x - 1 \in 1 .. Len(s) /\ ~(x <= 1)
    BY <1>1, <1>3, <1>5
  <2> QED BY ONLY <1>2, <1>3, <2>1
<1>6. ASSUME NEW x \in DOMAIN s PROVE x + 1 \in DOMAIN t /\ t[x + 1] = s[x]
  <2>1. x + 1 \in 1 .. 1 + Len(s) /\ ~(x + 1 <= 1) /\ (x + 1) - 1 = x
    BY <1>1, <1>3
  <2> QED BY ONLY <1>2, <1>3, <2>1
<1> QED BY <1>2, <1>4, <1>5, <1>6

LEMMA Popped ==
  ASSUME NEW s \in Seq(Part), s # <<>>
  PROVE  /\ Head(s) \in Part /\ Tail(s) \in Seq(Part) /\ 1 \in DOMAIN s /\ s[1] = Head(s)
         /\ \A x \in DOMAIN Tail(s) : x + 1 \in DOMAIN s /\ x + 1 # 1 /\ Tail(s)[x] = s[x + 1]
         /\ \A x \in DOMAIN s : x # 1 => x - 1 \in DOMAIN Tail(s) /\ s[x] = Tail(s)[x - 1]
OBVIOUS

\* The part is divided in two, of which one waits and one is next.
LEMMA Divided ==
  ASSUME SortTypes, PartsApart, OrderedAcross, UNCHANGED <<input, arr>>,
         NEW p \in Part, NEW q \in Part, Shaped(p), Shaped(q), Apart(p, q),
         a <= p.a, p.l <= l, a <= q.a, q.l <= l,
         \A k, m \in Places : k < m /\ Within(k, Cur) /\ Within(m, Cur) =>
           \/ Within(k, p) /\ Within(m, p)
           \/ Within(k, q) /\ Within(m, q)
           \/ arr[k] <= arr[m],
         a' = q.a, l' = q.l, stack' = <<p>> \o stack
  PROVE  PartsApart' /\ OrderedAcross' /\ stack' \in Seq(Part)
<1> PICK t : t = stack'
  OBVIOUS
<1>1. /\ t \in Seq(Part) /\ 1 \in DOMAIN t /\ t[1] = p
      /\ \A x \in DOMAIN t : x = 1 \/ (x - 1 \in DOMAIN stack /\ t[x] = stack[x - 1])
      /\ \A x \in DOMAIN stack : x + 1 \in DOMAIN t /\ t[x + 1] = stack[x]
  BY Pushed DEF SortTypes
<1>2. Cur' = q /\ Places' = Places /\ \A r : Shaped(r)' <=> Shaped(r)
  BY DEF Cur, Part, Places, Shaped
<1>3. ASSUME NEW x \in DOMAIN stack
      PROVE  Shaped(stack[x]) /\ Apart(q, stack[x]) /\ Apart(p, stack[x]) /\ Apart(stack[x], p)
  <2>1. Shaped(stack[x]) /\ Apart(Cur, stack[x]) /\ stack[x] \in Part
    BY DEF PartsApart, SortTypes
  <2> QED BY <2>1 DEF Apart, Cur, Part, SortTypes, Shaped
<1>4. PartsApart'
  <2>1. ASSUME NEW x \in DOMAIN t PROVE Shaped(t[x]) /\ Apart(q, t[x])
    BY <1>1, <1>3 DEF Apart
  <2>2. ASSUME NEW x \in DOMAIN t, NEW y \in DOMAIN t, x # y PROVE Apart(t[x], t[y])
    BY <1>1, <1>3, <2>2 DEF PartsApart
  <2> QED BY <1>2, <2>1, <2>2 DEF PartsApart
<1>5. ASSUME NEW k \in Places, NEW m \in Places, k < m
      PROVE  Together(k, m)' \/ arr[k] <= arr[m]
  <2>1. CASE Within(k, Cur) /\ Within(m, Cur)
    BY <1>1, <1>2, <1>5, <2>1 DEF Together
  <2>2. CASE \E x \in DOMAIN stack : Within(k, stack[x]) /\ Within(m, stack[x])
    BY <1>1, <2>2 DEF Together
  <2>3. CASE ~Together(k, m)
    BY <1>5, <2>3 DEF OrderedAcross
  <2> QED BY <2>1, <2>2, <2>3 DEF Together
<1> QED BY <1>1, <1>2, <1>4, <1>5 DEF OrderedAcross

LEMMA DivideKeeps ==
  ASSUME SortInv, Divide
  PROVE  SortInv'
<1>1. Dividing /\ SortTypes /\ PartsApart /\ OrderedAcross /\ Rearranged
  BY DEF SortInv, Divide
<1>2. UNCHANGED <<input, arr, i, j, lp, hp>> /\ pc' = "start" /\ i = lp /\ j = hp
  BY <1>1 DEF Divide, Dividing, SortTypes
<1>3. /\ Places \subseteq Int /\ \A k \in Places : arr[k] \in Int
      /\ \A k \in Int : a <= k /\ k < l => k \in Places /\ Within(k, Cur)
  BY <1>1, Pointers
<1> PICK low, high : low = [a |-> a, l |-> lp] /\ high = [a |-> hp + 1, l |-> l]
  OBVIOUS
<1>4. /\ low \in Part /\ high \in Part /\ Shaped(low) /\ Shaped(high)
      /\ Apart(low, high) /\ Apart(high, low)
      /\ a <= low.a /\ low.l <= l /\ a <= high.a /\ high.l <= l
  BY <1>1, <1>2, <1>3 DEF Dividing, SortTypes, Part, Shaped, Apart, Within, Cur
<1>5. ASSUME NEW k \in Places, NEW m \in Places, k < m, Within(k, Cur), Within(m, Cur)
      PROVE  \/ Within(k, low) /\ Within(m, low)
             \/ Within(k, high) /\ Within(m, high)
             \/ arr[k] <= arr[m]
  <2>1. k \in Int /\ m \in Int /\ a <= k /\ m < l /\ lp \in Places
    BY <1>1, <1>3, <1>5 DEF Within, Cur, Dividing, SortTypes
  <2>2. CASE m < lp
    BY <1>1, <1>5, <2>1, <2>2 DEF Within, SortTypes
  <2>3. CASE hp < k
    BY <1>1, <1>5, <2>1, <2>3 DEF Within, SortTypes
  <2>4. CASE k <= hp /\ lp <= m
    <3>1. arr[k] <= arr[lp]
      BY <1>1, <1>2, <1>3, <2>1, <2>4 DEF Dividing, SortTypes
    <3>2. arr[lp] <= arr[m]
      BY <1>1, <1>2, <1>3, <2>1, <2>4 DEF Dividing, SortTypes
    <3> QED BY <1>3, <2>1, <3>1, <3>2
  <2> QED BY <1>1, <2>1, <2>2, <2>3, <2>4 DEF SortTypes
<1>6. PartsApart' /\ OrderedAcross' /\ stack' \in Seq(Part)
  <2>1. CASE lp - a >= l - hp
    <3>1. a' = high.a /\ l' = high.l /\ stack' = <<low>> \o stack
      BY <2>1 DEF Divide
    <3> QED BY <1>1, <1>2, <1>4, <1>5, <3>1, Divided
  <2>2. CASE ~(lp - a >= l - hp)
    <3>1. a' = low.a /\ l' = low.l /\ stack' = <<high>> \o stack
      BY <2>2 DEF Divide
    <3> QED BY <1>1, <1>2, <1>4, <1>5, <3>1, Divided
  <2> QED BY <2>1, <2>2
<1>7. SortTypes'
  BY <1>1, <1>2, <1>6 DEF SortTypes, Divide, Places
<1>8. Rearranged'
  BY <1>1, <1>2 DEF Rearranged, Places
<1> QED BY <1>2, <1>6, <1>7, <1>8 DEF SortInv

\* A part of one element is sorted.
LEMMA ReturnKeeps ==
  ASSUME SortInv, Return
  PROVE  SortInv'
<1>1. SortTypes /\ PartsApart /\ OrderedAcross /\ Rearranged /\ l - a <= 1
  BY DEF SortInv, Return
<1>2. UNCHANGED <<input, arr, i, j, lp, hp>> /\ Places' = Places
  BY DEF Return, Places
<1>3. CASE stack = <<>>
  <2>1. UNCHANGED <<a, l, stack>> /\ pc' = "done"
    BY <1>3 DEF Return
  <2> QED BY <1>1, <1>2, <1>3, <2>1, PointersMove DEF SortInv, SortTypes
<1>4. CASE stack # <<>>
  <2> PICK q, t : q = Head(stack) /\ t = Tail(stack)
    OBVIOUS
  <2>1. a' = q.a /\ l' = q.l /\ stack' = t /\ pc' = "start"
    BY <1>4 DEF Return
  <2>2. /\ q \in Part /\ t \in Seq(Part) /\ 1 \in DOMAIN stack /\ stack[1] = q
        /\ \A x \in DOMAIN t : x + 1 \in DOMAIN stack /\ x + 1 # 1 /\ t[x] = stack[x + 1]
        /\ \A x \in DOMAIN stack : x # 1 => x - 1 \in DOMAIN t /\ stack[x] = t[x - 1]
    BY <1>1, <1>4, Popped DEF SortTypes
  <2>3. Cur' = q /\ \A r : Shaped(r)' <=> Shaped(r)
    BY <1>2, <2>1, <2>2 DEF Cur, Part, Shaped
  <2>4. PartsApart'
    <3>1. ASSUME NEW x \in DOMAIN t PROVE Shaped(t[x]) /\ Apart(q, t[x])
      BY <1>1, <2>2 DEF PartsApart
    <3>2. ASSUME NEW x \in DOMAIN t, NEW y \in DOMAIN t, x # y PROVE Apart(t[x], t[y])
      BY <1>1, <2>2, <3>2 DEF PartsApart
    <3>3. Shaped(q)
      BY <1>1, <2>2 DEF PartsApart
    <3> QED BY <2>1, <2>3, <3>1, <3>2, <3>3 DEF PartsApart
  <2>5. ASSUME NEW k \in Places, NEW m \in Places, k < m, Together(k, m) PROVE Together(k, m)'
    <3>1. ~(Within(k, Cur) /\ Within(m, Cur))
      <4>1. k \in Int /\ m \in Int
        BY <1>1, ArrayPlaces DEF SortTypes, Places
      <4> QED BY <1>1, <2>5, <4>1 DEF Within, Cur, SortTypes
    <3>2. PICK x \in DOMAIN stack : Within(k, stack[x]) /\ Within(m, stack[x])
      BY <2>5, <3>1 DEF Together
    <3> QED BY <2>1, <2>2, <2>3, <3>2 DEF Together
  <2>6. OrderedAcross'
    BY <1>1, <1>2, <2>5 DEF OrderedAcross
  <2>7. SortTypes' /\ Rearranged'
    BY <1>1, <1>2, <2>1, <2>2 DEF SortTypes, Rearranged, Part
  <2> QED BY <2>1, <2>4, <2>6, <2>7 DEF SortInv
<1> QED BY <1>3, <1>4

LEMMA SortKeeps ==
  ASSUME SortInv, [SortStep]_sortVars
  PROVE  SortInv'
<1>1. CASE UNCHANGED sortVars
  BY <1>1 DEF sortVars, SortInv, SortTypes, PartsApart, OrderedAcross, Together, Rearranged,
              Dividing, Shaped, Places, Cur
<1>2. CASE SortStep
  BY <1>2, StartKeeps, PassKeeps, EqualKeeps, ExchangeKeeps, ShiftKeeps, DivideKeeps,
     ReturnKeeps DEF SortStep
<1> QED BY <1>1, <1>2

\* Only a process that sorts has an array.
JobInv == IF job = "sort" THEN SortInv ELSE NoSort

LEMMA OneJob ==
  ASSUME [Next]_vars
  PROVE  job' = job /\ [SortStep]_sortVars /\ (job # "sort" => UNCHANGED sortVars)
BY DEF Next, Sorting, Strcpy, Strncpy, Strncat, Memcpy, Memset, Bzero, Copied, Printing,
       Kprinting, ReadBack, Scanning, vars

LEMMA JobAlways == Spec => []JobInv
<1>1. Init => JobInv
  BY SortStarts DEF Init, JobInv
<1>2. JobInv /\ [Next]_vars => JobInv'
  <2> SUFFICES ASSUME JobInv, [Next]_vars PROVE JobInv'
    OBVIOUS
  <2>1. CASE job = "sort"
    BY <2>1, OneJob, SortKeeps DEF JobInv
  <2>2. CASE job # "sort"
    BY <2>2, OneJob DEF JobInv, NoSort, sortVars
  <2> QED BY <2>1, <2>2
<1> QED BY <1>1, <1>2, PTL DEF Spec

\* A rearranged array has every element as often as before.
LEMMA SameCounts ==
  ASSUME SortTypes, Rearranged, NEW e \in Elements
  PROVE  Count(arr, e) = Count(input, e)
<1>1. PICK g \in Bijection(Places, Places) : \A k \in Places : arr[k] = input[g[k]]
  BY DEF Rearranged
<1>2. IsFiniteSet(Places) /\ DOMAIN arr = Places /\ DOMAIN input = Places
  BY ArrayPlaces DEF SortTypes, Places
<1> PICK A, B : A = {k \in Places : arr[k] = e} /\ B = {k \in Places : input[k] = e}
  OBVIOUS
<1> PICK f : f = [k \in A |-> g[k]]
  OBVIOUS
<1>3. /\ g \in [Places -> Places] /\ \A x, y \in Places : g[x] = g[y] => x = y
      /\ \A y \in Places : \E x \in Places : g[x] = y
  BY Fun_BijectionProperties
<1>4. /\ f \in [A -> B] /\ \A x, y \in A : f[x] = f[y] => x = y
      /\ \A y \in B : \E x \in A : f[x] = y
  BY <1>1, <1>3
<1>5. f \in Bijection(A, B)
  BY <1>4, Fun_IsBij
<1>6. IsFiniteSet(A)
  BY <1>2, FS_Subset
<1>7. Cardinality(B) = Cardinality(A)
  BY <1>5, <1>6, FS_Bijection DEF ExistsBijection
<1> QED BY <1>2, <1>7 DEF Count

\* For arrays of any length: at every moment the array has the elements it was given, and
\* in the end they are in order.
THEOREM SortsAnyArray == Spec => []Sorts
<1>1. ASSUME SortInv PROVE Sorts
  <2>1. \A e \in Elements : Count(arr, e) = Count(input, e)
    BY <1>1, SameCounts DEF SortInv
  <2>2. ASSUME pc = "done", NEW k \in DOMAIN arr, NEW m \in DOMAIN arr, k <= m
        PROVE  arr[k] <= arr[m]
    <3>1. k \in Places /\ m \in Places /\ k \in Int /\ m \in Int /\ arr[k] \in Int
      BY <1>1, ArrayPlaces, QsortAssumption DEF SortInv, SortTypes, Places
    <3>2. k < m => ~Together(k, m)
      BY <1>1, <2>2, <3>1 DEF SortInv, SortTypes, Together, Within, Cur
    <3> QED BY <1>1, <2>2, <3>1, <3>2 DEF SortInv, OrderedAcross
  <2> QED BY <2>1, <2>2 DEF Sorts
<1>2. NoSort => Sorts
  BY DEF NoSort, Sorts
<1>3. JobInv => Sorts
  BY <1>1, <1>2 DEF JobInv
<1> QED BY <1>3, JobAlways, PTL

----------------------------------------------------------------------------
\* What the provers have to be told of powers: the two equations that define them.
PowersOfTwo == 2 ^ 0 = 1 /\ \A n \in Nat : 2 ^ n \in Nat /\ 2 ^ (n + 1) = 2 * 2 ^ n

\* With n calls under it, a part is so small that n times two of it are the array.
Small(q, n) == (q.l - q.a + 1) * 2 ^ n <= Cardinality(Places) + 1

Halved ==
  /\ Small(Cur, Len(stack))
  /\ \A x \in DOMAIN stack : Small(stack[x], Len(stack) - x)

\* Small, for less than a small part, and for at most half of one.
LEMMA SmallParts ==
  ASSUME PowersOfTwo, Cardinality(Places) \in Nat, NEW n \in Nat,
         NEW p \in Part, p.a <= p.l, NEW q \in Part, q.a <= q.l, Small(p, n)
  PROVE  /\ q.l - q.a <= p.l - p.a => Small(q, n)
         /\ 2 * (q.l - q.a + 1) <= p.l - p.a + 1 => Small(q, n + 1)
<1> PICK x, y, z, c : /\ x = p.l - p.a + 1 /\ y = q.l - q.a + 1 /\ z = 2 ^ n
                      /\ c = Cardinality(Places) + 1
  OBVIOUS
<1>1. x \in Nat /\ y \in Nat /\ z \in Nat /\ c \in Nat /\ 2 ^ (n + 1) = 2 * z /\ x * z <= c
  BY DEF Part, PowersOfTwo, Small
<1>2. y <= x => y * z <= x * z
  BY ONLY <1>1
<1>3. 2 * y <= x => y * (2 * z) <= x * z
  BY ONLY <1>1
<1>4. x * z \in Nat /\ y * z \in Nat /\ y * (2 * z) \in Nat
  BY ONLY <1>1
<1> QED BY <1>1, <1>2, <1>3, <1>4 DEF Small, Part

LEMMA DivideHalves ==
  ASSUME PowersOfTwo, SortInv, Halved, Divide
  PROVE  Halved'
<1>1. Dividing /\ SortTypes /\ PartsApart
  BY DEF SortInv, Divide
<1>2. i = lp /\ j = hp /\ Places' = Places /\ Len(stack) \in Nat /\ Cardinality(Places) \in Nat
  <2>1. IsFiniteSet(Places)
    BY <1>1, ArrayPlaces DEF SortTypes, Places
  <2> QED BY <1>1, <2>1, FS_CardinalityType DEF Divide, Dividing, SortTypes, Places
<1>3. ASSUME NEW p \in Part, NEW q \in Part, p.a <= p.l, q.a <= q.l,
             a' = q.a, l' = q.l, stack' = <<p>> \o stack,
             p.l - p.a <= l - a, 2 * (q.l - q.a + 1) <= l - a + 1
      PROVE  Halved'
  <2> PICK t : t = stack'
    OBVIOUS
  <2>1. /\ t \in Seq(Part) /\ Len(t) = Len(stack) + 1 /\ 1 \in DOMAIN t /\ t[1] = p
        /\ \A x \in DOMAIN t : x = 1 \/ (x - 1 \in DOMAIN stack /\ t[x] = stack[x - 1])
    BY <1>1, <1>3, Pushed DEF SortTypes
  <2>2. Cur \in Part /\ Cur.a = a /\ Cur.l = l /\ Cur' = q /\ a <= l
    BY <1>1, <1>3 DEF Cur, Part, SortTypes, PartsApart, Shaped
  <2>3. Small(q, Len(stack) + 1) /\ Small(p, Len(stack))
    BY <1>2, <1>3, <2>2, SmallParts DEF Halved
  <2>4. ASSUME NEW x \in DOMAIN t PROVE Small(t[x], Len(t) - x)
    <3>1. x \in Int
      BY <2>1
    <3>2. CASE x = 1
      BY <1>2, <2>1, <2>3, <3>2
    <3>3. CASE x # 1
      <4>1. x - 1 \in DOMAIN stack /\ t[x] = stack[x - 1] /\ Len(t) - x = Len(stack) - (x - 1)
        BY <1>2, <2>1, <3>1, <3>3
      <4> QED BY <4>1 DEF Halved
    <3> QED BY <3>2, <3>3
  <2>5. Small(Cur, Len(stack))'
    <3>1. Small(Cur', Len(t))
      BY <1>2, <2>1, <2>2, <2>3
    <3> QED BY <1>2, <3>1 DEF Small
  <2>6. (\A x \in DOMAIN stack : Small(stack[x], Len(stack) - x))'
    BY <1>2, <2>4 DEF Small
  <2> QED BY <2>5, <2>6 DEF Halved
<1> PICK low, high : low = [a |-> a, l |-> lp] /\ high = [a |-> hp + 1, l |-> l]
  OBVIOUS
<1>4. /\ low \in Part /\ low.a = a /\ low.l = lp /\ high \in Part /\ high.a = hp + 1 /\ high.l = l
      /\ a <= lp /\ lp <= hp /\ hp < l
  BY <1>1, <1>2 DEF Dividing, SortTypes, Part
<1>5. CASE lp - a >= l - hp
  <2>1. a' = high.a /\ l' = high.l /\ stack' = <<low>> \o stack
    BY <1>5 DEF Divide
  <2>2. low.l - low.a <= l - a /\ 2 * (high.l - high.a + 1) <= l - a + 1
    BY <1>1, <1>4, <1>5 DEF SortTypes
  <2>3. low.a <= low.l /\ high.a <= high.l
    BY <1>1, <1>4 DEF SortTypes
  <2> QED BY <1>3, <1>4, <2>1, <2>2, <2>3
<1>6. CASE ~(lp - a >= l - hp)
  <2>1. a' = low.a /\ l' = low.l /\ stack' = <<high>> \o stack
    BY <1>6 DEF Divide
  <2>2. high.l - high.a <= l - a /\ 2 * (low.l - low.a + 1) <= l - a + 1
    BY <1>1, <1>4, <1>6 DEF SortTypes
  <2>3. low.a <= low.l /\ high.a <= high.l
    BY <1>1, <1>4 DEF SortTypes
  <2> QED BY <1>3, <1>4, <2>1, <2>2, <2>3
<1> QED BY <1>5, <1>6

LEMMA ReturnHalves ==
  ASSUME SortInv, Halved, Return
  PROVE  Halved'
<1>1. SortTypes /\ Places' = Places
  BY DEF SortInv, Return, Places
<1>2. CASE stack = <<>>
  BY <1>1, <1>2 DEF Return, Halved, Small, Cur
<1>3. CASE stack # <<>>
  <2> PICK q, t : q = Head(stack) /\ t = Tail(stack)
    OBVIOUS
  <2>1. a' = q.a /\ l' = q.l /\ stack' = t
    BY <1>3 DEF Return
  <2>2. /\ q \in Part /\ t \in Seq(Part) /\ 1 \in DOMAIN stack /\ stack[1] = q
        /\ \A x \in DOMAIN t : x + 1 \in DOMAIN stack /\ t[x] = stack[x + 1]
    BY <1>1, <1>3, Popped DEF SortTypes
  <2>3. Cur' = q /\ Len(t) = Len(stack) - 1 /\ Len(stack) \in Nat
    BY <1>1, <1>3, <2>1, <2>2 DEF Cur, Part, SortTypes
  <2>4. \A x \in DOMAIN t : Len(t) - x = Len(stack) - (x + 1)
    BY <2>2, <2>3
  <2>5. Small(q, Len(t)) /\ \A x \in DOMAIN t : Small(t[x], Len(t) - x)
    BY <2>2, <2>3, <2>4 DEF Halved
  <2>6. Small(Cur, Len(stack))'
    BY <1>1, <2>1, <2>3, <2>5 DEF Small
  <2>7. (\A x \in DOMAIN stack : Small(stack[x], Len(stack) - x))'
    BY <1>1, <2>1, <2>5 DEF Small
  <2> QED BY <2>6, <2>7 DEF Halved
<1> QED BY <1>2, <1>3

\* The calls of qs1 that have not returned are at most as many as the logarithm of the
\* length, for every length: the larger part waits, and what waits has half of what was
\* left.
THEOREM DepthIsLogarithmic ==
  ASSUME PowersOfTwo
  PROVE  Spec => []ShallowStack
<1>1. SortInit => Halved
  <2> SUFFICES ASSUME SortInit PROVE Halved
    OBVIOUS
  <2>1. a = 0 /\ l \in Nat /\ Places = 0 .. l - 1 /\ stack = <<>>
    <3>1. \E n \in 0 .. MaxElements : DOMAIN input = 0 .. n - 1
      BY ArrayPlaces DEF SortInit
    <3>2. l \in 0 .. MaxElements /\ DOMAIN input = 0 .. l - 1
      BY <3>1 DEF SortInit
    <3>3. a = 0 /\ stack = <<>>
      BY DEF SortInit
    <3> QED BY <3>2, <3>3, QsortAssumption DEF Places
  <2>2. Cardinality(Places) = l
    BY <2>1, FS_Interval
  <2> QED BY <2>1, <2>2 DEF Halved, Small, Cur, PowersOfTwo
<1>2. SortInv /\ Halved /\ [SortStep]_sortVars => Halved'
  <2> SUFFICES ASSUME SortInv, Halved, [SortStep]_sortVars PROVE Halved'
    OBVIOUS
  <2>1. CASE UNCHANGED <<input, a, l, stack>>
    BY <2>1 DEF Halved, Small, Places, Cur
  <2>2. CASE Divide
    BY <2>2, DivideHalves
  <2>3. CASE Return
    BY <2>3, ReturnHalves
  <2> QED BY <2>1, <2>2, <2>3 DEF SortStep, Goto, sortVars, Start, LeftEqual, LeftLess, LeftStops,
          RightEqual, RightGreater, ShiftUp, Exchange, ShiftDown
<1>3. ASSUME SortInv, Halved PROVE ShallowStack
  <2>1. SortTypes /\ a <= l /\ Len(stack) \in Nat /\ IsFiniteSet(Places)
    BY <1>3, ArrayPlaces DEF SortInv, SortTypes, PartsApart, Shaped, Cur, Places
  <2> PICK x, z, c : x = l - a + 1 /\ z = 2 ^ Len(stack) /\ c = Cardinality(Places) + 1
    OBVIOUS
  <2>2. x \in Nat /\ x >= 1 /\ z \in Nat /\ c \in Nat /\ x * z <= c
    BY <1>3, <2>1, FS_CardinalityType DEF Halved, Small, Cur, SortTypes, PowersOfTwo
  <2>3. z <= x * z /\ x * z \in Nat
    BY ONLY <2>2
  <2> QED BY <2>2, <2>3 DEF ShallowStack, Places
<1>4. NoSort => ShallowStack
  <2>1. NoSort => stack = <<>> /\ DOMAIN input = {}
    BY DEF NoSort
  <2>2. Len(<<>>) = 0 /\ Cardinality({}) = 0
    BY FS_EmptySet
  <2> QED BY <2>1, <2>2 DEF ShallowStack, PowersOfTwo
<1>5. Init => (job = "sort" => Halved)
  BY <1>1 DEF Init
<1>6. JobInv /\ (job = "sort" => Halved) /\ [Next]_vars => (job = "sort" => Halved)'
  BY <1>2, OneJob DEF JobInv
<1>7. JobInv /\ (job = "sort" => Halved) => ShallowStack
  BY <1>3, <1>4 DEF JobInv
<1> QED BY <1>5, <1>6, <1>7, JobAlways, PTL DEF Spec
----------------------------------------------------------------------------
\* How much a sort has still to do: every place of a part that waits may take a division,
\* and a pass over the array for it; within a division the two pointers have what is
\* between them and the middle to go.
Length == Cardinality(Places)

Unsettled ==
  {k \in Places : \/ pc # "done" /\ Within(k, Cur)
                  \/ \E x \in DOMAIN stack : Within(k, stack[x])}

ToGo == (lp - i) + (j - hp)

PassLeft == CASE pc = "start" -> 2 * Length + 1
              [] pc = "left"  -> 2 * ToGo + 1
              [] pc = "right" -> 2 * ToGo
              [] pc = "done"  -> 0

SortLeft  == Cardinality(Unsettled) * (2 * Length + 3) + Len(stack) + PassLeft

SortBound == Length * (2 * Length + 3) + 2 * Length + 1

SortGetsOn == [][Sorting => SortLeft' < SortLeft]_vars

LEMMA LengthFacts ==
  ASSUME SortTypes, NEW S \in SUBSET Places
  PROVE  Length \in Nat /\ IsFiniteSet(S) /\ Cardinality(S) \in 0 .. Length
<1>1. IsFiniteSet(Places)
  BY ArrayPlaces DEF SortTypes, Places
<1>2. IsFiniteSet(S) /\ Cardinality(S) <= Length
  BY <1>1, FS_Subset DEF Length
<1> QED BY <1>1, <1>2, FS_CardinalityType DEF Length

\* A part is no longer than the array.
LEMMA PartLength ==
  ASSUME SortTypes, Shaped(Cur)
  PROVE  l - a <= Length
<1>1. PICK n \in Nat : Places = 0 .. n - 1
  <2>1. \E n \in 0 .. MaxElements : DOMAIN input = 0 .. n - 1
    BY ArrayPlaces DEF SortTypes
  <2> QED BY <2>1, QsortAssumption DEF Places
<1>2. Length = n
  BY <1>1, FS_Interval DEF Length
<1>3. a \in Int /\ l \in Int
  BY DEF SortTypes
<1>4. CASE a < l
  <2>1. Within(a, Cur) /\ Within(l - 1, Cur)
    BY <1>3, <1>4 DEF Within, Cur
  <2>2. a \in Places /\ l - 1 \in Places
    BY <1>3, <2>1 DEF Shaped
  <2> QED BY <1>1, <1>2, <1>3, <2>2
<1> QED BY <1>1, <1>2, <1>3, <1>4

\* The parts of the measure.
LEMMA SortLeftParts ==
  ASSUME SortInv
  PROVE  /\ Length \in Nat /\ Cardinality(Unsettled) \in 0 .. Length /\ Len(stack) \in Nat
         /\ PassLeft \in 0 .. 2 * Length + 1 /\ SortLeft \in Nat
<1>1. SortTypes /\ Shaped(Cur) /\ (pc \in {"left", "right"} => Dividing)
  BY DEF SortInv, PartsApart
<1>2. Length \in Nat /\ Cardinality(Unsettled) \in 0 .. Length /\ l - a <= Length
  BY <1>1, LengthFacts, PartLength DEF Unsettled
<1>3. /\ i \in Int /\ j \in Int /\ lp \in Int /\ hp \in Int /\ a \in Int /\ l \in Int
      /\ Len(stack) \in Nat /\ pc \in {"start", "left", "right", "done"}
  BY <1>1 DEF SortTypes
<1>4. PassLeft \in 0 .. 2 * Length + 1
  <2>1. CASE pc \in {"left", "right"}
    <3>1. ToGo \in Nat /\ ToGo <= Length
      BY <1>1, <1>2, <1>3, <2>1 DEF Dividing, ToGo
    <3> QED BY <1>2, <2>1, <3>1 DEF PassLeft
  <2> QED BY <1>2, <1>3, <2>1 DEF PassLeft
<1> PICK u, n, k, d : /\ u = Cardinality(Unsettled) /\ n = Length
                      /\ k = Len(stack) /\ d = PassLeft
  OBVIOUS
<1>5. u * (2 * n + 3) + k + d \in Nat
  <2>1. u \in Nat /\ n \in Nat /\ k \in Nat /\ d \in Nat
    BY <1>2, <1>3, <1>4
  <2>2. u * (2 * n + 3) \in Nat
    BY ONLY <2>1
  <2> QED BY ONLY <2>1, <2>2
<1> QED BY <1>2, <1>3, <1>4, <1>5 DEF SortLeft

\* A place settled outweighs a call and a pass; without one, the calls and the pass count.
LEMMA Settles ==
  ASSUME NEW u \in Nat, NEW v \in Nat, NEW n \in Nat, NEW k \in Nat, NEW m \in Nat,
         NEW d \in Nat, NEW e \in Nat, v <= u
  PROVE  /\ m + e < k + d => v * (2 * n + 3) + m + e < u * (2 * n + 3) + k + d
         /\ v < u /\ m + e <= k + 2 * n + 2
              => v * (2 * n + 3) + m + e < u * (2 * n + 3) + k + d
<1> PICK c : c = u - v
  OBVIOUS
<1>1. c \in Nat /\ u = v + c
  OBVIOUS
<1>2. PICK x, y : x = v * (2 * n + 3) /\ y = c * (2 * n + 3)
  OBVIOUS
<1>3. /\ x \in Nat /\ y \in Nat /\ u * (2 * n + 3) = x + y
      /\ c > 0 => y >= 2 * n + 3
  BY ONLY <1>1, <1>2, n \in Nat, v \in Nat
<1> QED BY <1>1, <1>2, <1>3

\* So a step gets on that settles no place and shortens what else there is, or settles one.
LEMMA StepSettles ==
  ASSUME SortInv, SortInv', UNCHANGED input,
         Cardinality(Unsettled') <= Cardinality(Unsettled),
         \/ Len(stack') + PassLeft' < Len(stack) + PassLeft
         \/ /\ Cardinality(Unsettled') < Cardinality(Unsettled)
            /\ Len(stack') + PassLeft' <= Len(stack) + 2 * Length + 2
  PROVE  SortLeft' < SortLeft
<1> PICK u, v, n, k, m, d, e :
      /\ u = Cardinality(Unsettled) /\ v = Cardinality(Unsettled') /\ n = Length
      /\ k = Len(stack) /\ m = Len(stack') /\ d = PassLeft /\ e = PassLeft'
  OBVIOUS
<1>1. Length' = Length
  BY DEF Length, Places
<1>2. u \in Nat /\ n \in Nat /\ k \in Nat /\ d \in Nat
  BY SortLeftParts
<1>3. v \in Nat /\ m \in Nat /\ e \in Nat
  <2>1. (SortInv => /\ Length \in Nat /\ Cardinality(Unsettled) \in 0 .. Length
                    /\ Len(stack) \in Nat /\ PassLeft \in 0 .. 2 * Length + 1)'
    BY SortLeftParts, PTL
  <2> QED BY <1>1, <1>2, <2>1
<1>4. v * (2 * n + 3) + m + e < u * (2 * n + 3) + k + d
  BY <1>2, <1>3, Settles
<1> QED BY <1>1, <1>4 DEF SortLeft

\* Every step of a sort gets on.
LEMMA SortAdvances ==
  ASSUME SortInv, SortStep
  PROVE  SortLeft' < SortLeft
<1>1. SortInv' /\ UNCHANGED input
  BY SortKeeps DEF SortStep, Start, Return, LeftEqual, LeftLess, LeftStops, RightEqual,
     RightGreater, ShiftUp, Exchange, ShiftDown, Divide, Goto
<1>2. SortTypes /\ PartsApart /\ Shaped(Cur) /\ (pc \in {"left", "right"} => Dividing)
  BY DEF SortInv, PartsApart
<1>3. /\ i \in Int /\ j \in Int /\ lp \in Int /\ hp \in Int /\ a \in Int /\ l \in Int
      /\ Len(stack) \in Nat /\ Length \in Nat /\ Length' = Length /\ Places' = Places
      /\ Cardinality(Unsettled) \in Nat
  BY <1>1, <1>2, SortLeftParts DEF SortTypes, Length, Places
<1>4. ASSUME UNCHANGED <<a, l, stack>>, pc # "done", pc' # "done", PassLeft' < PassLeft,
             PassLeft \in Int, PassLeft' \in Int
      PROVE  SortLeft' < SortLeft
  <2>1. Unsettled' = Unsettled
    BY <1>3, <1>4 DEF Unsettled, Within, Cur
  <2> QED BY <1>1, <1>3, <1>4, <2>1, StepSettles
<1>5. CASE Start
  <2>1. /\ lp' = a + (l - a) \div 2 /\ hp' = lp' /\ i' = a /\ j' = l - 1 /\ pc' = "left"
        /\ pc = "start" /\ UNCHANGED <<a, l, stack>>
    BY <1>5 DEF Start, Goto
  <2>2. lp' \in Int /\ (lp' - i') + (j' - hp') = l - 1 - a /\ l - a <= Length
    BY <1>2, <1>3, <2>1, PartLength
  <2>3. PassLeft' = 2 * (l - 1 - a) + 1 /\ PassLeft = 2 * Length + 1
    BY <2>1, <2>2 DEF PassLeft, ToGo
  <2> QED BY <1>3, <1>4, <2>1, <2>2, <2>3
<1>6. ASSUME pc \in {"left", "right"}, pc' \in {"left", "right"}, UNCHANGED <<a, l, stack>>,
             ToGo' \in Int,
             ToGo' < ToGo \/ (ToGo' = ToGo /\ pc = "left" /\ pc' = "right")
      PROVE  SortLeft' < SortLeft
  <2>1. ToGo \in Int
    BY <1>3 DEF ToGo
  <2>2. /\ PassLeft = IF pc = "left" THEN 2 * ToGo + 1 ELSE 2 * ToGo
        /\ PassLeft' = IF pc' = "left" THEN 2 * ToGo' + 1 ELSE 2 * ToGo'
    BY <1>6 DEF PassLeft
  <2> PICK t, u, d, e : t = ToGo /\ u = ToGo' /\ d = PassLeft /\ e = PassLeft'
    OBVIOUS
  <2>3. /\ t \in Int /\ u \in Int
        /\ u < t \/ (u = t /\ d = 2 * t + 1 /\ e = 2 * u)
        /\ d \in {2 * t + 1, 2 * t} /\ e \in {2 * u + 1, 2 * u}
    BY <1>6, <2>1, <2>2
  <2>4. d \in Int /\ e \in Int /\ e < d
    BY ONLY <2>3
  <2> QED BY <1>4, <1>6, <2>4
<1>7. CASE LeftEqual \/ LeftLess \/ LeftStops
  <2>1. /\ pc = "left" /\ pc' \in {"left", "right"} /\ UNCHANGED <<a, l, stack, j, hp>>
        /\ \/ lp' = lp - 1 /\ i' = i
           \/ lp' = lp /\ i' = i + 1
           \/ lp' = lp /\ i' = i /\ pc' = "right"
    BY <1>7 DEF LeftEqual, LeftLess, LeftStops, Goto
  <2>2. ToGo' \in Int /\ (ToGo' < ToGo \/ (ToGo' = ToGo /\ pc' = "right"))
    BY <1>3, <2>1 DEF ToGo
  <2> QED BY <1>6, <2>1, <2>2
<1>8. CASE RightEqual \/ RightGreater \/ ShiftUp \/ Exchange \/ ShiftDown
  <2>1. /\ pc = "right" /\ pc' \in {"left", "right"} /\ UNCHANGED <<a, l, stack>>
        /\ \/ UNCHANGED <<i, j, lp>> /\ hp' = hp + 1
           \/ UNCHANGED <<i, lp, hp>> /\ j' = j - 1
           \/ i = lp /\ UNCHANGED j /\ hp' = hp + 1 /\ lp' = lp + 1 /\ i' = lp + 1
           \/ UNCHANGED <<lp, hp>> /\ j' = j - 1 /\ i' = i + 1
           \/ j <= hp /\ UNCHANGED i /\ lp' = lp - 1 /\ hp' = hp - 1 /\ j' = hp - 1
    BY <1>8 DEF RightEqual, RightGreater, ShiftUp, Exchange, ShiftDown, Goto
  <2>2. hp <= j
    BY <1>2, <2>1 DEF Dividing
  <2>3. ToGo' \in Int /\ ToGo' < ToGo
    BY <1>3, <2>1, <2>2 DEF ToGo
  <2> QED BY <1>6, <2>1, <2>3
<1>9. CASE Divide
  <2> PICK low, high : low = [a |-> a, l |-> lp] /\ high = [a |-> hp + 1, l |-> l]
    OBVIOUS
  <2>1. /\ pc = "right" /\ pc' = "start"
        /\ \/ stack' = <<low>> \o stack /\ Cur' = high
           \/ stack' = <<high>> \o stack /\ Cur' = low
    BY <1>9 DEF Divide, Cur
  <2>2. low \in Part /\ high \in Part /\ a <= lp /\ lp <= hp /\ hp < l
    BY <1>2, <1>3, <2>1 DEF Part, Dividing
  <2>3. /\ Len(stack') = Len(stack) + 1
        /\ \A x \in DOMAIN stack' : \/ stack'[x] \in {low, high}
                                    \/ \E y \in DOMAIN stack : stack'[x] = stack[y]
    <3>1. ASSUME NEW p \in Part, stack' = <<p>> \o stack
          PROVE  /\ Len(stack') = Len(stack) + 1
                 /\ \A x \in DOMAIN stack' : \/ stack'[x] = p
                                             \/ \E y \in DOMAIN stack : stack'[x] = stack[y]
      BY <1>2, <3>1, Pushed DEF SortTypes
    <3> QED BY <2>1, <2>2, <3>1
  <2>4. \A k \in Int : Within(k, low) \/ Within(k, high) => Within(k, Cur) /\ k # lp
    BY <1>3, <2>2 DEF Within, Cur
  <2>5. Places \subseteq Int /\ lp \in Places /\ Within(lp, Cur)
    <3>1. Within(lp, Cur)
      BY <1>3, <2>2 DEF Within, Cur
    <3> QED BY <1>2, <1>3, <3>1, ArrayPlaces DEF Shaped, SortTypes, Places
  <2>6. \A x \in DOMAIN stack : ~Within(lp, stack[x])
    <3> SUFFICES ASSUME NEW x \in DOMAIN stack, Within(lp, stack[x]) PROVE FALSE
      OBVIOUS
    <3>1. stack[x] \in Part /\ Apart(Cur, stack[x])
      BY <1>2 DEF SortTypes, PartsApart
    <3>2. stack[x].a \in Int /\ stack[x].l \in Int
      BY <3>1 DEF Part
    <3> QED BY <1>3, <2>2, <3>1, <3>2 DEF Apart, Within, Cur
  <2>7. Unsettled' \subseteq Unsettled \ {lp}
    <3> SUFFICES ASSUME NEW k \in Unsettled' PROVE k \in Unsettled /\ k # lp
      OBVIOUS
    <3>1. k \in Places /\ k \in Int
      BY <1>3, <2>5 DEF Unsettled
    <3>2. Within(k, low) \/ Within(k, high) \/ \E y \in DOMAIN stack : Within(k, stack[y])
      <4>1. Within(k, Cur') \/ \E x \in DOMAIN stack' : Within(k, stack'[x])
        BY DEF Unsettled, Within
      <4> QED BY <2>1, <2>3, <4>1
    <3> QED BY <2>1, <2>4, <2>6, <3>1, <3>2 DEF Unsettled
  <2>8. lp \in Unsettled /\ IsFiniteSet(Unsettled)
    BY <1>2, <2>1, <2>5, LengthFacts DEF Unsettled
  <2>9. Cardinality(Unsettled') <= Cardinality(Unsettled) - 1
    <3>1. IsFiniteSet(Unsettled \ {lp}) /\ Cardinality(Unsettled \ {lp}) = Cardinality(Unsettled) - 1
      BY <2>8, FS_RemoveElement
    <3>2. Cardinality(Unsettled') <= Cardinality(Unsettled \ {lp})
      BY <2>7, <3>1, FS_Subset
    <3> QED BY <3>1, <3>2
  <2>10. Cardinality(Unsettled') \in Nat
    <3>1. IsFiniteSet(Unsettled')
      BY <2>7, <2>8, FS_Subset
    <3> QED BY <3>1, FS_CardinalityType
  <2>11. PassLeft' = 2 * Length + 1
    BY <1>3, <2>1 DEF PassLeft
  <2> QED BY <1>1, <1>3, <2>3, <2>9, <2>10, <2>11, StepSettles
<1>10. CASE Return
  <2>1. Unsettled' \subseteq Unsettled /\ Len(stack') + PassLeft' < Len(stack) + PassLeft
    <3>1. pc = "start" /\ PassLeft = 2 * Length + 1
      BY <1>10 DEF Return, PassLeft
    <3>2. CASE stack = <<>>
      <4>1. pc' = "done" /\ UNCHANGED <<a, l, stack>> /\ PassLeft' = 0
        BY <1>10, <3>2 DEF Return, PassLeft
      <4>2. Unsettled' = {}
        BY <3>2, <4>1 DEF Unsettled
      <4> QED BY <1>3, <3>1, <4>1, <4>2
    <3>3. CASE stack # <<>>
      <4> PICK q, t : q = Head(stack) /\ t = Tail(stack)
        OBVIOUS
      <4>1. a' = q.a /\ l' = q.l /\ stack' = t /\ pc' = "start"
        BY <1>10, <3>3 DEF Return
      <4>2. /\ q \in Part /\ t \in Seq(Part) /\ 1 \in DOMAIN stack /\ stack[1] = q
            /\ \A x \in DOMAIN t : x + 1 \in DOMAIN stack /\ t[x] = stack[x + 1]
        BY <1>2, <3>3, Popped DEF SortTypes
      <4>3. Cur' = q /\ Len(t) = Len(stack) - 1
        BY <1>2, <3>3, <4>1, <4>2 DEF Cur, Part, SortTypes
      <4>4. Unsettled' \subseteq Unsettled
        <5> SUFFICES ASSUME NEW k \in Unsettled' PROVE k \in Unsettled
          OBVIOUS
        <5>1. k \in Places /\ (Within(k, Cur') \/ \E x \in DOMAIN t : Within(k, t[x]))
          BY <1>3, <4>1 DEF Unsettled, Within
        <5>2. \E y \in DOMAIN stack : Within(k, stack[y])
          BY <4>2, <4>3, <5>1
        <5> QED BY <5>1, <5>2 DEF Unsettled
      <4>5. PassLeft' = 2 * Length + 1
        BY <1>3, <4>1 DEF PassLeft
      <4>6. Len(stack') = Len(stack) - 1
        BY ONLY <4>1, <4>3
      <4>7. PassLeft' = PassLeft /\ PassLeft \in Int /\ Len(stack) \in Int
        BY <1>3, <3>1, <4>5
      <4>8. Len(stack') + PassLeft' < Len(stack) + PassLeft
        BY ONLY <4>6, <4>7
      <4> QED BY <4>4, <4>8
    <3> QED BY <3>2, <3>3
  <2>2. IsFiniteSet(Unsettled)
    BY <1>2, LengthFacts DEF Unsettled
  <2>3. Cardinality(Unsettled') <= Cardinality(Unsettled)
    BY <2>1, <2>2, FS_Subset
  <2> QED BY <1>1, <2>1, <2>3, StepSettles
<1> QED BY <1>5, <1>7, <1>8, <1>9, <1>10 DEF SortStep

\* A sort is over after a number of steps that the square of the length bounds: what is left
\* of it never exceeds the bound, and every step leaves less than it found.
THEOREM SortIsShort == Spec => [](job = "sort" => SortLeft \in 0 .. SortBound) /\ SortGetsOn
<1> DEFINE Short == job = "sort" => SortLeft <= SortBound
           Gets  == Sorting => SortLeft' < SortLeft
<1>1. ASSUME SortInv PROVE SortLeft \in Nat /\ SortBound \in Int
  <2>1. Length \in Nat /\ SortLeft \in Nat
    BY <1>1, SortLeftParts
  <2> QED BY <2>1 DEF SortBound
<1>2. JobInv /\ Short => (job = "sort" => SortLeft \in 0 .. SortBound)
  BY <1>1 DEF JobInv
<1>3. ASSUME SortInit PROVE SortLeft <= SortBound
  <2> PICK u, n : u = Cardinality(Unsettled) /\ n = Length
    OBVIOUS
  <2>1. u \in 0 .. n /\ n \in Nat
    BY <1>3, SortStarts, SortLeftParts
  <2>2. Len(stack) = 0 /\ PassLeft = 2 * n + 1
    BY <1>3 DEF SortInit, PassLeft
  <2>3. u * (2 * n + 3) <= n * (2 * n + 3) /\ u * (2 * n + 3) \in Nat /\ n * (2 * n + 3) \in Nat
    BY ONLY <2>1
  <2>4. u * (2 * n + 3) + 0 + (2 * n + 1) <= n * (2 * n + 3) + 2 * n + 1
    BY ONLY <2>1, <2>3
  <2> QED BY <2>2, <2>4 DEF SortLeft, SortBound
<1>4. Init => Short
  BY <1>3 DEF Init
<1>5. JobInv /\ JobInv' /\ Short /\ [Next]_vars => Short' /\ [Gets]_vars
  <2> SUFFICES ASSUME JobInv, JobInv', Short, [Next]_vars PROVE Short' /\ Gets
    OBVIOUS
  <2>1. CASE job # "sort"
    BY <2>1, OneJob DEF Sorting
  <2>2. CASE job = "sort"
    <3>1. SortInv /\ SortInv' /\ [SortStep]_sortVars /\ SortLeft <= SortBound
      BY <2>2, OneJob DEF JobInv
    <3>2. SortLeft \in Nat /\ SortLeft' \in Nat /\ SortBound \in Int
      <4>1. (SortInv => SortLeft \in Nat)'
        BY <1>1, PTL
      <4> QED BY <1>1, <3>1, <4>1
    <3>3. CASE SortStep
      <4>1. SortBound' = SortBound
        BY <3>3 DEF SortBound, Length, Places, SortStep, Start, Return, LeftEqual, LeftLess,
           LeftStops, RightEqual, RightGreater, ShiftUp, Exchange, ShiftDown, Divide, Goto
      <4> QED BY <3>1, <3>2, <3>3, <4>1, SortAdvances
    <3>4. CASE UNCHANGED sortVars /\ ~SortStep
      <4>1. SortLeft' = SortLeft /\ SortBound' = SortBound
        BY <3>4 DEF sortVars, SortLeft, SortBound, Unsettled, PassLeft, ToGo, Length, Places,
           Within, Cur
      <4> QED BY <3>1, <3>4, <4>1 DEF Sorting
    <3> QED BY <3>1, <3>3, <3>4
  <2> QED BY <2>1, <2>2
<1> QED BY <1>2, <1>4, <1>5, JobAlways, PTL DEF Spec, SortGetsOn
----------------------------------------------------------------------------

\* The least and the greatest of a set of positions.
LEMMA LeastPlace ==
  ASSUME NEW S, S \subseteq Nat, S # {}
  PROVE  Min(S) \in S /\ \A y \in S : Min(S) <= y
<1>1. PICK x \in S : \A y \in S : <<y, x>> \notin OpToRel(<, Nat)
  BY NatLessThanWellFounded, WFMin
<1>2. ASSUME NEW y \in S PROVE x <= y
  <2>1. ~(y < x)
    BY <1>1 DEF OpToRel
  <2> QED BY <2>1
<1>3. Min(S) = CHOOSE z \in S : \A y \in S : z <= y
  BY DEF Min
<1> QED BY <1>2, <1>3

LEMMA GreatestPlace ==
  ASSUME NEW n \in Nat, NEW S, S \subseteq 0 .. n, S # {}
  PROVE  Max(S) \in S /\ \A y \in S : y <= Max(S)
<1> DEFINE T == {n - y : y \in S}
<1>1. T \subseteq Nat /\ T # {}
  <2>1. \A y \in S : y \in 0 .. n /\ n - y \in Nat
    OBVIOUS
  <2> QED BY <2>1
<1>2. Min(T) \in T /\ \A y \in T : Min(T) <= y
  BY <1>1, LeastPlace
<1>3. PICK x \in S : Min(T) = n - x
  BY <1>2
<1>4. \A y \in S : y <= x
  BY <1>2, <1>3
<1>5. Max(S) = CHOOSE z \in S : \A y \in S : z >= y
  BY DEF Max
<1> QED BY <1>4, <1>5

----------------------------------------------------------------------------
\* Buffers and texts.
Buffer(n) == [1 .. n -> Chars]

LEMMA BufferFacts ==
  ASSUME NEW n \in Nat, NEW s \in Buffer(n)
  PROVE  /\ DOMAIN s = 1 .. n /\ \A k \in 1 .. n : s[k] \in Chars /\ s[k] \in Int
         /\ \A k \in 1 .. n : -128 <= s[k] /\ s[k] <= 127
         /\ \A c : At(s, c) \subseteq 1 .. n /\ At(s, c) \subseteq Nat
         /\ \A c, k : k \in At(s, c) <=> k \in 1 .. n /\ s[k] = c
<1>1. DOMAIN s = 1 .. n /\ \A k \in 1 .. n : s[k] \in Chars
  BY DEF Buffer
<1>2. \A k \in 1 .. n : s[k] \in -128 .. 127
  BY <1>1, BuffersAssumption
<1>3. \A k \in 1 .. n : s[k] \in Int /\ -128 <= s[k] /\ s[k] <= 127
  BY <1>2
<1>4. \A c, k : k \in At(s, c) <=> k \in 1 .. n /\ s[k] = c
  BY <1>1 DEF At
<1>5. \A c : At(s, c) \subseteq 1 .. n /\ At(s, c) \subseteq Nat
  <2>1. 1 .. n \subseteq Nat
    OBVIOUS
  <2> QED BY <2>1, <1>4
<1> QED BY <1>1, <1>3, <1>4, <1>5

\* The text of a buffer ends before its first NUL.
LEMMA TextEnds ==
  ASSUME NEW n \in Nat, NEW s \in Buffer(n), Terminated(s)
  PROVE  /\ strlen(s) \in Nat /\ strlen(s) < n /\ s[strlen(s) + 1] = NUL
         /\ \A k \in 1 .. strlen(s) : s[k] # NUL
<1> DEFINE e == Min(At(s, NUL))
<1>1. e \in At(s, NUL) /\ \A y \in At(s, NUL) : e <= y
  BY BufferFacts, LeastPlace DEF Terminated
<1>2. e \in 1 .. n /\ s[e] = NUL
  BY <1>1, BufferFacts
<1>3. strlen(s) = e - 1
  BY DEF strlen
<1>4. ASSUME NEW k \in 1 .. e - 1 PROVE s[k] # NUL
  <2>1. k \in 1 .. n /\ k < e /\ ~(e <= k)
    BY <1>2
  <2>2. k \notin At(s, NUL)
    BY <2>1, <1>1
  <2> QED BY <2>1, <2>2, BufferFacts
<1> HIDE DEF e
<1> QED BY <1>2, <1>3, <1>4

LEMMA TextLength ==
  ASSUME NEW n \in Nat, NEW s \in Buffer(n), NEW m \in Nat, m < n, s[m + 1] = NUL,
         \A k \in 1 .. m : s[k] # NUL
  PROVE  Terminated(s) /\ strlen(s) = m
<1>1. m + 1 \in At(s, NUL)
  BY BufferFacts
<1>2. Terminated(s)
  BY <1>1 DEF Terminated
<1>3. strlen(s) \in Nat /\ strlen(s) < n /\ s[strlen(s) + 1] = NUL
      /\ \A k \in 1 .. strlen(s) : s[k] # NUL
  BY <1>2, TextEnds
<1>4. ~(strlen(s) < m) /\ ~(m < strlen(s))
  BY <1>3
<1> QED BY <1>2, <1>3, <1>4

\* strnlen stops at the limit or at the first NUL, whichever comes first.
LEMMA LimitedLength ==
  ASSUME NEW r \in Nat, NEW s \in Buffer(r), NEW n \in 0 .. r
  PROVE  /\ strnlen(s, n) \in 0 .. n /\ \A k \in 1 .. strnlen(s, n) : s[k] # NUL
         /\ strnlen(s, n) < n => s[strnlen(s, n) + 1] = NUL
<1> DEFINE L == {n} \cup {k - 1 : k \in At(s, NUL)}
<1>1. L \subseteq Nat /\ L # {}
  BY BufferFacts
<1>2. Min(L) \in L /\ \A y \in L : Min(L) <= y
  BY <1>1, LeastPlace
<1>3. strnlen(s, n) = Min(L)
  BY DEF strnlen
<1>4. Min(L) \in Nat /\ Min(L) <= n
  BY <1>1, <1>2
<1>5. ASSUME NEW k \in 1 .. Min(L) PROVE s[k] # NUL
  <2>1. k \in 1 .. r
    BY <1>4
  <2>2. CASE s[k] = NUL
    <3>1. k \in At(s, NUL)
      BY <2>1, <2>2, BufferFacts
    <3>2. k - 1 \in L
      BY <3>1
    <3> QED BY <3>2, <1>2, <1>4
  <2> QED BY <2>2
<1>6. ASSUME Min(L) < n PROVE s[Min(L) + 1] = NUL
  <2>0. Min(L) # n
    BY <1>4, <1>6
  <2>1. PICK k \in At(s, NUL) : Min(L) = k - 1
    BY ONLY <1>2, <2>0
  <2>2. k \in 1 .. r /\ s[k] = NUL
    BY BufferFacts
  <2> QED BY <2>1, <2>2
<1> QED BY <1>3, <1>4, <1>5, <1>6

LEMMA LimitedLengthIs ==
  ASSUME NEW r \in Nat, NEW s \in Buffer(r), NEW n \in 0 .. r, NEW m \in 0 .. n,
         \A k \in 1 .. m : s[k] # NUL, m < n => s[m + 1] = NUL
  PROVE  strnlen(s, n) = m
<1> DEFINE x == strnlen(s, n)
<1>1. x \in 0 .. n /\ (\A k \in 1 .. x : s[k] # NUL) /\ (x < n => s[x + 1] = NUL)
  BY LimitedLength
<1> HIDE DEF x
<1>2. ~(x < m) /\ ~(m < x)
  BY <1>1
<1> QED BY <1>1, <1>2 DEF x

----------------------------------------------------------------------------
\* Comparisons.

\* Two texts agree as far as m, which is the limit, the end of a buffer, or the end of both.
Agree(s, t, r, u, n, m) ==
  /\ m \in 0 .. n /\ m <= r /\ m <= u /\ \A k \in 1 .. m : s[k] = t[k] /\ s[k] # NUL
  /\ m = n \/ m = r \/ m = u \/ (s[m + 1] = NUL /\ t[m + 1] = NUL)

LEMMA StopsFacts ==
  ASSUME NEW r \in Nat, NEW u \in Nat, NEW s \in Buffer(r), NEW t \in Buffer(u)
  PROVE  /\ Stops(s, t) \subseteq Nat /\ Stops(s, t) = Stops(t, s)
         /\ \A k : k \in Stops(s, t) <=>
                     k \in 1 .. r /\ k \in 1 .. u /\ (s[k] # t[k] \/ s[k] = NUL)
<1>1. DOMAIN s = 1 .. r /\ DOMAIN t = 1 .. u /\ 1 .. r \subseteq Nat
  BY BufferFacts
<1> QED BY <1>1 DEF Stops

\* strncmp is 0 for texts that agree and no others.
LEMMA Compared ==
  ASSUME NEW r \in Nat, NEW u \in Nat, NEW s \in Buffer(r), NEW t \in Buffer(u), NEW n \in Nat
  PROVE  (strncmp(s, t, n) = 0) <=> \E m \in Nat : Agree(s, t, r, u, n, m)
<1> DEFINE D == {k \in Stops(s, t) : k <= n}
           d == Min(D)
<1>1. D \subseteq Nat /\ \A k : k \in D <=>
        k \in 1 .. r /\ k \in 1 .. u /\ k <= n /\ (s[k] # t[k] \/ s[k] = NUL)
  BY StopsFacts
<1>2. strncmp(s, t, n) = IF D = {} THEN 0 ELSE s[d] - t[d]
  BY DEF strncmp
<1>3. D # {} => /\ d \in 1 .. r /\ d \in 1 .. u /\ d <= n /\ (s[d] # t[d] \/ s[d] = NUL)
                /\ \A k \in D : d <= k
  BY <1>1, LeastPlace
<1>4. \A k \in 1 .. r : s[k] \in Int
  BY BufferFacts
<1>5. \A k \in 1 .. u : t[k] \in Int
  BY BufferFacts
<1> HIDE DEF D, d
<1>6. ASSUME strncmp(s, t, n) = 0 PROVE \E m \in Nat : Agree(s, t, r, u, n, m)
  <2>1. CASE D = {}
    <3>1. PICK m \in Nat : m \in 0 .. n /\ m <= r /\ m <= u /\ (m = n \/ m = r \/ m = u)
      <4> DEFINE Short(m) == m \in 0 .. n /\ m <= r /\ m <= u /\ (m = n \/ m = r \/ m = u)
      <4>1. CASE n <= r /\ n <= u
        <5>1. Short(n)
          BY <4>1
        <5> QED BY <5>1
      <4>2. CASE r <= n /\ r <= u
        <5>1. Short(r)
          BY <4>2
        <5> QED BY <5>1
      <4>3. CASE u <= n /\ u <= r
        <5>1. Short(u)
          BY <4>3
        <5> QED BY <5>1
      <4> QED BY <4>1, <4>2, <4>3
    <3>2. \A k \in 1 .. m : s[k] = t[k] /\ s[k] # NUL
      <4>1. \A k \in 1 .. m : k \in 1 .. r /\ k \in 1 .. u /\ k <= n
        BY <3>1
      <4> QED BY <4>1, <1>1, <2>1
    <3>3. Agree(s, t, r, u, n, m)
      BY <3>1, <3>2 DEF Agree
    <3> QED BY <3>3
  <2>2. CASE D # {}
    <3>1. s[d] = t[d] /\ s[d] = NUL
      BY <1>2, <1>3, <1>4, <1>5, <1>6, <2>2
    <3>2. PICK m \in Nat : m + 1 = d
      BY <1>3, <2>2
    <3>3. m <= r /\ m <= u /\ m \in 0 .. n
      BY <3>2, <1>3, <2>2
    <3>4. \A k \in 1 .. m : s[k] = t[k] /\ s[k] # NUL
      <4>1. \A k \in 1 .. m : k \in 1 .. r /\ k \in 1 .. u /\ k <= n /\ ~(d <= k)
        BY <3>2, <1>3, <2>2
      <4> QED BY <4>1, <1>1, <1>3, <2>2
    <3> QED BY <3>1, <3>2, <3>3, <3>4 DEF Agree
  <2> QED BY <2>1, <2>2
<1>7. ASSUME NEW m \in Nat, Agree(s, t, r, u, n, m) PROVE strncmp(s, t, n) = 0
  <2>1. CASE D = {}
    BY <2>1, <1>2
  <2>2. CASE D # {}
    <3>1. d \in 1 .. r /\ d \in 1 .. u /\ d <= n /\ (s[d] # t[d] \/ s[d] = NUL)
          /\ \A k \in D : d <= k
      BY <1>3, <2>2
    <3>2. ~(d <= m)
      <4>1. d \in 1 .. m => s[d] = t[d] /\ s[d] # NUL
        BY <1>7 DEF Agree
      <4> QED BY <4>1, <3>1
    <3>3. m < n /\ m < r /\ m < u /\ m + 1 \in 1 .. r /\ m + 1 \in 1 .. u /\ m + 1 <= n
      BY <3>1, <3>2
    <3>4. s[m + 1] = NUL /\ t[m + 1] = NUL
      BY <3>3, <1>7 DEF Agree
    <3>5. m + 1 \in D
      BY <3>3, <3>4, <1>1
    <3>6. d = m + 1
      BY <3>1, <3>2, <3>5
    <3> QED BY <3>6, <3>4, <1>2, <2>2, <1>4, <3>3
  <2> QED BY <2>1, <2>2
<1> QED BY <1>6, <1>7

\* memcmp is 0 for equal bytes and no others.
LEMMA SameBytes ==
  ASSUME NEW r \in Nat, NEW u \in Nat, NEW s \in Buffer(r), NEW t \in Buffer(u),
         NEW n \in Nat, n <= r, n <= u
  PROVE  (memcmp(s, t, n) = 0) <=> \A k \in 1 .. n : s[k] = t[k]
<1> DEFINE D == {k \in 1 .. n : s[k] # t[k]}
           d == Min(D)
<1>1. D \subseteq Nat /\ \A k : k \in D <=> k \in 1 .. n /\ s[k] # t[k]
  OBVIOUS
<1>2. memcmp(s, t, n) = IF D = {} THEN 0 ELSE Unsigned(s[d]) - Unsigned(t[d])
  BY DEF memcmp
<1>3. D # {} => d \in 1 .. n /\ s[d] # t[d]
  BY <1>1, LeastPlace
<1>4. \A k \in 1 .. n : s[k] \in Int /\ -128 <= s[k] /\ s[k] <= 127
  <2>1. \A k \in 1 .. n : k \in 1 .. r
    OBVIOUS
  <2> QED BY <2>1, BufferFacts
<1>5. \A k \in 1 .. n : t[k] \in Int /\ -128 <= t[k] /\ t[k] <= 127
  <2>1. \A k \in 1 .. n : k \in 1 .. u
    OBVIOUS
  <2> QED BY <2>1, BufferFacts
<1> HIDE DEF D, d
<1>6. CASE D = {}
  BY <1>6, <1>1, <1>2
<1>7. CASE D # {}
  <2>1. PICK x \in Int, y \in Int : x = s[d] /\ y = t[d]
    BY <1>3, <1>4, <1>5, <1>7
  <2>2. x # y /\ -128 <= x /\ x <= 127 /\ -128 <= y /\ y <= 127
    BY <2>1, <1>3, <1>4, <1>5, <1>7
  <2>3. (x % 256) - (y % 256) # 0
    BY <2>2
  <2>4. memcmp(s, t, n) # 0
    BY <2>1, <2>3, <1>2, <1>7 DEF Unsigned
  <2> QED BY <2>4, <1>3, <1>7
<1> QED BY <1>6, <1>7

\* strcmp has the same sign as strncmp with a limit behind the end of a text, and the
\* opposite sign with its arguments exchanged.
LEMMA Ordered ==
  ASSUME NEW r \in Nat, NEW u \in Nat, NEW s \in Buffer(r), NEW t \in Buffer(u),
         Terminated(s), Terminated(t)
  PROVE  /\ strcmp(s, t) = -strcmp(t, s)
         /\ \A n \in Nat : n > strlen(t) => Signum(strncmp(s, t, n)) = strcmp(s, t)
<1> DEFINE d == Min(Stops(s, t))
<1>1. strlen(s) \in Nat /\ strlen(s) < r /\ s[strlen(s) + 1] = NUL
      /\ \A k \in 1 .. strlen(s) : s[k] # NUL
  BY TextEnds
<1>2. strlen(t) \in Nat /\ strlen(t) < u /\ t[strlen(t) + 1] = NUL
      /\ \A k \in 1 .. strlen(t) : t[k] # NUL
  BY TextEnds
<1>3. \E k \in Stops(s, t) : k <= strlen(t) + 1
  <2>1. CASE strlen(s) <= strlen(t)
    <3>1. strlen(s) + 1 \in 1 .. r /\ strlen(s) + 1 \in 1 .. u
      BY <1>1, <1>2, <2>1
    <3>2. strlen(s) + 1 \in Stops(s, t)
      BY <3>1, <1>1, StopsFacts
    <3> QED BY <3>2, <2>1, <1>1, <1>2
  <2>2. CASE strlen(t) < strlen(s)
    <3>1. strlen(t) + 1 \in 1 .. r /\ strlen(t) + 1 \in 1 .. u
      BY <1>1, <1>2, <2>2
    <3>2. strlen(t) + 1 \in Stops(s, t)
      <4>1. s[strlen(t) + 1] # t[strlen(t) + 1] \/ s[strlen(t) + 1] = NUL
        BY <1>2
      <4> QED BY <3>1, <4>1, StopsFacts
    <3> QED BY <3>2, <1>2
  <2> QED BY <2>1, <2>2, <1>1, <1>2
<1>4. Stops(s, t) \subseteq Nat /\ Stops(s, t) # {} /\ Stops(t, s) = Stops(s, t)
  BY <1>3, StopsFacts
<1>5. d \in Stops(s, t) /\ \A k \in Stops(s, t) : d <= k
  BY <1>4, LeastPlace
<1>6. d \in Nat /\ d <= strlen(t) + 1
  BY <1>2, <1>3, <1>4, <1>5
<1>7. PICK x \in Int, y \in Int : x = s[d] /\ y = t[d]
  <2>1. d \in 1 .. r /\ d \in 1 .. u
    BY <1>5, StopsFacts
  <2> QED BY <2>1, BufferFacts
<1>8. strcmp(s, t) = IF x = y THEN 0 ELSE Signum(x - y)
  BY <1>7 DEF strcmp
<1>9. strcmp(t, s) = IF y = x THEN 0 ELSE Signum(y - x)
  BY <1>7, <1>4 DEF strcmp
<1>10. strcmp(s, t) = Signum(x - y) /\ strcmp(s, t) = -strcmp(t, s)
  BY <1>8, <1>9 DEF Signum
<1>11. ASSUME NEW n \in Nat, n > strlen(t) PROVE strncmp(s, t, n) = x - y
  <2> DEFINE D == {k \in Stops(s, t) : k <= n}
  <2>1. d \in D /\ D \subseteq Nat
    BY <1>2, <1>4, <1>5, <1>6, <1>11
  <2>2. Min(D) \in D /\ \A k \in D : Min(D) <= k
    BY <2>1, LeastPlace
  <2>3. Min(D) \in Stops(s, t) /\ Min(D) \in Nat /\ Min(D) <= d
    BY <2>1, <2>2
  <2>4. Min(D) = d
    BY ONLY <2>3, <1>5, <1>6
  <2>5. strncmp(s, t, n) = IF D = {} THEN 0 ELSE s[Min(D)] - t[Min(D)]
    BY DEF strncmp
  <2> QED BY <2>1, <2>4, <2>5, <1>7
<1> QED BY <1>10, <1>11

----------------------------------------------------------------------------
\* Searches.

LEMMA Searched ==
  ASSUME NEW r \in Nat, NEW s \in Buffer(r), Terminated(s), NEW c \in Chars \ {NUL}, NEW n
  PROVE  /\ (strchr(s, c) = NULL) <=> (strrchr(s, c) = NULL)
         /\ strchr(s, c) # NULL =>
              strchr(s, c) <= strrchr(s, c) /\ s[strchr(s, c)] = c /\ s[strrchr(s, c)] = c
         /\ c > 0 => memchr(s, c, n) = strchr(s, c)
<1> DEFINE F == {k \in InText(s) : s[k] = c}
<1>1. strlen(s) \in Nat /\ strlen(s) < r /\ s[strlen(s) + 1] = NUL
  BY TextEnds
<1>2. /\ \A k \in InText(s) : k \in 1 .. r
      /\ InText(s) \subseteq 0 .. r /\ InText(s) \subseteq Nat /\ 0 \notin InText(s)
  BY <1>1 DEF InText
<1>3. F \subseteq 0 .. r /\ F \subseteq Nat /\ 0 \notin F
  BY <1>2
<1>4. At(s, c) \cap (InText(s) \cup {strlen(s) + 1}) = F
  BY <1>1, <1>2, BufferFacts
<1>5. At(s, c) \cap InText(s) = F
  BY <1>2, BufferFacts
<1>6. strchr(s, c) = Lowest(F) /\ strrchr(s, c) = Highest(F)
  BY <1>4, <1>5 DEF strchr, strrchr
<1>7. ASSUME c > 0 PROVE memchr(s, c, n) = Lowest(F)
  <2>1. c \in -128 .. 127
    BY BuffersAssumption
  <2>2. Unsigned(c) = c
    BY <2>1, <1>7 DEF Unsigned
  <2> QED BY <2>2 DEF memchr
<1>8. F # {} => /\ Min(F) \in F /\ Max(F) \in F /\ \A k \in F : Min(F) <= k
                /\ Lowest(F) = Min(F) /\ Highest(F) = Max(F)
  BY <1>3, LeastPlace, GreatestPlace DEF Lowest, Highest
<1>9. F = {} => Lowest(F) = NULL /\ Highest(F) = NULL
  BY DEF Lowest, Highest
<1>10. \A k \in F : k # NULL /\ s[k] = c
  BY <1>3 DEF NULL
<1> HIDE DEF F
<1>11. CASE F = {}
  BY <1>6, <1>7, <1>9, <1>11
<1>12. CASE F # {}
  BY <1>6, <1>7, <1>8, <1>10, <1>12
<1> QED BY <1>11, <1>12

LEMMA RestOf ==
  ASSUME NEW r \in Nat, NEW s \in Buffer(r), NEW k \in 1 .. r
  PROVE  /\ SubSeq(s, k, r) \in Buffer(r - k + 1) /\ r - k + 1 \in Nat
         /\ \A m \in 1 .. r - k + 1 : SubSeq(s, k, r)[m] = s[k + m - 1]
<1>1. SubSeq(s, k, r) = [m \in 1 .. r - k + 1 |-> s[k + m - 1]]
  OBVIOUS
<1>2. \A m \in 1 .. r - k + 1 : k + m - 1 \in 1 .. r
  OBVIOUS
<1>3. \A m \in 1 .. r - k + 1 : s[k + m - 1] \in Chars
  BY <1>2, BufferFacts
<1> QED BY <1>1, <1>3 DEF Buffer

\* The text of t is found at k exactly if strncmp finds it equal there.
FoundAt(s, t, r, k) ==
  strlen(t) > 0 /\ k \in InText(s) /\ strncmp(SubSeq(s, k, r), t, strlen(t)) = 0

LEMMA HereMeans ==
  ASSUME NEW r \in Nat, NEW u \in Nat, NEW s \in Buffer(r), NEW t \in Buffer(u),
         Terminated(s), Terminated(t), NEW k \in InText(s)
  PROVE  FoundAt(s, t, r, k) <=>
           /\ s[k] = t[1]
           /\ \A m \in InText(t) : k + m - 1 <= strlen(s) /\ s[k + m - 1] = t[m]
<1> DEFINE v == SubSeq(s, k, r)
           w == r - k + 1
           b == strlen(s)
           c == strlen(t)
           Same == \A m \in InText(t) : k + m - 1 <= b /\ s[k + m - 1] = t[m]
<1>1. b \in Nat /\ b < r /\ s[b + 1] = NUL /\ \A m \in 1 .. b : s[m] # NUL
  BY TextEnds
<1>2. c \in Nat /\ c < u /\ t[c + 1] = NUL /\ \A m \in 1 .. c : t[m] # NUL
  BY TextEnds
<1>3. k \in Nat /\ 1 <= k /\ k <= b /\ k \in 1 .. r
  BY <1>1 DEF InText
<1>4. v \in Buffer(w) /\ w \in Nat /\ \A m \in 1 .. w : v[m] = s[k + m - 1]
  BY <1>3, RestOf
<1>5. (strncmp(v, t, c) = 0) <=> \E m \in Nat : Agree(v, t, w, u, c, m)
  BY <1>2, <1>4, Compared
<1> HIDE DEF v, b, c
<1>6. ASSUME c > 0, strncmp(v, t, c) = 0 PROVE s[k] = t[1] /\ Same
  <2>1. PICK m \in Nat : Agree(v, t, w, u, c, m)
    BY <1>5, <1>6
  <2>2. /\ m <= c /\ m <= w /\ m <= u /\ \A x \in 1 .. m : v[x] = t[x] /\ v[x] # NUL
        /\ m = c \/ m = w \/ m = u \/ (v[m + 1] = NUL /\ t[m + 1] = NUL)
    BY <2>1, <1>2 DEF Agree
  <2>3. \A x \in 1 .. m : s[k + x - 1] = t[x] /\ k + x - 1 # b + 1
    <3> SUFFICES ASSUME NEW x \in 1 .. m PROVE s[k + x - 1] = t[x] /\ k + x - 1 # b + 1
      OBVIOUS
    <3>1. x \in 1 .. w /\ v[x] = t[x] /\ v[x] # NUL
      BY <2>2, <1>4
    <3>2. v[x] = s[k + x - 1]
      BY <3>1, <1>4
    <3> QED BY <3>1, <3>2, <1>1
  <2>4. m < b + 2 - k
    <3>1. CASE b + 2 - k <= m
      <4>1. b + 2 - k \in 1 .. m
        BY <3>1, <1>1, <1>3
      <4>2. k + (b + 2 - k) - 1 # b + 1
        BY <4>1, <2>3
      <4> QED BY <4>2, <1>1, <1>3
    <3> QED BY <3>1, <1>1, <1>3
  <2>5. m = c
    <3>1. m # w
      BY <2>4, <1>1, <1>3
    <3>2. m < c => t[m + 1] # NUL
      BY <1>2
    <3> QED BY <2>2, <3>1, <3>2, <1>2
  <2>6. \A x \in InText(t) : x \in 1 .. m /\ k + x - 1 <= b
    BY <2>4, <2>5, <1>1, <1>3 DEF InText, c
  <2>7. Same
    BY <2>3, <2>6
  <2>8. s[k] = t[1]
    <3>1. s[k + 1 - 1] = t[1]
      BY <2>3, <2>5, <1>2, <1>6
    <3> QED BY <3>1, <1>3
  <2> QED BY <2>7, <2>8
<1>7. ASSUME s[k] = t[1], Same PROVE c > 0 /\ strncmp(v, t, c) = 0
  <2>1. c > 0
    <3>1. s[k] # NUL
      BY <1>1, <1>3
    <3>2. c = 0 => t[1] = NUL
      BY <1>2
    <3> QED BY <3>1, <3>2, <1>2, <1>7
  <2>2. \A x \in 1 .. c : k + x - 1 <= b /\ s[k + x - 1] = t[x]
    BY <1>7 DEF InText, c
  <2>3. k + c - 1 <= b
    BY <2>1, <2>2, <1>2
  <2>4. \A x \in 1 .. c : v[x] = t[x] /\ v[x] # NUL
    <3> SUFFICES ASSUME NEW x \in 1 .. c PROVE v[x] = t[x] /\ v[x] # NUL
      OBVIOUS
    <3>1. x \in 1 .. w
      BY <2>3, <1>1, <1>2, <1>3
    <3> QED BY <3>1, <2>2, <1>2, <1>4
  <2>5. Agree(v, t, w, u, c, c)
    BY <2>3, <2>4, <1>1, <1>2, <1>3 DEF Agree
  <2> QED BY <2>1, <2>5, <1>2, <1>5
<1>8. FoundAt(s, t, r, k) <=> c > 0 /\ strncmp(v, t, c) = 0
  BY DEF FoundAt, v, c
<1> QED BY <1>6, <1>7, <1>8 DEF b

LEMMA FirstFound ==
  ASSUME NEW r \in Nat, NEW u \in Nat, NEW s \in Buffer(r), NEW t \in Buffer(u),
         Terminated(s), Terminated(t)
  PROVE  /\ strstr(s, t) # NULL => FoundAt(s, t, r, strstr(s, t))
         /\ \A k \in InText(s) : FoundAt(s, t, r, k) => strstr(s, t) # NULL /\ strstr(s, t) <= k
<1> DEFINE F == {k \in InText(s) : FoundAt(s, t, r, k)}
<1>1. F = {k \in InText(s) : s[k] = t[1] /\
             \A m \in InText(t) : k + m - 1 <= strlen(s) /\ s[k + m - 1] = t[m]}
  BY HereMeans
<1>2. strstr(s, t) = Lowest(F)
  BY <1>1 DEF strstr
<1>3. F \subseteq Nat /\ 0 \notin F
  <2>1. strlen(s) \in Nat
    BY TextEnds
  <2> QED BY <2>1 DEF InText
<1>4. F # {} => Lowest(F) = Min(F) /\ Min(F) \in F /\ \A k \in F : Min(F) <= k
  BY <1>3, LeastPlace DEF Lowest
<1>5. F = {} => Lowest(F) = NULL
  BY DEF Lowest
<1> QED BY <1>2, <1>3, <1>4, <1>5 DEF NULL

\* Texts that are equal for strncmp have the same length and the same bytes.
LEMMA EqualTexts ==
  ASSUME NEW r \in Nat, NEW u \in Nat, NEW s \in Buffer(r), NEW t \in Buffer(u),
         NEW n \in 0 .. r, n \in 0 .. u
  PROVE  (strncmp(s, t, n) = 0) <=>
           memcmp(s, t, strnlen(t, n)) = 0 /\ strnlen(s, n) = strnlen(t, n)
<1> DEFINE p == strnlen(t, n)
<1>1. p \in 0 .. n /\ (\A k \in 1 .. p : t[k] # NUL) /\ (p < n => t[p + 1] = NUL)
  BY LimitedLength
<1>2. strnlen(s, n) \in 0 .. n /\ (\A k \in 1 .. strnlen(s, n) : s[k] # NUL)
      /\ (strnlen(s, n) < n => s[strnlen(s, n) + 1] = NUL)
  BY LimitedLength
<1>3. (memcmp(s, t, p) = 0) <=> \A k \in 1 .. p : s[k] = t[k]
  BY <1>1, SameBytes
<1>4. (strncmp(s, t, n) = 0) <=> \E m \in Nat : Agree(s, t, r, u, n, m)
  BY Compared
<1> HIDE DEF p
<1>5. ASSUME strncmp(s, t, n) = 0 PROVE memcmp(s, t, p) = 0 /\ strnlen(s, n) = p
  <2>1. PICK m \in Nat : Agree(s, t, r, u, n, m)
    BY <1>4, <1>5
  <2>2. /\ m \in 0 .. n /\ \A k \in 1 .. m : s[k] = t[k] /\ s[k] # NUL
        /\ m < n => s[m + 1] = NUL /\ t[m + 1] = NUL
    BY <2>1 DEF Agree
  <2>3. strnlen(s, n) = m
    BY <2>2, LimitedLengthIs
  <2>4. strnlen(t, n) = m
    <3>1. \A k \in 1 .. m : t[k] # NUL
      BY <2>2
    <3> QED BY <2>2, <3>1, LimitedLengthIs
  <2> QED BY <2>2, <2>3, <2>4, <1>3 DEF p
<1>6. ASSUME memcmp(s, t, p) = 0, strnlen(s, n) = p PROVE strncmp(s, t, n) = 0
  <2>1. \A k \in 1 .. p : s[k] = t[k] /\ s[k] # NUL
    BY <1>1, <1>3, <1>6
  <2>2. p < n => s[p + 1] = NUL /\ t[p + 1] = NUL
    BY <1>1, <1>2, <1>6
  <2>3. Agree(s, t, r, u, n, p)
    BY <1>1, <2>1, <2>2 DEF Agree
  <2> QED BY <1>1, <1>4, <2>3
<1> QED BY <1>5, <1>6 DEF p

----------------------------------------------------------------------------
\* Copies.

LEMMA Strcpied ==
  ASSUME NEW r \in Nat, NEW u \in Nat, NEW d \in Buffer(r), NEW s \in Buffer(u),
         Terminated(s), strlen(s) < r, NEW e, e = strcpy(d, s)
  PROVE  /\ e \in Buffer(r) /\ strcmp(e, s) = 0
         /\ \A k \in strlen(s) + 2 .. r : e[k] = d[k]
<1> DEFINE n == strlen(s)
<1>1. n \in Nat /\ n < u /\ s[n + 1] = NUL
  BY TextEnds
<1>2. e = [k \in 1 .. r |-> IF k <= n + 1 THEN s[k] ELSE d[k]]
  BY BufferFacts DEF strcpy
<1> HIDE DEF n
<1>3. \A k \in 1 .. r : k <= n + 1 => k \in 1 .. u /\ s[k] \in Chars /\ e[k] = s[k]
  <2>1. \A k \in 1 .. r : k <= n + 1 => k \in 1 .. u
    BY <1>1
  <2> QED BY <1>2, <2>1, BufferFacts
<1>4. \A k \in 1 .. r : ~(k <= n + 1) => d[k] \in Chars /\ e[k] = d[k]
  BY <1>2, BufferFacts
<1>5. e \in Buffer(r)
  BY <1>2, <1>3, <1>4 DEF Buffer
<1>6. strcmp(e, s) = 0
  <2> DEFINE m == Min(Stops(e, s))
  <2>1. n + 1 \in 1 .. r /\ n + 1 \in 1 .. u
    BY <1>1 DEF n
  <2>2. n + 1 \in Stops(e, s)
    BY <2>1, <1>1, <1>3, <1>5, StopsFacts
  <2>3. m \in Stops(e, s) /\ m <= n + 1
    BY <2>2, <1>5, StopsFacts, LeastPlace
  <2>4. e[m] = s[m]
    BY <2>3, <1>3, <1>5, StopsFacts
  <2> QED BY <2>4 DEF strcmp
<1>7. \A k \in n + 2 .. r : e[k] = d[k]
  BY <1>1, <1>4
<1> QED BY <1>5, <1>6, <1>7 DEF n

\* What strncpy leaves: the text as far as the limit, behind a shorter one NULs as far as
\* that, and then what was there.
Padded(e, d, s, r, n) ==
  /\ strncmp(e, s, n) = 0 /\ \A k \in strnlen(s, n) + 1 .. n : e[k] = NUL
  /\ \A k \in n + 1 .. r : e[k] = d[k]

LEMMA Strncpied ==
  ASSUME NEW r \in Nat, NEW u \in 0 .. r, NEW d \in Buffer(r), NEW s \in Buffer(u),
         NEW n \in 0 .. u, NEW e, e = strncpy(d, s, n)
  PROVE  e \in Buffer(r) /\ Padded(e, d, s, r, n)
<1> DEFINE m == strnlen(s, n)
<1>1. m \in 0 .. n /\ (\A k \in 1 .. m : s[k] # NUL) /\ (m < n => s[m + 1] = NUL)
  BY LimitedLength
<1>2. e = [k \in 1 .. r |-> IF k > n THEN d[k] ELSE IF k <= m THEN s[k] ELSE NUL]
  BY BufferFacts DEF strncpy
<1> HIDE DEF m
<1>3. \A k \in 1 .. r : k > n => d[k] \in Chars /\ e[k] = d[k]
  BY <1>2, BufferFacts
<1>4. \A k \in 1 .. r : ~(k > n) /\ k <= m => s[k] \in Chars /\ e[k] = s[k]
  <2>1. \A k \in 1 .. r : k <= m => k \in 1 .. u
    BY <1>1
  <2> QED BY <1>2, <2>1, BufferFacts
<1>5. \A k \in 1 .. r : ~(k > n) /\ ~(k <= m) => NUL \in Chars /\ e[k] = NUL
  BY <1>2, BuffersAssumption
<1>6. e \in Buffer(r)
  BY <1>2, <1>3, <1>4, <1>5 DEF Buffer
<1>7. strncmp(e, s, n) = 0
  <2>1. \A k \in 1 .. m : e[k] = s[k] /\ e[k] # NUL
    BY <1>1, <1>4
  <2>2. m < n => e[m + 1] = NUL /\ s[m + 1] = NUL
    BY <1>1, <1>5
  <2>3. Agree(e, s, r, u, n, m)
    BY <1>1, <2>1, <2>2 DEF Agree
  <2> QED BY <1>1, <1>6, <2>3, Compared
<1>8. \A k \in m + 1 .. n : e[k] = NUL
  BY <1>1, <1>5
<1>9. \A k \in n + 1 .. r : e[k] = d[k]
  BY <1>3
<1> QED BY <1>6, <1>7, <1>8, <1>9 DEF Padded, m

LEMMA Strncatted ==
  ASSUME NEW r \in Nat, NEW u \in 0 .. r, NEW d \in Buffer(r), NEW s \in Buffer(u),
         NEW n \in 0 .. u, Terminated(d), Terminated(s), strlen(d) + strnlen(s, n) < r,
         NEW e, e = strncat(d, s, n)
  PROVE  /\ e \in Buffer(r) /\ strncmp(e, d, strlen(d)) = 0
         /\ strlen(e) = strlen(d) + strnlen(s, n)
         /\ strncmp(SubSeq(e, strlen(d) + 1, r), s, strnlen(s, n)) = 0
         /\ \A k \in strlen(e) + 2 .. r : e[k] = d[k]
<1> DEFINE b == strlen(d)
           m == strnlen(s, n)
<1>1. b \in Nat /\ b < r /\ d[b + 1] = NUL /\ \A k \in 1 .. b : d[k] # NUL
  BY TextEnds
<1>2. strlen(s) \in Nat /\ strlen(s) < u /\ s[strlen(s) + 1] = NUL
      /\ \A k \in 1 .. strlen(s) : s[k] # NUL
  BY TextEnds
<1>3. m \in 0 .. n /\ (\A k \in 1 .. m : s[k] # NUL) /\ (m < n => s[m + 1] = NUL)
  BY LimitedLength
<1>4. Min({n, strlen(s)}) = m
  <2>0. {n, strlen(s)} \subseteq Nat /\ {n, strlen(s)} # {}
    BY <1>2
  <2>1. Min({n, strlen(s)}) \in {n, strlen(s)} /\ \A k \in {n, strlen(s)} : Min({n, strlen(s)}) <= k
    BY <2>0, LeastPlace
  <2>2. PICK k \in {n, strlen(s)} : k = Min({n, strlen(s)}) /\ k <= n /\ k <= strlen(s)
    BY <2>1
  <2>3. k \in 0 .. n /\ (\A x \in 1 .. k : s[x] # NUL) /\ (k < n => s[k + 1] = NUL)
    BY <2>2, <1>2
  <2>4. strnlen(s, n) = k
    BY <2>3, LimitedLengthIs
  <2> QED BY <2>2, <2>4
<1>5. e = [k \in 1 .. r |-> IF k \in b + 1 .. b + m THEN s[k - b]
                            ELSE IF k = b + m + 1 THEN NUL ELSE d[k]]
  BY <1>4, BufferFacts DEF strncat
<1>6. b + m < r
  OBVIOUS
<1> HIDE DEF b, m
<1>7. \A k \in b + 1 .. b + m : k \in 1 .. r /\ k - b \in 1 .. m /\ k - b \in 1 .. u
  BY <1>1, <1>3, <1>6
<1>8. \A k \in 1 .. r : k \in b + 1 .. b + m => s[k - b] \in Chars /\ e[k] = s[k - b]
  BY <1>5, <1>7, BufferFacts
<1>9. b + m + 1 \in 1 .. r /\ b + m + 1 \notin b + 1 .. b + m /\ e[b + m + 1] = NUL
      /\ NUL \in Chars
  BY <1>1, <1>3, <1>5, <1>6, BuffersAssumption
<1>10. \A k \in 1 .. r : k \notin b + 1 .. b + m /\ k # b + m + 1 => d[k] \in Chars /\ e[k] = d[k]
  BY <1>5, BufferFacts
<1>11. e \in Buffer(r)
  BY <1>5, <1>8, <1>9, <1>10 DEF Buffer
<1>12. \A k \in 1 .. b : k \in 1 .. r /\ e[k] = d[k] /\ e[k] # NUL
  <2>1. \A k \in 1 .. b : k \in 1 .. r /\ k \notin b + 1 .. b + m /\ k # b + m + 1
    BY <1>1, <1>3, <1>6
  <2> QED BY <2>1, <1>1, <1>10
<1>13. strncmp(e, d, b) = 0
  <2>1. Agree(e, d, r, r, b, b)
    BY <1>1, <1>12 DEF Agree
  <2> QED BY <1>1, <1>11, <2>1, Compared
<1>14. strlen(e) = b + m
  <2>1. \A k \in 1 .. b + m : e[k] # NUL
    <3> SUFFICES ASSUME NEW k \in 1 .. b + m PROVE e[k] # NUL
      OBVIOUS
    <3>1. k \in 1 .. b \/ k \in b + 1 .. b + m
      BY <1>1, <1>3
    <3>2. CASE k \in 1 .. b
      BY <3>2, <1>12
    <3>3. CASE k \in b + 1 .. b + m
      <4>1. e[k] = s[k - b] /\ k - b \in 1 .. m
        BY <3>3, <1>7, <1>8
      <4> QED BY <4>1, <1>3
    <3> QED BY <3>1, <3>2, <3>3
  <2>2. b + m \in Nat
    BY <1>1, <1>3
  <2> QED BY <2>1, <2>2, <1>6, <1>9, <1>11, TextLength
<1>15. strncmp(SubSeq(e, b + 1, r), s, m) = 0
  <2> DEFINE v == SubSeq(e, b + 1, r)
             w == r - (b + 1) + 1
  <2>1. b + 1 \in 1 .. r
    BY <1>1
  <2>2. v \in Buffer(w) /\ w \in Nat /\ \A k \in 1 .. w : v[k] = e[b + 1 + k - 1]
    BY <1>11, <2>1, RestOf
  <2> HIDE DEF v
  <2>3. \A k \in 1 .. m : v[k] = s[k] /\ v[k] # NUL
    <3> SUFFICES ASSUME NEW k \in 1 .. m PROVE v[k] = s[k] /\ v[k] # NUL
      OBVIOUS
    <3>1. k \in 1 .. w /\ b + k \in b + 1 .. b + m /\ b + k - b = k /\ b + 1 + k - 1 = b + k
      BY <1>1, <1>3, <1>6
    <3>2. PICK x : x = b + k
      OBVIOUS
    <3>3. e[x] = s[x - b] /\ x - b = k
      <4>1. x \in b + 1 .. b + m /\ x - b = k
        BY <3>1, <3>2, <1>1, <1>3
      <4>2. x \in 1 .. r
        BY <4>1, <1>7
      <4>3. e[x] = s[x - b]
        BY ONLY <4>1, <4>2, <1>8
      <4> QED BY <4>1, <4>3
    <3>4. e[x] = s[k]
      BY ONLY <3>3
    <3>5. v[k] = e[x]
      BY <3>1, <3>2, <2>2
    <3>6. s[k] # NUL
      BY <1>3
    <3> QED BY ONLY <3>4, <3>5, <3>6
  <2>4. m \in Nat /\ m <= w /\ m <= u
    BY <1>1, <1>3, <1>6
  <2>5. Agree(v, s, w, u, m, m)
    <3>1. m \in 0 .. m
      BY <2>4
    <3> QED BY ONLY <2>3, <2>4, <3>1 DEF Agree
  <2>6. strncmp(v, s, m) = 0
    BY <2>2, <2>4, <2>5, Compared
  <2> QED BY <2>6 DEF v
<1>16. \A k \in b + m + 2 .. r : e[k] = d[k]
  <2>1. \A k \in b + m + 2 .. r : k \in 1 .. r /\ k \notin b + 1 .. b + m /\ k # b + m + 1
    BY <1>1, <1>3
  <2> QED BY <2>1, <1>10
<1> QED BY <1>11, <1>13, <1>14, <1>15, <1>16 DEF b, m

LEMMA Memcpied ==
  ASSUME NEW r \in Nat, NEW u \in 0 .. r, NEW d \in Buffer(r), NEW s \in Buffer(u),
         NEW n \in 0 .. u, NEW e, e = memcpy(d, s, n)
  PROVE  e \in Buffer(r) /\ memcmp(e, s, n) = 0 /\ \A k \in n + 1 .. r : e[k] = d[k]
<1>1. e = [k \in 1 .. r |-> IF k <= n THEN s[k] ELSE d[k]]
  BY BufferFacts DEF memcpy
<1>2. \A k \in 1 .. r : k <= n => s[k] \in Chars /\ e[k] = s[k]
  <2>1. \A k \in 1 .. r : k <= n => k \in 1 .. u
    OBVIOUS
  <2> QED BY <1>1, <2>1, BufferFacts
<1>3. \A k \in 1 .. r : ~(k <= n) => d[k] \in Chars /\ e[k] = d[k]
  BY <1>1, BufferFacts
<1>4. e \in Buffer(r)
  BY <1>1, <1>2, <1>3 DEF Buffer
<1>5. memcmp(e, s, n) = 0
  <2>1. \A k \in 1 .. n : e[k] = s[k]
    BY <1>2
  <2> QED BY <2>1, <1>4, SameBytes
<1>6. \A k \in n + 1 .. r : e[k] = d[k]
  BY <1>3
<1> QED BY <1>4, <1>5, <1>6

LEMMA Filled ==
  ASSUME NEW r \in Nat, NEW d \in Buffer(r), NEW c \in Chars, NEW n \in 0 .. r,
         NEW e, e = memset(d, c, n)
  PROVE  e \in Buffer(r) /\ \A k \in n + 1 .. r : e[k] = d[k]
<1>1. e = [k \in 1 .. r |-> IF k <= n THEN c ELSE d[k]]
  BY BufferFacts DEF memset
<1>2. \A k \in 1 .. r : d[k] \in Chars
  BY BufferFacts
<1> QED BY <1>1, <1>2 DEF Buffer

----------------------------------------------------------------------------
\* The buffers hold characters, and dst what the last copy has made of it.
LastCopy ==
  call # None =>
    /\ call.before \in Buffer(Room)
    /\ \/ /\ call.op = "strcpy" /\ Terminated(src) /\ strlen(src) < Room
          /\ dst = strcpy(call.before, src)
       \/ call.op = "strncpy" /\ call.n \in 0 .. SrcRoom /\ dst = strncpy(call.before, src, call.n)
       \/ /\ call.op = "strncat" /\ call.n \in 0 .. SrcRoom
          /\ Terminated(call.before) /\ Terminated(src)
          /\ strlen(call.before) + strnlen(src, call.n) < Room
          /\ dst = strncat(call.before, src, call.n)
       \/ call.op = "memcpy" /\ call.n \in 0 .. SrcRoom /\ dst = memcpy(call.before, src, call.n)
       \/ /\ call.op \in {"memset", "bzero"} /\ call.n \in 0 .. Room
          /\ \E c \in Chars : dst = memset(call.before, c, call.n)

BuffersInv ==
  job = "copy" => dst \in Buffer(Room) /\ src \in Buffer(SrcRoom) /\ LastCopy

LEMMA Rooms == Room \in Nat /\ SrcRoom \in Nat /\ SrcRoom \in 0 .. Room /\ SrcRoom <= Room
BY BuffersAssumption

LEMMA TextsAgree == BuffersInv => StringsAgree
<1> SUFFICES ASSUME BuffersInv, job = "copy", Terminated(dst), Terminated(src)
             PROVE  StringsAgree
  BY DEF StringsAgree
<1>1. dst \in Buffer(Room) /\ src \in Buffer(SrcRoom)
  BY DEF BuffersInv
<1>2. /\ strcmp(dst, src) = -strcmp(src, dst)
      /\ \A n \in 0 .. SrcRoom : n > strlen(src) => Signum(strncmp(dst, src, n)) = strcmp(dst, src)
  BY <1>1, Rooms, Ordered
<1>3. \A n \in 0 .. SrcRoom :
        (strncmp(dst, src, n) = 0) <=>
          LET k == strnlen(src, n) IN memcmp(dst, src, k) = 0 /\ strnlen(dst, n) = k
  <2>1. \A n \in 0 .. SrcRoom : n \in 0 .. Room
    BY Rooms
  <2> QED BY <2>1, <1>1, Rooms, EqualTexts
<1>4. \A c \in Chars \ {NUL} :
        LET p == strchr(dst, c)  q == strrchr(dst, c) IN
        /\ (p = NULL) <=> (q = NULL)
        /\ p # NULL => p <= q /\ dst[p] = c /\ dst[q] = c
        /\ c > 0 => memchr(dst, c, Room) = p
  BY <1>1, Rooms, Searched
<1>5. LET p == strstr(dst, src)
          Here(k) == strlen(src) > 0 /\ k \in InText(dst) /\
                     strncmp(SubSeq(dst, k, Room), src, strlen(src)) = 0
      IN  /\ p # NULL => Here(p)
          /\ \A k \in InText(dst) : Here(k) => p # NULL /\ p <= k
  BY <1>1, Rooms, FirstFound DEF FoundAt
<1> QED BY <1>2, <1>3, <1>4, <1>5 DEF StringsAgree

LEMMA CopiesKeep == BuffersInv => CopiesKeepTheRest
<1> SUFFICES ASSUME BuffersInv, job = "copy", call # None
             PROVE  CopiesKeepTheRest
  BY DEF CopiesKeepTheRest
<1>1. dst \in Buffer(Room) /\ src \in Buffer(SrcRoom) /\ call.before \in Buffer(Room) /\ LastCopy
  BY DEF BuffersInv, LastCopy
<1> DEFINE n == call.n
           d == call.before
           Kept(m) == \A k \in m + 1 .. Room : dst[k] = d[k]
<1>2. CASE call.op = "strcpy"
  <2>1. Terminated(src) /\ strlen(src) < Room /\ dst = strcpy(d, src)
    BY <1>1, <1>2 DEF LastCopy
  <2>2. strcmp(dst, src) = 0 /\ \A k \in strlen(src) + 2 .. Room : dst[k] = d[k]
    BY <1>1, <2>1, Rooms, Strcpied
  <2>3. Kept(strlen(src) + 1)
    <3>1. strlen(src) \in Nat
      BY <1>1, <2>1, Rooms, TextEnds
    <3>2. strlen(src) + 1 + 1 = strlen(src) + 2
      BY <3>1
    <3> QED BY <2>2, <3>2
  <2> QED BY <1>2, <2>2, <2>3 DEF CopiesKeepTheRest
<1>3. CASE call.op = "strncpy"
  <2>1. n \in 0 .. SrcRoom /\ dst = strncpy(d, src, n)
    BY <1>1, <1>3 DEF LastCopy
  <2>2. Padded(dst, d, src, Room, n)
    BY <1>1, <2>1, Rooms, Strncpied
  <2> QED BY <1>3, <2>2 DEF CopiesKeepTheRest, Padded
<1>4. CASE call.op = "strncat"
  <2>1. /\ n \in 0 .. SrcRoom /\ Terminated(d) /\ Terminated(src)
        /\ strlen(d) + strnlen(src, n) < Room /\ dst = strncat(d, src, n)
    BY <1>1, <1>4 DEF LastCopy
  <2>2. /\ strncmp(dst, d, strlen(d)) = 0 /\ strlen(dst) = strlen(d) + strnlen(src, n)
        /\ strncmp(SubSeq(dst, strlen(d) + 1, Room), src, strnlen(src, n)) = 0
        /\ \A k \in strlen(dst) + 2 .. Room : dst[k] = d[k]
    BY <1>1, <2>1, Rooms, Strncatted
  <2>3. Kept(strlen(dst) + 1)
    <3>1. strlen(d) \in Nat /\ strnlen(src, n) \in 0 .. n
      BY <1>1, <2>1, Rooms, TextEnds, LimitedLength
    <3>2. strlen(dst) + 1 + 1 = strlen(dst) + 2
      BY <2>1, <2>2, <3>1
    <3> QED BY <2>2, <3>2
  <2> QED BY <1>4, <2>2, <2>3 DEF CopiesKeepTheRest
<1>5. CASE call.op = "memcpy"
  <2>1. n \in 0 .. SrcRoom /\ dst = memcpy(d, src, n)
    BY <1>1, <1>5 DEF LastCopy
  <2>2. memcmp(dst, src, n) = 0 /\ Kept(n)
    BY <1>1, <2>1, Rooms, Memcpied
  <2> QED BY <1>5, <2>2 DEF CopiesKeepTheRest
<1>6. CASE call.op \in {"memset", "bzero"}
  <2>1. n \in 0 .. Room /\ \E c \in Chars : dst = memset(d, c, n)
    BY <1>1, <1>6 DEF LastCopy
  <2>2. Kept(n)
    BY <1>1, <2>1, Rooms, Filled
  <2> QED BY <1>6, <2>2 DEF CopiesKeepTheRest
<1>7. call.op \in {"strcpy", "strncpy", "strncat", "memcpy", "memset", "bzero"}
  BY <1>1 DEF LastCopy
<1> QED BY <1>2, <1>3, <1>4, <1>5, <1>6, <1>7

LEMMA BuffersStart == Init => BuffersInv
<1> SUFFICES ASSUME Init, job = "copy" PROVE BuffersInv
  BY DEF BuffersInv
<1>1. call = None /\ dst = Fill(Room, NUL) /\ src \in [1 .. SrcRoom -> Chars]
  BY DEF Init
<1>2. Fill(Room, NUL) \in Buffer(Room)
  BY BuffersAssumption DEF Fill, Buffer
<1> QED BY <1>1, <1>2 DEF BuffersInv, LastCopy, Buffer

\* What a copy writes to dst, and what it leaves alone.
LEMMA CopyKeeps ==
  ASSUME BuffersInv, NEW op, NEW n, NEW result, Copied(op, n, result)
  PROVE  /\ dst \in Buffer(Room) /\ src \in Buffer(SrcRoom) /\ src' = src /\ dst' = result
         /\ call' = [op |-> op, n |-> n, before |-> dst]
BY DEF BuffersInv, Copied

LEMMA BuffersStep ==
  ASSUME BuffersInv, [Next]_vars
  PROVE  BuffersInv'
<1>1. CASE Strcpy
  <2>1. /\ Copied("strcpy", 0, strcpy(dst, src)) /\ Terminated(src) /\ strlen(src) < Room
    BY <1>1 DEF Strcpy
  <2>2. /\ dst \in Buffer(Room) /\ src \in Buffer(SrcRoom) /\ src' = src /\ dst' = strcpy(dst, src)
        /\ call' = [op |-> "strcpy", n |-> 0, before |-> dst]
    BY <2>1, CopyKeeps
  <2>3. dst' \in Buffer(Room)
    BY <2>1, <2>2, Rooms, Strcpied
  <2> QED BY <2>1, <2>2, <2>3 DEF BuffersInv, LastCopy
<1>2. CASE Strncpy
  <2>1. PICK n \in 0 .. SrcRoom : Copied("strncpy", n, strncpy(dst, src, n))
    BY <1>2 DEF Strncpy
  <2>2. /\ dst \in Buffer(Room) /\ src \in Buffer(SrcRoom) /\ src' = src
        /\ dst' = strncpy(dst, src, n) /\ call' = [op |-> "strncpy", n |-> n, before |-> dst]
    BY <2>1, CopyKeeps
  <2>3. dst' \in Buffer(Room)
    BY <2>2, Rooms, Strncpied
  <2> QED BY <2>2, <2>3 DEF BuffersInv, LastCopy
<1>3. CASE Strncat
  <2>1. PICK n \in 0 .. SrcRoom :
          /\ Terminated(dst) /\ Terminated(src) /\ strlen(dst) + strnlen(src, n) < Room
          /\ Copied("strncat", n, strncat(dst, src, n))
    BY <1>3 DEF Strncat
  <2>2. /\ dst \in Buffer(Room) /\ src \in Buffer(SrcRoom) /\ src' = src
        /\ dst' = strncat(dst, src, n) /\ call' = [op |-> "strncat", n |-> n, before |-> dst]
    BY <2>1, CopyKeeps
  <2>3. dst' \in Buffer(Room)
    BY <2>1, <2>2, Rooms, Strncatted
  <2> QED BY <2>1, <2>2, <2>3 DEF BuffersInv, LastCopy
<1>4. CASE Memcpy
  <2>1. PICK n \in 0 .. SrcRoom : Copied("memcpy", n, memcpy(dst, src, n))
    BY <1>4 DEF Memcpy
  <2>2. /\ dst \in Buffer(Room) /\ src \in Buffer(SrcRoom) /\ src' = src
        /\ dst' = memcpy(dst, src, n) /\ call' = [op |-> "memcpy", n |-> n, before |-> dst]
    BY <2>1, CopyKeeps
  <2>3. dst' \in Buffer(Room)
    BY <2>2, Rooms, Memcpied
  <2> QED BY <2>2, <2>3 DEF BuffersInv, LastCopy
<1>5. CASE Memset
  <2>1. PICK n \in 0 .. Room, c \in Chars : Copied("memset", n, memset(dst, c, n))
    BY <1>5 DEF Memset
  <2>2. /\ dst \in Buffer(Room) /\ src \in Buffer(SrcRoom) /\ src' = src
        /\ dst' = memset(dst, c, n) /\ call' = [op |-> "memset", n |-> n, before |-> dst]
    BY <2>1, CopyKeeps
  <2>3. dst' \in Buffer(Room)
    BY <2>2, Rooms, Filled
  <2> QED BY <2>2, <2>3 DEF BuffersInv, LastCopy
<1>6. CASE Bzero
  <2>1. PICK n \in 0 .. Room : Copied("bzero", n, bzero(dst, n))
    BY <1>6 DEF Bzero
  <2>2. /\ dst \in Buffer(Room) /\ src \in Buffer(SrcRoom) /\ src' = src
        /\ dst' = bzero(dst, n) /\ call' = [op |-> "bzero", n |-> n, before |-> dst]
    BY <2>1, CopyKeeps
  <2>3. NUL \in Chars /\ dst' = memset(dst, NUL, n)
    BY <2>2, BuffersAssumption DEF memset, bzero
  <2>4. dst' \in Buffer(Room)
    BY <2>2, <2>3, Rooms, Filled
  <2> QED BY <2>2, <2>3, <2>4 DEF BuffersInv, LastCopy
<1>7. CASE UNCHANGED <<job, dst, src, call>>
  BY <1>7 DEF BuffersInv, LastCopy
<1>8. CASE Sorting \/ Printing \/ Kprinting \/ ReadBack \/ Scanning \/ UNCHANGED vars
  BY <1>7, <1>8 DEF Sorting, Printing, Kprinting, ReadBack, Scanning, vars, copyVars
<1> QED BY <1>1, <1>2, <1>3, <1>4, <1>5, <1>6, <1>8 DEF Next

\* For every size of the buffers and every set of signed characters: whatever copies have been
\* made, the comparisons and searches agree with each other on the texts in the two buffers,
\* and the last copy did what its name says and left the memory behind as it was.
THEOREM StringsAreSound == Spec => []StringsSound
<1>1. BuffersInv => StringsSound
  BY TextsAgree, CopiesKeep DEF StringsSound
<1> QED BY <1>1, BuffersStart, BuffersStep, PTL DEF Spec
----------------------------------------------------------------------------
\* Printing and scanning.
IsSeq(s) == \E S : s \in Seq(S)

LEMMA FromFunction ==
  ASSUME NEW S, NEW n \in Nat, NEW f \in [1 .. n -> S]
  PROVE  f \in Seq(S) /\ Len(f) = n /\ IsSeq(f)
<1>1. f \in Seq(S)
  BY SeqDef
<1>2. Len(f) \in Nat /\ DOMAIN f = 1 .. Len(f) /\ DOMAIN f = 1 .. n
  BY <1>1, LenProperties
<1>3. Len(f) = n
  BY ONLY <1>2, n \in Nat
<1> QED BY <1>1, <1>3 DEF IsSeq

LEMMA Joined ==
  ASSUME NEW s, NEW t, IsSeq(s), IsSeq(t)
  PROVE  IsSeq(s \o t) /\ Len(s \o t) = Len(s) + Len(t) /\ Len(s) \in Nat /\ Len(t) \in Nat
<1>1. PICK S : s \in Seq(S)
  BY DEF IsSeq
<1>2. PICK T : t \in Seq(T)
  BY DEF IsSeq
<1>3. PICK U : U = S \cup T
  OBVIOUS
<1>4. s \in Seq(U) /\ t \in Seq(U)
  BY <1>1, <1>2, <1>3
<1>5. s \o t \in Seq(U)
  BY <1>4
<1> QED BY <1>4, <1>5 DEF IsSeq

LEMMA FillSeq ==
  ASSUME NEW n \in Int, NEW c
  PROVE  IsSeq(Fill(n, c)) /\ Len(Fill(n, c)) = IF n > 0 THEN n ELSE 0
<1> PICK m : m = IF n > 0 THEN n ELSE 0
  OBVIOUS
<1>1. m \in Nat /\ 1 .. n = 1 .. m
  OBVIOUS
<1>2. Fill(n, c) \in [1 .. m -> {c}]
  BY <1>1 DEF Fill
<1> QED BY <1>1, <1>2, FromFunction

\* Digits without their leading zeros.
LEMMA TrimmedSeq ==
  ASSUME NEW digit, NEW A, NEW n \in Nat, DOMAIN digit \subseteq 0 .. n
  PROVE  IsSeq(Trimmed(digit, A))
<1> PICK top : top = Max({0} \cup {k \in DOMAIN digit : digit[k] # 0})
  OBVIOUS
<1>1. top \in 0 .. n
  <2>1. {0} \cup {k \in DOMAIN digit : digit[k] # 0} \subseteq 0 .. n
    OBVIOUS
  <2> QED BY <2>1, GreatestPlace
<1> PICK text1 : text1 = Trimmed(digit, A)
  OBVIOUS
<1>2. DOMAIN text1 = 1 .. top + 1 /\ text1 = [k \in 1 .. top + 1 |-> text1[k]]
  BY DEF Trimmed
<1>3. PICK S : S = {text1[k] : k \in 1 .. top + 1}
  OBVIOUS
<1>4. text1 \in [1 .. top + 1 -> S]
  BY <1>2, <1>3
<1>5. top + 1 \in Nat
  BY <1>1
<1>6. IsSeq(text1)
  BY ONLY <1>4, <1>5, FromFunction
<1> QED BY <1>6

\* What the provers have to be told of powers: the greater base has the greater power.
PowersGrow == \A b \in {2, 8, 10}, n \in Nat : b ^ n \in Int /\ b ^ n >= 2 ^ n

LEMMA PlacesEnd ==
  ASSUME PowersGrow, NEW b \in {2, 8, 10}, NEW bits \in Nat \ {0}
  PROVE  \E n \in Nat : DigitPlaces(b, bits) \subseteq 0 .. n
<1> PICK S : S = {n \in 1 .. bits : b ^ n >= 2 ^ bits}
  OBVIOUS
<1>1. bits \in S /\ S \subseteq Nat
  BY DEF PowersGrow
<1>2. Min(S) \in Nat
  BY <1>1, LeastPlace
<1>3. DigitPlaces(b, bits) = 0 .. Min(S) - 1
  BY DEF DigitPlaces
<1>4. DigitPlaces(b, bits) \subseteq 0 .. Min(S)
  <2> PICK m : m = Min(S)
    OBVIOUS
  <2>1. 0 .. m - 1 \subseteq 0 .. m
    BY <1>2
  <2> QED BY <1>3, <2>1
<1> QED BY <1>2, <1>4

LEMMA NumberSeq ==
  ASSUME PowersGrow, NEW num
  PROVE  /\ IsSeq(_prtl10(num)) /\ IsSeq(_prtl8(num)) /\ IsSeq(_prtl16(num))
         /\ IsSeq(_prtX16(num)) /\ IsSeq(_prtl2(num))
<1>1. Bits \in Nat \ {0} /\ DecimalBits \in Nat \ {0}
  BY FormatAssumption
<1>2. IsSeq(_prtl10(num))
  <2>1. PICK n \in Nat : DigitPlaces(10, DecimalBits) \subseteq 0 .. n
    BY <1>1, PlacesEnd
  <2> QED BY <2>1, TrimmedSeq DEF _prtl10
<1>3. IsSeq(_prtl8(num))
  <2>1. PICK n \in Nat : DigitPlaces(8, Bits) \subseteq 0 .. n
    BY <1>1, PlacesEnd
  <2> QED BY <2>1, TrimmedSeq DEF _prtl8
<1>4. IsSeq(_prtl2(num))
  <2>1. PICK n \in Nat : DigitPlaces(2, Bits) \subseteq 0 .. n
    BY <1>1, PlacesEnd
  <2> QED BY <2>1, TrimmedSeq DEF _prtl2
<1>5. IsSeq(_prtl16(num)) /\ IsSeq(_prtX16(num))
  <2>1. 0 .. Bits \div 4 - 1 \subseteq 0 .. Bits
    BY <1>1
  <2> QED BY <1>1, <2>1, TrimmedSeq DEF _prtl16, _prtX16
<1> QED BY <1>2, <1>3, <1>4, <1>5

LEMMA UnsignedSeq ==
  ASSUME PowersGrow, NEW num
  PROVE  IsSeq(_prtu(num))
<1> PICK times : times = Min({k \in 0 .. 9 : Wrapped(num - k * Power, DecimalBits) >= 0})
  OBVIOUS
<1> PICK s : s = _prtl10(Wrapped(num - times * Power, DecimalBits))
  OBVIOUS
<1>1. PICK S : s \in Seq(S)
  BY NumberSeq DEF IsSeq
<1> PICK t : t = [s EXCEPT ![1] = @ + times]
  OBVIOUS
<1>2. _prtu(num) = t
  BY DEF _prtu
<1>3. PICK T : T = S \cup {s[1] + times}
  OBVIOUS
<1>4. PICK n \in Nat : s \in [1 .. n -> S]
  BY <1>1, LenProperties
<1>5. t \in [1 .. n -> T]
  BY <1>3, <1>4
<1> QED BY <1>2, <1>5, FromFunction

LEMMA ConvertedSeq ==
  ASSUME PowersGrow, NEW p \in Prints
  PROVE  IsSeq(Converted(p.f, p.arg))
<1>1. p.f \in {"d", "u", "o", "x", "X", "b", "h", "H", "c", "s"} /\ (p.f = "s" => p.arg \in Seq(Int))
  BY ConversionsAssumption
<1>2. CASE p.f \in {"d", "o", "x", "X", "b"}
  BY <1>2, NumberSeq DEF Converted
<1>3. CASE p.f = "u"
  BY <1>3, UnsignedSeq DEF Converted
<1>4. CASE p.f = "h"
  <2>1. IsSeq(_prtl16(p.arg[1])) /\ IsSeq(_prtl16(p.arg[2]))
    BY NumberSeq
  <2> QED BY <1>4, <2>1, Joined DEF Converted, TwoWords
<1>5. CASE p.f = "H"
  <2>1. IsSeq(_prtX16(p.arg[1])) /\ IsSeq(_prtX16(p.arg[2]))
    BY NumberSeq
  <2> QED BY <1>5, <2>1, Joined DEF Converted, TwoWords
<1>6. CASE p.f = "c"
  <2>1. <<p.arg>> \in Seq({p.arg})
    OBVIOUS
  <2>2. Converted(p.f, p.arg) = <<p.arg>>
    BY <1>6 DEF Converted
  <2> QED BY <2>1, <2>2 DEF IsSeq
<1>7. CASE p.f = "s"
  <2>1. Converted(p.f, p.arg) = p.arg
    BY <1>7 DEF Converted
  <2> QED BY <1>1, <1>7, <2>1 DEF IsSeq
<1> QED BY <1>1, <1>2, <1>3, <1>4, <1>5, <1>6, <1>7

\* No precision makes a text longer.
LEMMA ShownSeq ==
  ASSUME NEW str, IsSeq(str), NEW most \in Nat, most # 0
  PROVE  IsSeq(SubSeq(str, 1, Min({Len(str), most})))
<1>1. PICK S : str \in Seq(S)
  BY DEF IsSeq
<1>2. {Len(str), most} \subseteq Nat
  BY <1>1
<1> PICK m : m = Min({Len(str), most})
  OBVIOUS
<1>3. m \in Nat /\ m <= Len(str)
  BY <1>2, LeastPlace
<1>4. SubSeq(str, 1, m) \in Seq(S)
  <2>1. \A k \in 1 .. m : str[k] \in S
    BY <1>1, <1>3, ElementOfSeq
  <2>2. m \in Int /\ 1 \in Int
    BY <1>3
  <2> QED BY ONLY <2>1, <2>2, SubSeqProperties
<1> QED BY <1>4 DEF IsSeq

\* Whatever the order, sign, text and filling are as long together as the field, or as the
\* first two of them.
Wider(n, v) == IF n < v THEN v ELSE n

InSomeOrder(out, sign, shown, leading) ==
  out \in {sign \o (shown \o leading), sign \o (leading \o shown), (leading \o sign) \o shown}

LEMMA PartsLength ==
  ASSUME NEW sign, NEW shown, IsSeq(sign), IsSeq(shown), NEW w, InField(w) \in Nat, NEW fill,
         NEW out, InSomeOrder(out, sign, shown, Fill(Leading(w, shown, sign), fill))
  PROVE  /\ Len(sign) + Len(shown) \in Nat
         /\ Len(out) = Wider(Len(sign) + Len(shown), InField(w))
<1> PICK n, v, leading :
      n = Leading(w, shown, sign) /\ v = InField(w) /\ leading = Fill(n, fill)
  OBVIOUS
<1> PICK g, c, h, x :
      g = Len(sign) /\ c = Len(shown) /\ h = Len(leading) /\ x = Len(out)
  OBVIOUS
<1>1. g \in Nat /\ c \in Nat
  BY Joined
<1>2. n \in Int /\ n = (IF v = 0 THEN 0 ELSE v - c - g) /\ v \in Nat
  BY <1>1 DEF Leading
<1>3. IsSeq(leading) /\ h = IF n > 0 THEN n ELSE 0
  BY <1>2, FillSeq
<1>4. Len(sign \o (shown \o leading)) = g + (c + h)
  <2>1. IsSeq(shown \o leading) /\ Len(shown \o leading) = c + h
    BY <1>3, Joined
  <2> QED BY <2>1, Joined
<1>5. Len(sign \o (leading \o shown)) = g + (h + c)
  <2>1. IsSeq(leading \o shown) /\ Len(leading \o shown) = h + c
    BY <1>3, Joined
  <2> QED BY <2>1, Joined
<1>6. Len((leading \o sign) \o shown) = (h + g) + c
  <2>1. IsSeq(leading \o sign) /\ Len(leading \o sign) = h + g
    BY <1>3, Joined
  <2> QED BY <2>1, Joined
<1>7. x \in {g + (c + h), g + (h + c), (h + g) + c}
  BY <1>4, <1>5, <1>6 DEF InSomeOrder
<1>8. g + c \in Nat /\ x = IF g + c < v THEN v ELSE g + c
  BY ONLY <1>1, <1>2, <1>3, <1>7
<1> QED BY <1>8 DEF Wider

\* The length of a conversion in a field, from the lengths of its sign and its text.
LEMMA FieldLength ==
  ASSUME NEW f, NEW arg, NEW leftjust, NEW zero, NEW fmin \in Int, NEW fmax \in Int,
         IsSeq(Converted(f, arg)), NEW bare
  PROVE  \E n \in Nat :
           /\ Len(_doprnt(f, arg, leftjust, zero, fmin, fmax)) = Wider(n, InField(fmin))
           /\ Len(_doprnt(f, arg, leftjust, bare, 0, fmax)) = n
<1>0. PICK str, sign, most, shown :
      /\ str = Converted(f, arg)
      /\ sign = IF f = "d" /\ arg < 0 THEN <<Minus>> ELSE <<>>
      /\ most = IF f \in {"s", "d"} THEN InField(fmax) ELSE 0
      /\ shown = IF most # 0 THEN SubSeq(str, 1, Min({Len(str), most})) ELSE str
  OBVIOUS
<1>1. InField(fmin) \in Nat /\ InField(fmax) \in Nat /\ InField(0) = 0
  BY FormatAssumption DEF InField
<1>2. IsSeq(sign)
  <2>1. <<Minus>> \in Seq({Minus}) /\ <<>> \in Seq({Minus})
    OBVIOUS
  <2>2. IsSeq(<<Minus>>) /\ IsSeq(<<>>)
    BY <2>1 DEF IsSeq
  <2> QED BY <1>0, <2>2, Zenon
<1>3. IsSeq(shown)
  <2>1. most \in Nat /\ IsSeq(str)
    BY <1>0, <1>1
  <2>2. most # 0 => IsSeq(SubSeq(str, 1, Min({Len(str), most})))
    BY <2>1, ShownSeq
  <2> QED BY <1>0, <2>1, <2>2, Zenon
<1>4. ASSUME NEW z, NEW w
      PROVE  \E fill : InSomeOrder(_doprnt(f, arg, leftjust, z, w, fmax), sign, shown,
                                  Fill(Leading(w, shown, sign), fill))
  <2>1. PICK fill, leading :
          /\ fill = IF z /\ f \notin {"c", "s"} THEN Zero ELSE Blank
          /\ leading = Fill(Leading(w, shown, sign), fill)
    OBVIOUS
  <2>2. InSomeOrder(_doprnt(f, arg, leftjust, z, w, fmax), sign, shown, leading)
    BY <1>0, <2>1, Zenon DEF _doprnt, InSomeOrder
  <2> QED BY <2>1, <2>2
<1>5. /\ Len(sign) + Len(shown) \in Nat
      /\ Len(_doprnt(f, arg, leftjust, zero, fmin, fmax))
           = Wider(Len(sign) + Len(shown), InField(fmin))
  <2>1. PICK out : out = _doprnt(f, arg, leftjust, zero, fmin, fmax)
    OBVIOUS
  <2>2. PICK fill : InSomeOrder(out, sign, shown, Fill(Leading(fmin, shown, sign), fill))
    BY <1>4, <2>1
  <2> QED BY <1>1, <1>2, <1>3, <2>1, <2>2, PartsLength
<1>6. Len(_doprnt(f, arg, leftjust, bare, 0, fmax)) = Wider(Len(sign) + Len(shown), InField(0))
  <2>1. PICK out : out = _doprnt(f, arg, leftjust, bare, 0, fmax)
    OBVIOUS
  <2>2. PICK fill : InSomeOrder(out, sign, shown, Fill(Leading(0, shown, sign), fill))
    BY <1>4, <2>1
  <2>3. InField(0) \in Nat
    BY <1>1
  <2>4. Len(out) = Wider(Len(sign) + Len(shown), InField(0))
    BY ONLY <1>2, <1>3, <2>2, <2>3, PartsLength
  <2> QED BY <2>1, <2>4, Zenon
<1>7. Wider(Len(sign) + Len(shown), InField(0)) = Len(sign) + Len(shown)
  BY <1>1, <1>5 DEF Wider
<1> QED BY <1>5, <1>6, <1>7

\* What is printed is the conversion of print.
PrintInv ==
  job = "print" =>
    /\ print \in Prints
    /\ text # <<>> =>
         text = _doprnt(print.f, print.arg, print.leftjust, print.zero, print.fmin, print.fmax)

LEMMA PrintAlways == Spec => []PrintInv
<1>1. Init => PrintInv
  BY DEF Init, PrintInv
<1>2. PrintInv /\ [Next]_vars => PrintInv'
  BY DEF PrintInv, Next, Sorting, Strcpy, Strncpy, Strncat, Memcpy, Memset, Bzero, Copied,
     Printing, Kprinting, ReadBack, Scanning, vars, printVars, _fdoprnt
<1> QED BY <1>1, <1>2, PTL DEF Spec

\* For every word size and every value: a field has the width asked for, or that of what
\* is printed if it needs more.
THEOREM FieldsHaveTheirWidth ==
  ASSUME PowersGrow
  PROVE  Spec => []FieldHasItsWidth
<1>1. ASSUME PrintInv PROVE FieldHasItsWidth
  <2> SUFFICES ASSUME job = "print", text # <<>>
               PROVE  Len(text) = Max({InField(print.fmin),
                        Len(_doprnt(print.f, print.arg, print.leftjust, FALSE, 0, print.fmax))})
    BY DEF FieldHasItsWidth
  <2>1. print \in Prints /\ print.fmin \in Int /\ print.fmax \in Int
    BY <1>1, ConversionsAssumption DEF PrintInv
  <2>2. PICK n \in Nat :
          /\ Len(text) = Wider(n, InField(print.fmin))
          /\ Len(_doprnt(print.f, print.arg, print.leftjust, FALSE, 0, print.fmax)) = n
    <3>1. PICK f, arg, leftjust, zero, fmin, fmax, bare :
            /\ f = print.f /\ arg = print.arg /\ leftjust = print.leftjust /\ zero = print.zero
            /\ fmin = print.fmin /\ fmax = print.fmax /\ bare = FALSE
      OBVIOUS
    <3>2. IsSeq(Converted(f, arg)) /\ fmin \in Int /\ fmax \in Int
      BY <2>1, <3>1, ConvertedSeq
    <3>3. PICK n \in Nat :
            /\ Len(_doprnt(f, arg, leftjust, zero, fmin, fmax)) = Wider(n, InField(fmin))
            /\ Len(_doprnt(f, arg, leftjust, bare, 0, fmax)) = n
      BY ONLY <3>2, FieldLength
    <3>4. text = _doprnt(f, arg, leftjust, zero, fmin, fmax)
      BY <1>1, <3>1 DEF PrintInv
    <3> QED BY <3>1, <3>3, <3>4
  <2> PICK w : w = InField(print.fmin)
    OBVIOUS
  <2>3. w \in Nat
    BY <2>1, FormatAssumption DEF InField
  <2>4. Max({w, n}) = Wider(n, w)
    <3>1. {w, n} \subseteq 0 .. w + n
      BY <2>3
    <3>2. Max({w, n}) \in {w, n} /\ Max({w, n}) >= w /\ Max({w, n}) >= n
      BY <2>3, <3>1, GreatestPlace
    <3> QED BY <2>3, <3>2 DEF Wider
  <2> QED BY <2>2, <2>4
<1>2. PrintInv => FieldHasItsWidth
  BY <1>1
<1> QED BY <1>2, PrintAlways, PTL

----------------------------------------------------------------------------
\* The scan of the first n directives, the state after each.
ScanOf(g, s, fmt, n) ==
  g = [m \in 0 .. n |-> IF m = 0 THEN Going(1, <<>>) ELSE Directive(s, g[m - 1], fmt[m])]

LEMMA ScanGoesOn ==
  ASSUME NEW g, NEW s, NEW fmt, NEW n \in Nat, ScanOf(g, s, fmt, n)
  PROVE  \E h : ScanOf(h, s, fmt, n + 1)
<1> PICK h : h = [m \in 0 .. n + 1 |-> IF m = n + 1 THEN Directive(s, g[n], fmt[n + 1]) ELSE g[m]]
  OBVIOUS
<1>1. \A m \in 0 .. n : g[m] = IF m = 0 THEN Going(1, <<>>) ELSE Directive(s, g[m - 1], fmt[m])
  BY DEF ScanOf
<1>2. ASSUME NEW m \in 0 .. n + 1
      PROVE  h[m] = IF m = 0 THEN Going(1, <<>>) ELSE Directive(s, h[m - 1], fmt[m])
  <2>1. CASE m = n + 1
    <3>1. h[m - 1] = g[n] /\ m # 0 /\ h[m] = Directive(s, g[n], fmt[n + 1])
      BY <2>1
    <3> QED BY <2>1, <3>1
  <2>2. CASE m # n + 1 /\ m # 0
    <3>1. m \in 0 .. n /\ m - 1 \in 0 .. n + 1 /\ m - 1 # n + 1
      BY <2>2
    <3>2. h[m] = g[m] /\ h[m - 1] = g[m - 1]
      BY <2>2, <3>1
    <3> QED BY <1>1, <2>2, <3>1, <3>2
  <2>3. CASE m = 0
    <3>1. 0 \in 0 .. n /\ 0 # n + 1 /\ 0 \in 0 .. n + 1
      OBVIOUS
    <3> QED BY <1>1, <2>3, <3>1
  <2> QED BY <2>1, <2>2, <2>3
<1>3. ScanOf(h, s, fmt, n + 1)
  BY <1>2 DEF ScanOf
<1> QED BY <1>3

\* There is a scan of every format: a format without one would have a shortest beginning
\* without one.
LEMMA ScanExists ==
  ASSUME NEW s, NEW fmt, NEW n \in Nat
  PROVE  \E g : ScanOf(g, s, fmt, n)
<1> SUFFICES ASSUME ~\E g : ScanOf(g, s, fmt, n) PROVE FALSE
  OBVIOUS
<1> PICK B : B = {m \in Nat : ~\E g : ScanOf(g, s, fmt, m)}
  OBVIOUS
<1>1. n \in B /\ B \subseteq Nat
  OBVIOUS
<1>2. PICK m \in B : \A y \in B : m <= y
  BY <1>1, LeastPlace
<1>3. m # 0
  <2> PICK g : g = [k \in 0 .. 0 |-> Going(1, <<>>)]
    OBVIOUS
  <2>1. ScanOf(g, s, fmt, 0)
    BY DEF ScanOf
  <2> QED BY <2>1
<1>4. m \in Nat /\ m - 1 \in Nat /\ m - 1 \notin B
  BY <1>1, <1>2, <1>3
<1>5. PICK g : ScanOf(g, s, fmt, m - 1)
  BY <1>4
<1>6. \E h : ScanOf(h, s, fmt, (m - 1) + 1)
  BY <1>4, <1>5, ScanGoesOn
<1>7. (m - 1) + 1 = m
  BY <1>4
<1> QED BY <1>6, <1>7

LEMMA ScanIs ==
  ASSUME NEW s, NEW fmt, Len(fmt) \in Nat
  PROVE  \E g : ScanOf(g, s, fmt, Len(fmt)) /\ _doscan(s, fmt) = g[Len(fmt)]
<1>1. \E g : ScanOf(g, s, fmt, Len(fmt))
  BY ScanExists
<1> PICK g : g = CHOOSE h : ScanOf(h, s, fmt, Len(fmt))
  OBVIOUS
<1>2. ScanOf(g, s, fmt, Len(fmt))
  BY <1>1
<1>3. _doscan(s, fmt) = g[Len(fmt)]
  BY DEF _doscan, ScanOf
<1> QED BY <1>2, <1>3

\* What holds at the start and is kept by every directive holds at the end.
Counted(s, fmt, st) ==
  /\ IsSeq(st.stored) /\ st.going \in BOOLEAN
  /\ \/ st.result = Len(st.stored)
     \/ /\ st.result = -1 /\ st.pos > Len(s)
        /\ st.stored = <<>> \/ \E k \in DOMAIN fmt : fmt[k].kind = "literal"

LEMMA Appended ==
  ASSUME NEW q, IsSeq(q), NEW v
  PROVE  IsSeq(Append(q, v)) /\ Len(Append(q, v)) = Len(q) + 1 /\ Len(q) \in Nat
<1>1. PICK S : q \in Seq(S)
  BY DEF IsSeq
<1>2. PICK T : T = S \cup {v}
  OBVIOUS
<1>3. q \in Seq(T) /\ v \in T
  BY <1>1, <1>2
<1> QED BY <1>3 DEF IsSeq

LEMMA DirectiveCounts ==
  ASSUME NEW s, NEW fmt \in Seq(Directives), NEW k \in DOMAIN fmt, NEW st, Counted(s, fmt, st)
  PROVE  Counted(s, fmt, Directive(s, st, fmt[k]))
<1> PICK d : d = fmt[k]
  OBVIOUS
<1>1. d.kind \in {"conversion", "literal", "white"}
  BY DEF Directives, White
<1>2. ASSUME NEW p, NEW q, IsSeq(q) PROVE Counted(s, fmt, Going(p, q))
  BY <1>2 DEF Going, Counted
<1>3. ASSUME NEW p, NEW q, IsSeq(q) PROVE Counted(s, fmt, Ending(p, q, Len(q)))
  BY <1>3 DEF Ending, Counted
<1>4. IsSeq(st.stored) /\ st.going \in BOOLEAN
  BY DEF Counted
<1>5. CASE ~st.going
  BY <1>5 DEF Directive
<1>6. CASE st.going /\ d.kind = "conversion"
  <2>1. PICK c : c = Convert(s, st.pos, d)
    OBVIOUS
  <2>2. PICK q : q = IF c.matched THEN Append(st.stored, c.value) ELSE st.stored
    OBVIOUS
  <2>3. IsSeq(q)
    BY <1>4, <2>2, Appended
  <2>4. Directive(s, st, d) = IF c.ended THEN Ending(c.pos, q, IF q = <<>> THEN -1 ELSE Len(q))
                              ELSE Going(c.pos, q)
    BY <1>6, <2>1, <2>2 DEF Directive, AfterConversion
  <2>5. c.ended => c.pos > Len(s)
    BY <2>1 DEF Convert, _instr, _innum
  <2>6. CASE ~c.ended
    BY <1>2, <2>3, <2>4, <2>6
  <2>7. CASE c.ended /\ q # <<>>
    BY <1>3, <2>3, <2>4, <2>7
  <2>8. CASE c.ended /\ q = <<>>
    <3>1. Directive(s, st, d) = Ending(c.pos, q, -1)
      BY <2>4, <2>8
    <3> QED BY <2>3, <2>5, <2>8, <3>1 DEF Ending, Counted
  <2> QED BY <2>6, <2>7, <2>8
<1>7. CASE st.going /\ d.kind = "white"
  <2>1. Directive(s, st, d) = Going(FirstOther(s, st.pos, SPC), st.stored)
    BY <1>7 DEF Directive
  <2> QED BY <1>2, <1>4, <2>1
<1>8. CASE st.going /\ d.kind = "literal"
  <2>1. Directive(s, st, d) =
          IF CharAt(s, st.pos) = d.c THEN Going(st.pos + 1, st.stored)
          ELSE Ending(st.pos, st.stored, IF st.pos > Len(s) THEN -1 ELSE Len(st.stored))
    BY <1>8 DEF Directive
  <2>2. CASE CharAt(s, st.pos) = d.c
    BY <1>2, <1>4, <2>1, <2>2
  <2>3. CASE CharAt(s, st.pos) # d.c /\ ~(st.pos > Len(s))
    BY <1>3, <1>4, <2>1, <2>3
  <2>4. CASE CharAt(s, st.pos) # d.c /\ st.pos > Len(s)
    <3>1. Directive(s, st, d) = Ending(st.pos, st.stored, -1)
      BY <2>1, <2>4
    <3> QED BY <1>4, <1>8, <2>4, <3>1 DEF Ending, Counted
  <2> QED BY <2>2, <2>3, <2>4
<1> QED BY <1>1, <1>4, <1>5, <1>6, <1>7, <1>8

LEMMA ScanCounts ==
  ASSUME NEW s, NEW fmt \in Seq(Directives)
  PROVE  Counted(s, fmt, _doscan(s, fmt))
<1>1. Len(fmt) \in Nat /\ DOMAIN fmt = 1 .. Len(fmt)
  BY LenProperties
<1>2. PICK g : ScanOf(g, s, fmt, Len(fmt)) /\ _doscan(s, fmt) = g[Len(fmt)]
  BY <1>1, ScanIs
<1>3. SUFFICES ASSUME ~Counted(s, fmt, g[Len(fmt)]) PROVE FALSE
  BY <1>2
<1> PICK B : B = {m \in 0 .. Len(fmt) : ~Counted(s, fmt, g[m])}
  OBVIOUS
<1>4. Len(fmt) \in B /\ B \subseteq Nat
  BY <1>1, <1>3
<1>5. PICK m \in B : \A y \in B : m <= y
  BY <1>4, LeastPlace
<1>6. g[m] = IF m = 0 THEN Going(1, <<>>) ELSE Directive(s, g[m - 1], fmt[m])
  BY <1>2, <1>5 DEF ScanOf
<1>7. m # 0
  <2>1. IsSeq(<<>>)
    BY DEF IsSeq
  <2>2. Counted(s, fmt, Going(1, <<>>))
    BY <2>1 DEF Going, Counted
  <2> QED BY <1>5, <1>6, <2>2
<1>8. m - 1 \in 0 .. Len(fmt) /\ m \in DOMAIN fmt /\ ~(m <= m - 1)
  BY <1>1, <1>5, <1>7
<1>9. Counted(s, fmt, g[m - 1])
  BY <1>5, <1>8
<1>10. Counted(s, fmt, g[m])
  BY <1>6, <1>7, <1>8, <1>9, DirectiveCounts
<1> QED BY <1>5, <1>10

\* What is kept of a scan is what sscanf made of the text.
ScanInv ==
  job = "scan" =>
    /\ text \in Texts
    /\ scanned # None => scanned.fmt \in Formats /\ scanned = Scanned(scanned.fmt)

LEMMA ScanAlways == Spec => []ScanInv
<1>1. Init => ScanInv
  BY DEF Init, ScanInv
<1>2. ScanInv /\ [Next]_vars => ScanInv'
  <2> SUFFICES ASSUME ScanInv, [Next]_vars PROVE ScanInv'
    OBVIOUS
  <2>1. CASE Scanning
    <3>1. PICK fmt \in Formats : scanned' = Scanned(fmt)
      BY <2>1 DEF Scanning
    <3>2. scanned'.fmt = fmt
      BY <3>1 DEF Scanned
    <3>3. Scanned(fmt)' = Scanned(fmt)
      BY <2>1 DEF Scanning, Scanned
    <3> QED BY <2>1, <3>1, <3>2, <3>3 DEF ScanInv, Scanning
  <2>2. CASE ~Scanning
    <3>1. job' = "scan" => job = "scan" /\ UNCHANGED <<text, scanned>>
      BY <2>2 DEF Next, Sorting, Strcpy, Strncpy, Strncat, Memcpy, Memset, Bzero, Copied,
         Printing, Kprinting, ReadBack, vars, printVars
    <3> QED BY <3>1 DEF ScanInv, Scanned
  <2> QED BY <2>1, <2>2
<1> QED BY <1>1, <1>2, PTL DEF Spec

\* For every text and every format: what sscanf returns is the number of values it has
\* stored, or -1 at the end of the text.
THEOREM ScansReturnTheCount == Spec => []ReturnsTheCount
<1>1. ASSUME ScanInv PROVE ReturnsTheCount
  <2> SUFFICES ASSUME job = "scan", scanned # None
               PROVE  \/ scanned.result = Len(scanned.stored)
                      \/ /\ scanned.result = -1 /\ scanned.pos > Len(text)
                         /\ \/ scanned.stored = <<>>
                            \/ \E k \in DOMAIN scanned.fmt : scanned.fmt[k].kind = "literal"
    BY DEF ReturnsTheCount
  <2>1. PICK fmt, end : fmt = scanned.fmt /\ end = _doscan(text, fmt)
    OBVIOUS
  <2>2. fmt \in Seq(Directives) /\ scanned = Scanned(fmt)
    BY <1>1, <2>1, ConversionsAssumption DEF ScanInv
  <2>3. Counted(text, fmt, end)
    BY <2>1, <2>2, ScanCounts
  <2>4. scanned.pos = end.pos /\ scanned.stored = end.stored /\ scanned.result = end.result
    BY <2>1, <2>2 DEF Scanned
  <2> QED BY <2>1, <2>3, <2>4 DEF Counted
<1>2. ScanInv => ReturnsTheCount
  BY <1>1
<1> QED BY <1>2, ScanAlways, PTL

----------------------------------------------------------------------------
\* A word of a text, with blanks on both sides.
Around(s, pre, w, post) ==
  /\ s \in Seq(Int) /\ w \in Seq(Int) /\ pre \in Nat /\ post \in Nat
  /\ Len(s) = pre + Len(w) + post
  /\ \A k \in 1 .. Len(s) : k <= pre \/ k > pre + Len(w) => s[k] = Blank
  /\ \A k \in 1 .. Len(w) : s[pre + k] = w[k]

LEMMA JoinedPlaces ==
  ASSUME NEW s \in Seq(Int), NEW u \in Seq(Int)
  PROVE  /\ Len(s) \in Nat /\ Len(u) \in Nat
         /\ s \o u \in Seq(Int) /\ Len(s \o u) = Len(s) + Len(u)
         /\ \A k \in 1 .. Len(s) + Len(u) :
              (s \o u)[k] = IF k <= Len(s) THEN s[k] ELSE u[k - Len(s)]
BY ConcatProperties, LenProperties

LEMMA BlanksAround ==
  ASSUME NEW w \in Seq(Int), NEW n \in Int, NEW out, NEW fill, fill = Fill(n, Blank),
         out \in {<<>> \o (w \o fill), (fill \o <<>>) \o w}
  PROVE  \E pre, post : Around(out, pre, w, post)
<1> PICK m : m = IF n > 0 THEN n ELSE 0
  OBVIOUS
<1>1. m \in Nat /\ fill \in Seq(Int) /\ Len(fill) = m /\ \A k \in 1 .. m : fill[k] = Blank
  <2>1. m \in Nat /\ 1 .. n = 1 .. m
    OBVIOUS
  <2>2. fill \in [1 .. m -> {Blank}]
    BY <2>1 DEF Fill
  <2>3. fill \in [1 .. m -> Int]
    BY <2>2 DEF Blank
  <2> QED BY <2>1, <2>2, <2>3, FromFunction
<1>2. <<>> \o (w \o fill) = w \o fill /\ fill \o <<>> = fill
  <2>1. w \o fill \in Seq(Int)
    BY <1>1
  <2> QED BY <1>1, <2>1, ConcatEmptySeq
<1>3. CASE out = w \o fill
  <2> PICK n1 : n1 = Len(w)
    OBVIOUS
  <2>1. /\ out \in Seq(Int) /\ Len(out) = n1 + m
        /\ \A k \in 1 .. n1 + m : out[k] = IF k <= n1 THEN w[k] ELSE fill[k - n1]
    <3>1. out = w \o fill /\ fill \in Seq(Int) /\ Len(fill) = m /\ Len(w) = n1
      BY <1>1, <1>3
    <3>2. /\ w \o fill \in Seq(Int) /\ Len(w \o fill) = Len(w) + Len(fill)
          /\ \A k \in 1 .. Len(w) + Len(fill) :
               (w \o fill)[k] = IF k <= Len(w) THEN w[k] ELSE fill[k - Len(w)]
      BY ONLY w \in Seq(Int), <3>1, JoinedPlaces
    <3> QED BY ONLY <3>1, <3>2, Zenon
  <2>2. n1 \in Nat
    BY LenProperties
  <2>3. \A k \in 1 .. n1 + m : k > n1 => out[k] = Blank
    <3> SUFFICES ASSUME NEW k \in 1 .. n1 + m, k > n1 PROVE out[k] = Blank
      OBVIOUS
    <3>1. out[k] = fill[k - n1] /\ k - n1 \in 1 .. m
      BY ONLY <1>1, <2>1, <2>2, k \in 1 .. n1 + m, k > n1
    <3> QED BY <1>1, <3>1
  <2>4. \A k \in 1 .. n1 : out[0 + k] = w[k]
    BY ONLY <1>1, <2>1, <2>2
  <2>5. n1 + m = 0 + n1 + m /\ 0 \in Nat /\ \A k \in 1 .. n1 + m : ~(k <= 0) /\ 0 + n1 = n1
    BY ONLY <1>1, <2>2
  <2>6. Around(out, 0, w, m)
    BY <1>1, <2>1, <2>3, <2>4, <2>5 DEF Around
  <2> QED BY <2>6
<1>4. CASE out = fill \o w
  <2> PICK n1 : n1 = Len(w)
    OBVIOUS
  <2>1. /\ out \in Seq(Int) /\ Len(out) = m + n1
        /\ \A k \in 1 .. m + n1 : out[k] = IF k <= m THEN fill[k] ELSE w[k - m]
    <3>1. out = fill \o w /\ fill \in Seq(Int) /\ Len(fill) = m /\ Len(w) = n1
      BY <1>1, <1>4
    <3>2. /\ fill \o w \in Seq(Int) /\ Len(fill \o w) = Len(fill) + Len(w)
          /\ \A k \in 1 .. Len(fill) + Len(w) :
               (fill \o w)[k] = IF k <= Len(fill) THEN fill[k] ELSE w[k - Len(fill)]
      BY ONLY w \in Seq(Int), <3>1, JoinedPlaces
    <3> QED BY ONLY <3>1, <3>2, Zenon
  <2>2. n1 \in Nat
    BY LenProperties
  <2>3. \A k \in 1 .. m + n1 : k <= m => out[k] = Blank
    <3> SUFFICES ASSUME NEW k \in 1 .. m + n1, k <= m PROVE out[k] = Blank
      OBVIOUS
    <3>1. k \in 1 .. m
      BY ONLY <1>1, <2>2, k \in 1 .. m + n1, k <= m
    <3> QED BY <1>1, <2>1, <3>1
  <2>4. \A k \in 1 .. n1 : out[m + k] = w[k]
    <3> SUFFICES ASSUME NEW k \in 1 .. n1 PROVE out[m + k] = w[k]
      OBVIOUS
    <3>1. m + k \in 1 .. m + n1 /\ ~(m + k <= m) /\ (m + k) - m = k
      BY ONLY <1>1, <2>2, k \in 1 .. n1
    <3> QED BY <2>1, <3>1
  <2>5. m + n1 = m + n1 + 0 /\ 0 \in Nat /\ \A k \in 1 .. m + n1 : ~(k > m + n1)
    BY ONLY <1>1, <2>2
  <2>6. Around(out, m, w, 0)
    BY <1>1, <2>1, <2>3, <2>4, <2>5 DEF Around
  <2> QED BY <2>6
<1> QED BY <1>2, <1>3, <1>4

LEMMA PrintedWord ==
  ASSUME NEW w \in Seq(Int), NEW leftjust, NEW zero, NEW fmin \in Int
  PROVE  \E pre, post : Around(_doprnt("s", w, leftjust, zero, fmin, 0), pre, w, post)
<1> PICK n, fill, sign, out :
      /\ n = Leading(fmin, w, sign) /\ fill = Fill(n, Blank) /\ sign = <<>>
      /\ out = _doprnt("s", w, leftjust, zero, fmin, 0)
  OBVIOUS
<1>1. n \in Int
  <2>1. Len(w) \in Nat /\ Len(<<>>) = 0 /\ InField(fmin) \in Int
    BY DEF InField
  <2> QED BY <2>1 DEF Leading
<1>2. InField(0) = 0
  BY DEF InField
<1>3. Converted("s", w) = w
  BY DEF Converted
<1>4. Blank # Zero
  BY DEF Blank, Zero
<1>5. out = IF leftjust THEN <<>> \o (w \o fill) ELSE (fill \o <<>>) \o w
  BY <1>2, <1>3, <1>4, Zenon DEF _doprnt
<1> QED BY <1>1, <1>5, BlanksAround

\* %s passes the blanks, takes the word and stops behind it.
LEMMA WordTaken ==
  ASSUME NEW s, NEW pre, NEW w, NEW post, Around(s, pre, w, post), Len(w) \in 1 .. NoWidth - 1,
         \A k \in 1 .. Len(w) : w[k] \notin SPC
  PROVE  LET c == _instr(s, 1, Conversion("s", NoWidth, TRUE))
         IN  c.matched = TRUE /\ c.value = w
<1> PICK d, n, m : d = Conversion("s", NoWidth, TRUE) /\ n = Len(s) /\ m = Len(w)
  OBVIOUS
<1>1. /\ n \in Nat /\ m \in Nat /\ pre \in Nat /\ post \in Nat /\ n = pre + m + post /\ m >= 1
      /\ m < NoWidth /\ NoWidth \in Nat
  <2>1. /\ pre \in Nat /\ post \in Nat /\ m \in Nat
        /\ n = pre + m + post /\ m \in 1 .. NoWidth - 1
    <3>1. w \in Seq(Int)
      BY DEF Around
    <3>2. m \in Nat
      BY <3>1, LenProperties
    <3>3. Len(s) = pre + Len(w) + post /\ pre \in Nat /\ post \in Nat
      BY Zenon DEF Around
    <3> QED BY <3>2, <3>3, Zenon
  <2>2. n \in Nat /\ m \in Nat /\ NoWidth \in Nat
    <3>1. n \in Nat
      BY ONLY <2>1
    <3>2. NoWidth \in Nat
      BY ONLY DEF NoWidth
    <3> QED BY <2>1, <3>1, <3>2, Zenon
  <2> QED BY ONLY <2>1, <2>2
<1>2. Blank \in SPC
  BY DEF SPC
<1>3. \A k \in 1 .. n : s[k] \in SPC <=> k <= pre \/ k > pre + m
  <2> SUFFICES ASSUME NEW k \in 1 .. n PROVE s[k] \in SPC <=> k <= pre \/ k > pre + m
    OBVIOUS
  <2>1. CASE k <= pre \/ k > pre + m
    BY <1>2, <2>1 DEF Around
  <2>2. CASE ~(k <= pre \/ k > pre + m)
    <3>1. k - pre \in 1 .. m /\ pre + (k - pre) = k
      BY <1>1, <2>2
    <3>2. s[k] = w[k - pre]
      BY <3>1 DEF Around
    <3> QED BY <2>2, <3>1, <3>2
  <2> QED BY <2>1, <2>2
<1>4. FirstOther(s, 1, SPC) = pre + 1
  <2> PICK S : S = {n + 1} \cup {y \in 1 .. n : s[y] \notin SPC}
    OBVIOUS
  <2>1. \A y : y \in S <=> y = n + 1 \/ (y \in 1 .. n /\ ~(y <= pre \/ y > pre + m))
    BY <1>3
  <2>2. pre + 1 \in S /\ S \subseteq Nat /\ \A y \in S : pre + 1 <= y
    BY ONLY <1>1, <2>1
  <2>3. Min(S) \in S /\ Min(S) <= pre + 1
    BY <2>2, LeastPlace
  <2>4. Min(S) = pre + 1
    <3>1. Min(S) \in Nat /\ pre + 1 <= Min(S)
      BY <2>2, <2>3
    <3> QED BY <1>1, <2>3, <3>1
  <2> QED BY <2>4 DEF FirstOther
<1> PICK S, end :
      /\ S = {n + 1, (pre + 1) + NoWidth} \cup {y \in pre + 1 .. n : ~Takes(d, s[y])}
      /\ end = Min(S)
  OBVIOUS
<1>5. \A c : Takes(d, c) <=> c \notin SPC
  BY DEF Takes, Conversion
<1>6. end = pre + m + 1
  <2>1. S = {n + 1, (pre + 1) + NoWidth} \cup {y \in pre + 1 .. n : s[y] \in SPC}
    BY <1>5
  <2>2. \A y : y \in S <=> \/ y = n + 1 \/ y = (pre + 1) + NoWidth
                           \/ (y \in pre + 1 .. n /\ y > pre + m)
    <3>1. \A y \in pre + 1 .. n : s[y] \in SPC <=> y > pre + m
      <4> SUFFICES ASSUME NEW y \in pre + 1 .. n PROVE s[y] \in SPC <=> y > pre + m
        OBVIOUS
      <4>1. y \in 1 .. n /\ ~(y <= pre)
        BY ONLY <1>1, y \in pre + 1 .. n
      <4> QED BY <1>3, <4>1
    <3>2. ASSUME NEW y
          PROVE  y \in S <=> \/ y = n + 1 \/ y = (pre + 1) + NoWidth
                             \/ (y \in pre + 1 .. n /\ s[y] \in SPC)
      BY <2>1
    <3> QED BY <3>1, <3>2
  <2>3. pre + m + 1 \in S /\ S \subseteq Nat /\ \A y \in S : pre + m + 1 <= y
    BY ONLY <1>1, <2>2
  <2>4. Min(S) \in S /\ Min(S) <= pre + m + 1
    BY <2>3, LeastPlace
  <2>5. Min(S) \in Nat /\ pre + m + 1 <= Min(S) /\ pre + m + 1 \in Nat
    BY <1>1, <2>3, <2>4
  <2>6. Min(S) = pre + m + 1
    BY ONLY <2>4, <2>5
  <2> QED BY <2>6
<1>7. SubSeq(s, pre + 1, end - 1) = w
  <2>1. end - 1 = pre + m
    BY <1>1, <1>6
  <2>0. PICK lo, hi : lo = pre + 1 /\ hi = pre + m
    OBVIOUS
  <2>2. lo \in Int /\ hi \in Int /\ lo <= hi /\ hi - lo + 1 = m
    BY ONLY <1>1, <2>0
  <2>3. \A k \in lo .. hi : s[k] \in Int
    <3>1. \A k \in lo .. hi : k \in 1 .. n
      BY ONLY <1>1, <2>0
    <3>2. s \in Seq(Int) /\ n = Len(s)
      BY DEF Around
    <3> QED BY ONLY <3>1, <3>2, ElementOfSeq
  <2> PICK q : q = SubSeq(s, lo, hi)
    OBVIOUS
  <2>4. q \in Seq(Int) /\ Len(q) = m /\ \A k \in 1 .. m : q[k] = s[lo + k - 1]
    <3>1. /\ SubSeq(s, lo, hi) \in Seq(Int)
          /\ Len(SubSeq(s, lo, hi)) = IF lo <= hi THEN hi - lo + 1 ELSE 0
          /\ \A k \in 1 .. hi - lo + 1 : SubSeq(s, lo, hi)[k] = s[lo + k - 1]
      BY ONLY <2>2, <2>3, SubSeqProperties
    <3> QED BY <2>2, <3>1
  <2>5. \A k \in 1 .. m : q[k] = w[k]
    <3> SUFFICES ASSUME NEW k \in 1 .. m PROVE q[k] = w[k]
      OBVIOUS
    <3>1. lo + k - 1 = pre + k
      BY ONLY <1>1, <2>0, k \in 1 .. m
    <3> QED BY <2>4, <3>1 DEF Around
  <2>6. q = w
    <3>1. w \in Seq(Int) /\ Len(w) = m
      BY DEF Around
    <3> QED BY <2>4, <2>5, <3>1, SeqEqual
  <2> QED BY <2>0, <2>1, <2>6
<1>8. d.f = "s" /\ d.len = NoWidth /\ d.store = TRUE
  BY DEF Conversion
<1>9. _instr(s, 1, d) = [pos |-> end, matched |-> d.store /\ end > pre + 1,
                         value |-> SubSeq(s, pre + 1, end - 1),
                         ended |-> end > n /\ end < (pre + 1) + NoWidth]
  BY <1>4, <1>8 DEF _instr
<1>10. end > pre + 1
  BY <1>1, <1>6
<1>11. _instr(s, 1, d).matched = (d.store /\ end > pre + 1) /\ _instr(s, 1, d).value = w
  <2> PICK v, x, y, z :
        v = SubSeq(s, pre + 1, end - 1) /\ x = (d.store /\ end > pre + 1) /\ y = end
        /\ z = (end > n /\ end < (pre + 1) + NoWidth)
    OBVIOUS
  <2>1. _instr(s, 1, d) = [pos |-> y, matched |-> x, value |-> v, ended |-> z]
    BY <1>9, Zenon
  <2>2. _instr(s, 1, d).matched = x /\ _instr(s, 1, d).value = v
    BY ONLY <2>1
  <2> QED BY <1>7, <2>2, Zenon
<1>12. (d.store /\ end > pre + 1) = TRUE
  BY <1>8, <1>10, Zenon
<1> QED BY <1>11, <1>12

\* What is kept of a text read back is what sscanf made of it.
ReadBackInv ==
  job = "print" /\ scanned # None =>
    text # <<>> /\ scanned = Scanned(<<Conversion(print.f, NoWidth, TRUE)>>)

LEMMA ReadBackAlways == Spec => []ReadBackInv
<1>1. Init => ReadBackInv
  BY DEF Init, ReadBackInv, NoPrint
<1>2. ReadBackInv /\ [Next]_vars => ReadBackInv'
  BY DEF ReadBackInv, Next, Sorting, Strcpy, Strncpy, Strncat, Memcpy, Memset, Bzero, Copied,
     Printing, Kprinting, ReadBack, Scanning, Scanned, vars, printVars
<1> QED BY <1>1, <1>2, PTL DEF Spec

\* For every word and every field: what %s printed, sscanf stores again with %s.
THEOREM WordsAreReadBack == Spec => []ReadsBackWords
<1>1. ASSUME PrintInv, ReadBackInv PROVE ReadsBackWords
  <2> SUFFICES ASSUME job = "print", scanned # None, print.f = "s", print.fmax = 0,
                      print.arg # <<>>, Len(print.arg) < NoWidth,
                      \A k \in DOMAIN print.arg : print.arg[k] \notin SPC
               PROVE  scanned.stored = <<print.arg>>
    BY DEF ReadsBackWords
  <2> PICK w, d, fmt : w = print.arg /\ d = Conversion("s", NoWidth, TRUE) /\ fmt = <<d>>
    OBVIOUS
  <2>1. w \in Seq(Int) /\ print.fmin \in Int /\ text # <<>>
    BY <1>1, ConversionsAssumption DEF PrintInv, ReadBackInv
  <2>2. Len(w) \in 1 .. NoWidth - 1 /\ \A k \in 1 .. Len(w) : w[k] \notin SPC
    <3>1. Len(w) \in Nat /\ Len(w) # 0 /\ DOMAIN w = 1 .. Len(w)
      BY <2>1, LenProperties, EmptySeq
    <3>2. Len(w) < NoWidth /\ NoWidth \in Nat
      BY DEF NoWidth
    <3> QED BY <3>1, <3>2
  <2>3. text = _doprnt("s", w, print.leftjust, print.zero, print.fmin, 0)
    BY <1>1, <2>1 DEF PrintInv
  <2>4. PICK pre, post : Around(text, pre, w, post)
    BY <2>1, <2>3, PrintedWord
  <2>5. PICK c : c = _instr(text, 1, d) /\ c.matched = TRUE /\ c.value = w
    BY <2>2, <2>4, WordTaken
  <2>6. scanned.stored = _doscan(text, fmt).stored
    BY <1>1 DEF ReadBackInv, Scanned
  <2>7. PICK g : ScanOf(g, text, fmt, 1) /\ _doscan(text, fmt) = g[1]
    <3>1. Len(fmt) = 1 /\ 1 \in Nat
      OBVIOUS
    <3> QED BY <3>1, ScanIs
  <2>8. g[0] = Going(1, <<>>) /\ g[1] = Directive(text, g[0], d)
    <3>1. fmt[1] = d /\ 0 \in 0 .. 1 /\ 1 \in 0 .. 1 /\ 1 - 1 = 0 /\ 1 # 0
      OBVIOUS
    <3>2. ASSUME NEW k \in 0 .. 1
          PROVE  g[k] = IF k = 0 THEN Going(1, <<>>) ELSE Directive(text, g[k - 1], fmt[k])
      BY <2>7, Zenon DEF ScanOf
    <3>3. g[0] = Going(1, <<>>)
      BY <3>1, <3>2
    <3>4. g[1] = Directive(text, g[1 - 1], fmt[1])
      BY ONLY <3>1, <3>2
    <3> QED BY <3>1, <3>3, <3>4
  <2>9. g[1] = AfterConversion(g[0], Convert(text, 1, d))
    BY <2>8 DEF Directive, Going, Conversion
  <2>10. Convert(text, 1, d) = c
    BY <2>5 DEF Convert, Conversion
  <2>11. g[1].stored = Append(<<>>, w)
    <3> PICK e : e = g[0]
      OBVIOUS
    <3>1. e.stored = <<>>
      BY <2>8 DEF Going
    <3>2. AfterConversion(e, c).stored = Append(e.stored, c.value)
      BY <2>5, Zenon DEF AfterConversion, Going, Ending
    <3> QED BY <2>5, <2>9, <2>10, <3>1, <3>2
  <2>12. Append(<<>>, w) = <<w>>
    OBVIOUS
  <2> QED BY <2>6, <2>7, <2>11, <2>12
<1>2. PrintInv /\ ReadBackInv => ReadsBackWords
  BY <1>1
<1> QED BY <1>2, PrintAlways, ReadBackAlways, PTL
=============================================================================
