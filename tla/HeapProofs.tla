----------------------------- MODULE HeapProofs -----------------------------
(***************************************************************************)
(* Proofs about KernelHeap, for every size of the heap and of the tables   *)
(* and every shape of the pools.                                           *)
(*                                                                         *)
(* First the free list: what getmem, getstk and freemem do to the set of   *)
(* free words, and that a list in order is determined by that set.  Then   *)
(* the pools: the buffers of a pool are on its chain or lent, getbuf never *)
(* finds the chain empty, and no process waits for a buffer that the count *)
(* says is there.  Then the memory they are cut from: the free list is     *)
(* sound, a piece has one owner, and everything comes back.                *)
(***************************************************************************)
EXTENDS KernelHeap, FiniteSetTheorems, SequenceTheorems, WellFoundedInduction, TLAPS

Piece == [addr : Int, len : Int]

\* At a memblk boundary.
Even(x) == x % MB = 0

----------------------------------------------------------------------------
\* Arithmetic.

\* Boundaries are kept by sums and differences, and a number is at one or just past one.
LEMMA EvenFacts ==
  ASSUME NEW x \in Int, NEW y \in Int
  PROVE  /\ Even(x) /\ Even(y) => Even(x + y) /\ Even(x - y)
         /\ Even(truncmb(x)) /\ truncmb(x) \in Int /\ truncmb(x) <= x /\ x - 1 <= truncmb(x)
         /\ Even(x) => truncmb(x) = x
         /\ Even(0)
         /\ Even(x) /\ Even(y) /\ x < y => x + MB <= y
BY DEF Even, truncmb, MB

\* Boundaries are kept by sums and differences.
LEMMA EvenSums ==
  ASSUME NEW x \in Int, NEW y \in Int, Even(x), Even(y)
  PROVE  Even(x + y) /\ Even(x - y)
BY EvenFacts

\* The remainder is the one number in range that differs by a multiple.
LEMMA OneRemainder ==
  ASSUME NEW m \in Nat, m > 0, NEW q \in Int, NEW r \in 0 .. m - 1
  PROVE  (q * m + r) % m = r
<1> DEFINE x == q * m + r
<1>1. x \in Int
  OBVIOUS
<1>2. x % m \in 0 .. m - 1 /\ x = m * (x \div m) + (x % m) /\ x \div m \in Int
  BY <1>1
<1> DEFINE d == x \div m
<1> DEFINE s == x % m
<1>3. d \in Int /\ s \in 0 .. m - 1 /\ q * m + r = m * d + s
  BY <1>2
<1> HIDE DEF d, s
<1>4. (q - d) * m = s - r
  BY <1>3
<1>5. q - d >= 1 => (q - d) * m >= m
  BY <1>3
<1>6. q - d <= -1 => (q - d) * m <= -m
  BY <1>3
<1>7. q = d
  BY <1>3, <1>4, <1>5, <1>6
<1> QED BY <1>3, <1>7 DEF s, d

\* A term may be reduced modulo m before the sum is or not.
LEMMA ModularSum ==
  ASSUME NEW m \in Nat, m > 0, NEW x \in Int, NEW y \in Int
  PROVE  ((x % m) + y) % m = (x + y) % m
<1> DEFINE d == x \div m
<1>1. x % m \in 0 .. m - 1 /\ x = m * d + (x % m) /\ d \in Int
  OBVIOUS
<1> DEFINE z == (x % m) + y
<1> DEFINE e == z \div m
<1>2. z \in Int /\ z % m \in 0 .. m - 1 /\ z = m * e + (z % m) /\ e \in Int
  BY <1>1
<1> DEFINE r == z % m
<1> HIDE DEF d, e, r
<1>3. d + e \in Int /\ r \in 0 .. m - 1 /\ m * d + m * e = (d + e) * m
  BY <1>1, <1>2 DEF r
<1>4. x + y = (d + e) * m + r
  BY <1>1, <1>2, <1>3 DEF r
<1>5. (x + y) % m = r
  BY <1>3, <1>4, OneRemainder
<1> QED BY <1>5 DEF r

----------------------------------------------------------------------------
\* Lists in order.

Past(b)       == b.addr + b.len
InOrder(list) == \A i, j \in DOMAIN list : i < j => Past(list[i]) < list[j].addr
WellCut(b)    == b.len > 0 /\ Even(b.addr) /\ Even(b.len)

\* A free list as it should be.
Tidy(list) == list \in Seq(Piece) /\ InOrder(list) /\ \A i \in DOMAIN list : WellCut(list[i])

\* The words of some of the blocks.
WordsOf(list, K) == UNION {Words(list[k]) : k \in K}

\* The numbers of a block.
LEMMA PieceFacts ==
  ASSUME NEW b \in Piece
  PROVE  b.addr \in Int /\ b.len \in Int /\ Past(b) \in Int /\ Past(b) = b.addr + b.len
BY DEF Piece, Past

\* A well cut block lies between two boundaries.
LEMMA CutFacts ==
  ASSUME NEW b \in Piece, WellCut(b)
  PROVE  /\ b.addr \in Int /\ b.len \in Int /\ Past(b) \in Int /\ Past(b) = b.addr + b.len
         /\ b.addr < Past(b) /\ Even(b.addr) /\ Even(b.len) /\ Even(Past(b))
<1>1. /\ b.addr \in Int /\ b.len \in Int /\ Past(b) \in Int /\ Past(b) = b.addr + b.len
      /\ Even(b.addr) /\ Even(b.len) /\ b.len > 0
  BY PieceFacts DEF WellCut
<1>2. Even(Past(b))
  BY <1>1 DEF Even, MB
<1> QED BY <1>1, <1>2

\* The words of a block.
LEMMA WordsFacts ==
  ASSUME NEW b \in Piece
  PROVE  \A w : w \in Words(b) <=> w \in Int /\ b.addr <= w /\ w < Past(b)
BY PieceFacts DEF Words

\* No two blocks share a word.
LEMMA BlocksApart ==
  ASSUME NEW list, Tidy(list), NEW i \in DOMAIN list, NEW j \in DOMAIN list, i # j
  PROVE  Words(list[i]) \cap Words(list[j]) = {}
<1>1. /\ Len(list) \in Nat /\ DOMAIN list = 1 .. Len(list)
      /\ list[i] \in Piece /\ list[j] \in Piece
  BY DEF Tidy
<1>2. i < j => Past(list[i]) < list[j].addr
  BY DEF Tidy, InOrder
<1>3. j < i => Past(list[j]) < list[i].addr
  BY DEF Tidy, InOrder
<1> QED BY <1>1, <1>2, <1>3 DEF Past, Words, Piece

\* A word is in one of the blocks, or in one of the others.
LEMMA SpanParts ==
  ASSUME NEW list, NEW i \in DOMAIN list, Tidy(list)
  PROVE  /\ Span(list) = Words(list[i]) \union WordsOf(list, DOMAIN list \ {i})
         /\ WordsOf(list, DOMAIN list \ {i}) = Span(list) \ Words(list[i])
<1>1. Span(list) = Words(list[i]) \union WordsOf(list, DOMAIN list \ {i})
  BY DEF Span, WordsOf
<1>2. \A j \in DOMAIN list \ {i} : Words(list[j]) \cap Words(list[i]) = {}
  BY BlocksApart
<1> QED BY <1>1, <1>2 DEF WordsOf

\* The list without its block i.
LEMMA TidyWithout ==
  ASSUME NEW list, Tidy(list), NEW i \in DOMAIN list
  PROVE  LET rest == RemoveAt(list, i)
         IN  Tidy(rest) /\ Span(rest) = Span(list) \ Words(list[i])
<1> DEFINE n == Len(list)
<1> DEFINE rest == RemoveAt(list, i)
<1>1. list \in Seq(Piece) /\ n \in Nat /\ DOMAIN list = 1 .. n /\ i \in 1 .. n
  BY DEF Tidy
<1>2. /\ rest \in Seq(Piece) /\ DOMAIN rest = 1 .. n - 1
      /\ \A k \in 1 .. n - 1 : rest[k] = list[IF k < i THEN k ELSE k + 1]
  <2> DEFINE l == SubSeq(list, 1, i - 1)
  <2> DEFINE r == SubSeq(list, i + 1, n)
  <2>1. /\ l \in Seq(Piece) /\ Len(l) = i - 1 /\ \A k \in 1 .. i - 1 : l[k] = list[k]
        /\ r \in Seq(Piece) /\ Len(r) = n - i /\ \A k \in 1 .. n - i : r[k] = list[k + i]
    <3> PICK m, u, v : m = n /\ u = l /\ v = r
      OBVIOUS
    <3>1. list \in Seq(Piece) /\ m \in Nat /\ i \in 1 .. m /\ m = Len(list)
      BY <1>1
    <3>2. u = SubSeq(list, 1, i - 1) /\ v = SubSeq(list, i + 1, m)
      OBVIOUS
    <3>3. u \in Seq(Piece) /\ Len(u) = i - 1 /\ \A k \in 1 .. i - 1 : u[k] = list[k]
      BY ONLY <3>1, <3>2
    <3>4. v \in Seq(Piece) /\ Len(v) = m - i
      BY ONLY <3>1, <3>2
    <3>5. \A k \in 1 .. m - i : v[k] = list[(i + 1) + k - 1] /\ (i + 1) + k - 1 = k + i
      BY ONLY <3>1, <3>2
    <3> QED BY <3>3, <3>4, <3>5
  <2>2. rest = l \o r
    BY DEF RemoveAt
  <2> HIDE DEF l, r, rest, n
  <2>3. /\ rest \in Seq(Piece) /\ Len(rest) = n - 1
        /\ \A k \in 1 .. n - 1 : rest[k] = IF k <= i - 1 THEN l[k] ELSE r[k - (i - 1)]
    <3>1. /\ rest \in Seq(Piece) /\ Len(rest) = Len(l) + Len(r)
          /\ \A k \in 1 .. Len(l) + Len(r) : rest[k] = IF k <= Len(l) THEN l[k] ELSE r[k - Len(l)]
      <4>1. l \in Seq(Piece) /\ r \in Seq(Piece)
        BY <2>1
      <4> QED BY ONLY <2>2, <4>1
    <3>2. Len(l) = i - 1 /\ Len(l) + Len(r) = n - 1
      BY <1>1, <2>1
    <3> QED BY <3>1, <3>2
  <2>4. DOMAIN rest = 1 .. n - 1
    BY <1>1, <2>3
  <2>5. ASSUME NEW k \in 1 .. n - 1 PROVE rest[k] = list[IF k < i THEN k ELSE k + 1]
    <3>1. CASE k < i
      BY <1>1, <2>1, <2>3, <3>1
    <3>2. CASE k >= i
      <4>1. k - (i - 1) \in 1 .. n - i /\ (k - (i - 1)) + i = k + 1
        BY <1>1, <3>2
      <4>2. rest[k] = r[k - (i - 1)] /\ ~(k < i)
        BY <1>1, <2>3, <3>2
      <4>3. r[k - (i - 1)] = list[(k - (i - 1)) + i]
        BY <2>1, <4>1
      <4> QED BY <4>1, <4>2, <4>3
    <3> QED BY <1>1, <3>1, <3>2
  <2> QED BY <2>3, <2>4, <2>5
<1> DEFINE f(k) == IF k < i THEN k ELSE k + 1
<1> HIDE DEF rest, n
<1>3. /\ \A k \in 1 .. n - 1 : f(k) \in 1 .. n /\ f(k) # i /\ rest[k] = list[f(k)]
      /\ \A j, k \in 1 .. n - 1 : j < k => f(j) < f(k)
  BY <1>1, <1>2
<1>4. \A j \in 1 .. n : j # i => \E k \in 1 .. n - 1 : f(k) = j
  <2> SUFFICES ASSUME NEW j \in 1 .. n, j # i PROVE \E k \in 1 .. n - 1 : f(k) = j
    OBVIOUS
  <2>1. CASE j < i
    BY <1>1, <2>1
  <2>2. CASE j > i
    <3>1. j - 1 \in 1 .. n - 1 /\ f(j - 1) = j
      BY <1>1, <2>2
    <3> QED BY <3>1
  <2> QED BY <1>1, <2>1, <2>2
<1> HIDE DEF f
<1>5. Tidy(rest)
  BY <1>1, <1>2, <1>3 DEF Tidy, InOrder
<1>6. Span(rest) = WordsOf(list, DOMAIN list \ {i})
  BY <1>1, <1>2, <1>3, <1>4 DEF Span, WordsOf
<1> QED BY <1>5, <1>6, SpanParts DEF rest

\* The list t is list with x in the place of block i.
Replaces(t, list, i, x) == t = [list EXCEPT ![i] = x]

\* The list with a part of block i in its place.
LEMMA TidyShrunk ==
  ASSUME NEW list, Tidy(list), NEW i \in DOMAIN list, NEW x \in Piece, WellCut(x),
         list[i].addr <= x.addr, Past(x) <= Past(list[i]),
         NEW t, Replaces(t, list, i, x)
  PROVE  Tidy(t) /\ Span(t) = (Span(list) \ Words(list[i])) \union Words(x)
<1>1. /\ t \in Seq(Piece) /\ DOMAIN t = DOMAIN list /\ t[i] = x
      /\ \A k \in DOMAIN list : k # i => t[k] = list[k]
      /\ \A k \in DOMAIN list : list[k] \in Piece
  BY DEF Tidy, Replaces
<1>2. \A k \in DOMAIN t : WellCut(t[k])
  BY <1>1 DEF Tidy
<1>3. InOrder(t)
  <2> SUFFICES ASSUME NEW j \in DOMAIN list, NEW k \in DOMAIN list, j < k
               PROVE  Past(t[j]) < t[k].addr
    BY <1>1 DEF InOrder
  <2>1. Past(list[j]) < list[k].addr
    BY DEF Tidy, InOrder
  <2>2. Past(list[j]) \in Int /\ list[k].addr \in Int /\ Past(x) \in Int /\ x.addr \in Int
    BY <1>1, PieceFacts
  <2>3. Past(t[j]) <= Past(list[j])
    BY <1>1, <2>2
  <2>4. list[k].addr <= t[k].addr
    BY <1>1, <2>2
  <2>5. Past(t[j]) \in Int /\ t[k].addr \in Int
    <3>1. t[j] \in Piece /\ t[k] \in Piece
      BY <1>1
    <3> QED BY <3>1, PieceFacts
  <2> QED BY <2>1, <2>2, <2>3, <2>4, <2>5
<1>4. Span(t) = Words(x) \union WordsOf(list, DOMAIN list \ {i})
  BY <1>1 DEF Span, WordsOf
<1> QED BY <1>1, <1>2, <1>3, <1>4, SpanParts DEF Tidy

----------------------------------------------------------------------------
\* Requests.

\* A rounded request is a multiple of a memblk below W; it is no smaller than the request
\* unless that is so large that it wraps.
LEMMA Rounded ==
  ASSUME NEW n \in Nat
  PROVE  /\ roundmb(n) \in 0 .. W - MB /\ Even(roundmb(n))
         /\ n <= W - MB => n <= roundmb(n) /\ roundmb(n) <= n + 1
         /\ n < W /\ Even(n) => roundmb(n) = n
<1>1. W \in Nat /\ W > 0 /\ Even(W)
  BY MemoryAssumption DEF Even
<1> DEFINE m == (n + MB - 1) % W
<1>2. m \in 0 .. W - 1 /\ (n <= W - MB => m = n + 1)
  BY <1>1 DEF MB
<1>3. roundmb(n) = truncmb(m)
  BY DEF roundmb
<1> HIDE DEF m
<1>4. truncmb(m) \in 0 .. W - MB /\ Even(truncmb(m))
  BY <1>1, <1>2 DEF truncmb, MB, Even
<1>5. ASSUME n <= W - MB PROVE n <= roundmb(n) /\ roundmb(n) <= n + 1
  BY <1>1, <1>2, <1>3, <1>5 DEF truncmb, MB
<1>6. ASSUME n < W, Even(n) PROVE roundmb(n) = n
  <2>1. n <= W - MB
    BY <1>1, <1>6 DEF Even, MB
  <2>2. m = n + 1
    BY <1>2, <2>1
  <2> QED BY <1>3, <1>6, <2>2 DEF truncmb, Even, MB
<1> QED BY <1>3, <1>4, <1>5, <1>6

\* The least and the greatest number of a finite range.
LEMMA LeastAndGreatest ==
  ASSUME NEW n \in Nat, NEW F, F \subseteq 1 .. n, F # {}
  PROVE  Min(F) \in F /\ Max(F) \in F /\ \A y \in F : Min(F) <= y /\ y <= Max(F)
<1>1. \E x \in F : \A y \in F : x <= y
  <2>1. F \subseteq Nat
    OBVIOUS
  <2>2. PICK x \in F : \A y \in F : <<y, x>> \notin OpToRel(<, Nat)
    BY <2>1, NatLessThanWellFounded, WFMin
  <2>3. ASSUME NEW y \in F PROVE x <= y
    <3>1. ~(y < x)
      BY <2>1, <2>2 DEF OpToRel
    <3> QED BY <2>1, <3>1
  <2> QED BY <2>3
<1>2. \E x \in F : \A y \in F : x >= y
  <2> DEFINE G == {n - y : y \in F}
  <2>1. G \subseteq Nat /\ G # {}
    <3>1. \A y \in F : n - y \in Nat
      OBVIOUS
    <3> QED BY <3>1
  <2>2. PICK x \in G : \A y \in G : <<y, x>> \notin OpToRel(<, Nat)
    BY <2>1, NatLessThanWellFounded, WFMin
  <2>3. PICK z \in F : x = n - z
    BY <2>2
  <2>4. ASSUME NEW y \in F PROVE z >= y
    <3>1. n - y \in G /\ ~(n - y < x)
      BY <2>1, <2>2 DEF OpToRel
    <3> QED BY <2>3, <3>1
  <2> QED BY <2>4
<1> QED BY <1>1, <1>2 DEF Min, Max

\* The answer r cuts m words from block i of the list: all of it, the bottom, or the top.
Unlinks(r, list, i, m) ==
  list[i].len = m /\ r.got = block(list[i].addr, m) /\ r.free = RemoveAt(list, i)

CutsBottom(r, list, i, m) ==
  /\ list[i].len > m /\ r.got = block(list[i].addr, m)
  /\ r.free = [list EXCEPT ![i] = block(list[i].addr + m, list[i].len - m)]

CutsTop(r, list, i, m) ==
  /\ list[i].len > m /\ r.got = block(list[i].addr + list[i].len - m, m)
  /\ r.free = [list EXCEPT ![i] = block(list[i].addr, list[i].len - m)]

\* Both requests find a block that is large enough, and cut from it.
LEMMA RequestCuts ==
  ASSUME NEW list, Tidy(list), NEW n \in Nat, NEW r \in {getmem(list, n), getstk(list, n)}, r.ok
  PROVE  /\ n # 0
         /\ \E i \in DOMAIN list : \/ Unlinks(r, list, i, roundmb(n))
                                   \/ CutsBottom(r, list, i, roundmb(n))
                                   \/ CutsTop(r, list, i, roundmb(n))
<1> DEFINE m == roundmb(n)
<1> DEFINE F == Fitting(list, m)
<1>1. Len(list) \in Nat /\ DOMAIN list = 1 .. Len(list) /\ \A k \in DOMAIN list : list[k].len \in Int
  BY PieceFacts DEF Tidy
<1>2. n # 0 /\ F # {} /\ F \subseteq DOMAIN list /\ \A k \in F : list[k].len >= m
  BY DEF getmem, getstk, Refused, Fitting
<1>3. Min(F) \in F /\ Max(F) \in F
  BY <1>1, <1>2, LeastAndGreatest
<1>4. m \in Int
  BY Rounded
<1>5. CASE r = getmem(list, n)
  <2> DEFINE i == Min(F)
  <2>1. r = Granted(block(list[i].addr, m),
              IF list[i].len = m THEN RemoveAt(list, i)
              ELSE [list EXCEPT ![i] = block(list[i].addr + m, list[i].len - m)])
    BY <1>2, <1>5 DEF getmem
  <2>2. i \in DOMAIN list /\ list[i].len >= m /\ list[i].len \in Int
    BY <1>1, <1>2, <1>3
  <2> HIDE DEF i, m, F
  <2>3. CASE list[i].len = m
    <3>1. Unlinks(r, list, i, m)
      BY <2>1, <2>3 DEF Granted, Unlinks
    <3> QED BY <1>2, <2>2, <3>1 DEF m
  <2>4. CASE list[i].len # m
    <3>1. list[i].len > m
      BY <1>4, <2>2, <2>4
    <3>2. CutsBottom(r, list, i, m)
      BY <2>1, <2>4, <3>1 DEF Granted, CutsBottom
    <3> QED BY <1>2, <2>2, <3>2 DEF m
  <2> QED BY <2>3, <2>4
<1>6. CASE r = getstk(list, n)
  <2> DEFINE i == Max(F)
  <2>1. r = Granted(block(list[i].addr + list[i].len - m, m),
              IF list[i].len = m THEN RemoveAt(list, i)
              ELSE [list EXCEPT ![i] = block(list[i].addr, list[i].len - m)])
    BY <1>2, <1>6 DEF getstk
  <2>2. i \in DOMAIN list /\ list[i].len >= m /\ list[i].len \in Int /\ list[i].addr \in Int
    BY <1>1, <1>2, <1>3, PieceFacts DEF Tidy
  <2> HIDE DEF i, m, F
  <2>3. CASE list[i].len = m
    <3>1. list[i].addr + list[i].len - m = list[i].addr
      BY <1>4, <2>2, <2>3
    <3>2. Unlinks(r, list, i, m)
      BY <2>1, <2>3, <3>1 DEF Granted, Unlinks
    <3> QED BY <1>2, <2>2, <3>2 DEF m
  <2>4. CASE list[i].len # m
    <3>1. list[i].len > m
      BY <1>4, <2>2, <2>4
    <3>2. CutsTop(r, list, i, m)
      BY <2>1, <2>4, <3>1 DEF Granted, CutsTop
    <3> QED BY <1>2, <2>2, <3>2 DEF m
  <2> QED BY <2>3, <2>4
<1> QED BY <1>5, <1>6

\* What is granted comes out of what was free, and the list stays as it should be.
LEMMA RequestFacts ==
  ASSUME NEW list, Tidy(list), NEW n \in Nat, NEW r \in {getmem(list, n), getstk(list, n)}, r.ok
  PROVE  /\ r.got \in Piece /\ r.got.len = roundmb(n) /\ Even(r.got.addr) /\ n # 0
         /\ Words(r.got) \subseteq Span(list)
         /\ Tidy(r.free) /\ Span(r.free) = Span(list) \ Words(r.got)
<1> PICK m : m = roundmb(n)
  OBVIOUS
<1>0. m \in Nat /\ Even(m)
  BY Rounded, MemoryAssumption DEF MB
<1>1. PICK i \in DOMAIN list :
        Unlinks(r, list, i, m) \/ CutsBottom(r, list, i, m) \/ CutsTop(r, list, i, m)
  BY RequestCuts
<1> PICK b, a, l : b = list[i] /\ a = b.addr /\ l = b.len
  OBVIOUS
<1>2. b \in Piece /\ WellCut(b) /\ Words(b) \subseteq Span(list) /\ n # 0
  BY RequestCuts DEF Tidy, Span
<1>3. a \in Int /\ l \in Int /\ b = block(a, l) /\ Even(a) /\ Even(l) /\ Past(b) = a + l
      /\ \A w : w \in Words(b) <=> w \in Int /\ a <= w /\ w < a + l
  BY <1>2, WordsFacts DEF Piece, block, WellCut, Past
<1> DEFINE G == /\ r.got \in Piece /\ r.got.len = m /\ Even(r.got.addr)
                /\ Words(r.got) \subseteq Span(list)
                /\ Tidy(r.free) /\ Span(r.free) = Span(list) \ Words(r.got)
<1>4. ASSUME Unlinks(r, list, i, m) PROVE G
  <2>1. r.got = b /\ m = l /\ r.free = RemoveAt(list, i)
    BY <1>3, <1>4 DEF Unlinks
  <2>2. Tidy(r.free) /\ Span(r.free) = Span(list) \ Words(b)
    BY <2>1, TidyWithout
  <2> QED BY <1>2, <1>3, <2>1, <2>2
<1>5. ASSUME NEW x \in Piece, NEW y \in Piece, WellCut(x), Even(y.addr), y.len = m,
             r.got = y, r.free = [list EXCEPT ![i] = x], a <= x.addr, Past(x) <= Past(b),
             Words(b) \ Words(x) = Words(y), Words(x) \subseteq Words(b)
      PROVE  G
  <2>1. list[i].addr <= x.addr /\ Past(x) <= Past(list[i])
    BY <1>5
  <2> PICK t : t = r.free
    OBVIOUS
  <2>3. /\ Tidy(list) /\ i \in DOMAIN list /\ x \in Piece /\ WellCut(x)
        /\ Replaces(t, list, i, x) /\ b = list[i]
    BY <1>5 DEF Replaces
  <2>4. Tidy(t) /\ Span(t) = (Span(list) \ Words(list[i])) \union Words(x)
    BY ONLY <2>1, <2>3, TidyShrunk
  <2>2. Tidy(r.free) /\ Span(r.free) = (Span(list) \ Words(b)) \union Words(x)
    BY <2>3, <2>4
  <2> QED BY <1>2, <1>5, <2>2
<1>6. ASSUME CutsBottom(r, list, i, m) PROVE G
  <2> PICK x, y : x = block(a + m, l - m) /\ y = block(a, m)
    OBVIOUS
  <2>1. /\ l > m /\ r.got = y /\ r.free = [list EXCEPT ![i] = x]
        /\ x.addr = a + m /\ x.len = l - m /\ y.addr = a /\ y.len = m
    BY <1>6 DEF CutsBottom, block
  <2>2. x \in Piece /\ y \in Piece
    BY <1>0, <1>3 DEF block, Piece
  <2>3. Even(a + m) /\ Even(l - m)
    BY <1>0, <1>3 DEF Even, MB
  <2>8. a \in Int /\ l \in Int /\ m \in Int /\ m >= 0
    BY <1>0, <1>3
  <2>9. /\ x.addr = a + m /\ x.len = l - m /\ l > m /\ Past(x) = x.addr + x.len
        /\ y.addr = a /\ y.len = m /\ Past(y) = y.addr + y.len /\ Past(b) = a + l
    BY <1>3, <2>1 DEF Past
  <2>4. WellCut(x) /\ a <= x.addr /\ Past(x) <= Past(b)
    <3>1. x.len > 0 /\ a <= x.addr /\ Past(x) <= Past(b)
      BY ONLY <2>8, <2>9
    <3>2. Even(x.addr) /\ Even(x.len)
      BY ONLY <2>3, <2>9
    <3> QED BY ONLY <3>1, <3>2 DEF WellCut
  <2>6. /\ \A w : w \in Words(x) <=> w \in Int /\ a + m <= w /\ w < a + l
        /\ \A w : w \in Words(y) <=> w \in Int /\ a <= w /\ w < a + m
    <3>1. \A w : w \in Words(x) <=> w \in Int /\ x.addr <= w /\ w < Past(x)
      BY ONLY <2>2, WordsFacts
    <3>2. \A w : w \in Words(y) <=> w \in Int /\ y.addr <= w /\ w < Past(y)
      BY ONLY <2>2, WordsFacts
    <3>3. x.addr = a + m /\ Past(x) = a + l /\ y.addr = a /\ Past(y) = a + m
      BY ONLY <2>8, <2>9
    <3> QED BY ONLY <3>1, <3>2, <3>3
  <2>5. Words(b) \ Words(x) = Words(y) /\ Words(x) \subseteq Words(b)
    <3>1. a \in Int /\ l \in Int /\ m \in Int /\ m >= 0 /\ m < l
      BY ONLY <2>8, <2>9
    <3>2. \A w : w \in Words(b) <=> w \in Int /\ a <= w /\ w < a + l
      BY <1>3
    <3>3. \A w : w \in Words(x) <=> w \in Words(b) /\ w \notin Words(y)
      BY ONLY <2>6, <3>1, <3>2
    <3>4. \A w : w \in Words(y) => w \in Words(b)
      BY ONLY <2>6, <3>1, <3>2
    <3> QED BY ONLY <3>3, <3>4
  <2>7. Even(y.addr) /\ y.len = m
    BY <1>3, <2>1
  <2> QED BY ONLY <1>5, <2>1, <2>2, <2>4, <2>5, <2>7
<1>7. ASSUME CutsTop(r, list, i, m) PROVE G
  <2> PICK x, y : x = block(a, l - m) /\ y = block(a + l - m, m)
    OBVIOUS
  <2>1. /\ l > m /\ r.got = y /\ r.free = [list EXCEPT ![i] = x]
        /\ x.addr = a /\ x.len = l - m /\ y.addr = a + (l - m) /\ y.len = m
    BY <1>0, <1>3, <1>7 DEF CutsTop, block
  <2>2. x \in Piece /\ y \in Piece
    BY <1>0, <1>3 DEF block, Piece
  <2>3. l - m \in Int /\ Even(l - m)
    BY <1>0, <1>3 DEF Even, MB
  <2>4. Even(a + (l - m))
    BY <1>3, <2>3 DEF Even, MB
  <2>9. a \in Int /\ l \in Int /\ m \in Int /\ m >= 0 /\ Even(a)
    BY <1>0, <1>3
  <2>10. /\ x.addr = a /\ x.len = l - m /\ l > m /\ Past(x) = x.addr + x.len
         /\ y.addr = a + (l - m) /\ y.len = m /\ Past(y) = y.addr + y.len /\ Past(b) = a + l
    BY <1>3, <2>1 DEF Past
  <2>5. WellCut(x) /\ a <= x.addr /\ Past(x) <= Past(b)
    <3>1. x.len > 0 /\ a <= x.addr /\ Past(x) <= Past(b)
      BY ONLY <2>9, <2>10
    <3>2. Even(x.addr) /\ Even(x.len)
      BY ONLY <2>3, <2>9, <2>10
    <3> QED BY ONLY <3>1, <3>2 DEF WellCut
  <2>7. /\ \A w : w \in Words(x) <=> w \in Int /\ a <= w /\ w < a + (l - m)
        /\ \A w : w \in Words(y) <=> w \in Int /\ a + (l - m) <= w /\ w < a + l
    <3>1. \A w : w \in Words(x) <=> w \in Int /\ x.addr <= w /\ w < Past(x)
      BY ONLY <2>2, WordsFacts
    <3>2. \A w : w \in Words(y) <=> w \in Int /\ y.addr <= w /\ w < Past(y)
      BY ONLY <2>2, WordsFacts
    <3>3. x.addr = a /\ Past(x) = a + (l - m) /\ y.addr = a + (l - m) /\ Past(y) = a + l
      BY ONLY <2>9, <2>10
    <3> QED BY ONLY <3>1, <3>2, <3>3
  <2>6. Words(b) \ Words(x) = Words(y) /\ Words(x) \subseteq Words(b)
    <3>1. a \in Int /\ l \in Int /\ m \in Int /\ m >= 0 /\ m < l
      BY ONLY <2>9, <2>10
    <3>2. \A w : w \in Words(b) <=> w \in Int /\ a <= w /\ w < a + l
      BY <1>3
    <3>3. \A w : w \in Words(x) <=> w \in Words(b) /\ w \notin Words(y)
      BY ONLY <2>7, <3>1, <3>2
    <3>4. \A w : w \in Words(y) => w \in Words(b)
      BY ONLY <2>7, <3>1, <3>2
    <3> QED BY ONLY <3>3, <3>4
  <2>8. Even(y.addr) /\ y.len = m
    BY <2>1, <2>4
  <2> QED BY ONLY <1>5, <2>1, <2>2, <2>5, <2>6, <2>8
<1> QED BY <1>1, <1>4, <1>6, <1>7, <1>2

\* A request that is refused changes nothing.
LEMMA RequestRefused ==
  ASSUME NEW list, NEW n, NEW r \in {getmem(list, n), getstk(list, n)}, ~r.ok
  PROVE  r.free = list /\ r.got = block(0, 0)
BY DEF getmem, getstk, Refused, Granted

----------------------------------------------------------------------------
\* Of any list of blocks the operators make another, and return a piece.

\* A rounded request is a number, also when it wraps.
LEMMA RoundedIsInt == ASSUME NEW n \in Int PROVE roundmb(n) \in Int
<1>1. W \in Nat /\ W > 0
  BY MemoryAssumption
<1>2. (n + MB - 1) % W \in Int
  BY <1>1 DEF MB
<1> QED BY <1>2 DEF roundmb, truncmb, MB

\* A block that fits is found, the first one or the last one.
LEMMA FitsSomewhere ==
  ASSUME NEW list \in Seq(Piece), NEW n \in Int, Fitting(list, n) # {}
  PROVE  Min(Fitting(list, n)) \in DOMAIN list /\ Max(Fitting(list, n)) \in DOMAIN list
<1>1. Len(list) \in Nat /\ DOMAIN list = 1 .. Len(list) /\ Fitting(list, n) \subseteq 1 .. Len(list)
  BY DEF Fitting
<1> QED BY <1>1, LeastAndGreatest

\* A list from which a block is unlinked is a list of blocks.
LEMMA WithoutBlock ==
  ASSUME NEW list \in Seq(Piece), NEW x \in DOMAIN list
  PROVE  RemoveAt(list, x) \in Seq(Piece)
<1>1. x \in Int /\ Len(list) \in Nat /\ 1 <= x /\ x <= Len(list)
  OBVIOUS
<1>2. SubSeq(list, 1, x - 1) \in Seq(Piece) /\ SubSeq(list, x + 1, Len(list)) \in Seq(Piece)
  BY <1>1
<1> QED BY <1>2 DEF RemoveAt

\* getmem and getstk leave a list of blocks and return a piece, granted or refused.
LEMMA RequestReturnsPieces ==
  ASSUME NEW list \in Seq(Piece), NEW n \in Int, NEW r \in {getmem(list, n), getstk(list, n)}
  PROVE  r.free \in Seq(Piece) /\ r.got \in Piece
<1> DEFINE m == roundmb(n)
<1> DEFINE lo == Min(Fitting(list, m))
<1> DEFINE hi == Max(Fitting(list, m))
<1>0. m \in Int
  BY RoundedIsInt
<1> HIDE DEF m
<1>1. CASE n = 0 \/ Fitting(list, m) = {}
  <2>1. r = Refused(list)
    BY <1>1 DEF getmem, getstk, m
  <2> QED BY <2>1 DEF Refused, block, Piece
<1>2. CASE ~(n = 0 \/ Fitting(list, m) = {})
  <2>1. lo \in DOMAIN list /\ hi \in DOMAIN list
    BY <1>0, <1>2, FitsSomewhere
  <2> HIDE DEF lo, hi
  <2>2. list[lo] \in Piece /\ list[hi] \in Piece
    BY <2>1
  <2>3. CASE r = getmem(list, n)
    <3>1. /\ r.got = block(list[lo].addr, m)
          /\ \/ r.free = RemoveAt(list, lo)
             \/ r.free = [list EXCEPT ![lo] = block(list[lo].addr + m, list[lo].len - m)]
      BY <1>2, <2>3 DEF getmem, Granted, lo, m
    <3> DEFINE cut == block(list[lo].addr + m, list[lo].len - m)
    <3>2. cut \in Piece /\ r.got \in Piece
      <4> PICK x, z : x = list[lo].addr /\ z = list[lo].len
        OBVIOUS
      <4>1. x \in Int /\ z \in Int /\ m \in Int
        BY <1>0, <2>2 DEF Piece
      <4>2. cut = block(x + m, z - m) /\ r.got = block(x, m)
        BY <3>1
      <4>3. block(x + m, z - m) \in Piece /\ block(x, m) \in Piece
        BY ONLY <4>1 DEF block, Piece
      <4> QED BY <4>2, <4>3
    <3> HIDE DEF cut
    <3>3. RemoveAt(list, lo) \in Seq(Piece) /\ [list EXCEPT ![lo] = cut] \in Seq(Piece)
      BY <2>1, <3>2, WithoutBlock
    <3> QED BY <3>1, <3>2, <3>3 DEF cut
  <2>4. CASE r = getstk(list, n)
    <3>1. /\ r.got = block(list[hi].addr + list[hi].len - m, m)
          /\ \/ r.free = RemoveAt(list, hi)
             \/ r.free = [list EXCEPT ![hi] = block(list[hi].addr, list[hi].len - m)]
      BY <1>2, <2>4 DEF getstk, Granted, hi, m
    <3> DEFINE cut == block(list[hi].addr, list[hi].len - m)
    <3>2. cut \in Piece /\ r.got \in Piece
      <4> PICK x, z : x = list[hi].addr /\ z = list[hi].len
        OBVIOUS
      <4>1. x \in Int /\ z \in Int /\ m \in Int
        BY <1>0, <2>2 DEF Piece
      <4>2. cut = block(x, z - m) /\ r.got = block(x + z - m, m)
        BY <3>1
      <4>3. block(x, z - m) \in Piece /\ block(x + z - m, m) \in Piece
        BY ONLY <4>1 DEF block, Piece
      <4> QED BY <4>2, <4>3
    <3> HIDE DEF cut
    <3>3. RemoveAt(list, hi) \in Seq(Piece) /\ [list EXCEPT ![hi] = cut] \in Seq(Piece)
      BY <2>1, <3>2, WithoutBlock
    <3> QED BY <3>1, <3>2, <3>3 DEF cut
  <2> QED BY <2>3, <2>4
<1> QED BY <1>1, <1>2

\* freemem leaves a list of blocks, whatever it joins.
LEMMA FreememReturnsPieces ==
  ASSUME NEW list \in Seq(Piece), NEW e, NEW b \in Piece
  PROVE  freemem(list, e, b).free \in Seq(Piece)
<1> DEFINE S == {k \in DOMAIN list : list[k].addr < b.addr}
<1> DEFINE x == Cardinality(S)
<1> DEFINE c == block(b.addr, roundmb(b.len))
<1>1. Len(list) \in Nat /\ DOMAIN list = 1 .. Len(list) /\ c \in Piece
  BY RoundedIsInt DEF block, Piece
<1>2. x \in Nat /\ x <= Len(list)
  <2>1. IsFiniteSet(1 .. Len(list)) /\ Cardinality(1 .. Len(list)) = Len(list)
    <3> DEFINE n == Len(list)
    <3>1. n \in Nat
      BY <1>1
    <3> HIDE DEF n
    <3> QED BY SMTT(40), <3>1, FS_Interval DEF n
  <2>2. S \in SUBSET (1 .. Len(list))
    BY <1>1
  <2> QED BY <2>1, <2>2, FS_Subset, FS_CardinalityType
<1>3. Joined(list, x, c) \in Seq(Piece)
  <2> HIDE DEF x, c
  <2> DEFINE below == x > 0 /\ list[x].addr + list[x].len = c.addr
  <2> DEFINE above == x < Len(list) /\ c.addr + c.len = list[x + 1].addr
  <2> DEFINE lo == IF below THEN list[x] ELSE c
  <2> DEFINE size == c.len + (IF below THEN list[x].len ELSE 0)
                           + (IF above THEN list[x + 1].len ELSE 0)
  <2> DEFINE left == SubSeq(list, 1, IF below THEN x - 1 ELSE x)
  <2> DEFINE right == SubSeq(list, IF above THEN x + 2 ELSE x + 1, Len(list))
  <2>1. below => list[x] \in Piece
    BY <1>1, <1>2
  <2>2. above => list[x + 1] \in Piece
    BY <1>1, <1>2
  <2>3. block(lo.addr, size) \in Piece
    <3>1. lo \in Piece
      BY <1>1, <2>1
    <3>2. /\ (IF below THEN list[x].len ELSE 0) \in Int
          /\ (IF above THEN list[x + 1].len ELSE 0) \in Int /\ c.len \in Int
      BY <1>1, <2>1, <2>2 DEF Piece
    <3>3. size \in Int
      BY <3>2
    <3> HIDE DEF lo, size
    <3>4. lo.addr \in Int
      BY <3>1 DEF Piece
    <3> QED BY <3>3, <3>4 DEF block, Piece
  <2>4. left \in Seq(Piece)
    BY <1>1, <1>2
  <2>5. right \in Seq(Piece)
    BY <1>1, <1>2
  <2>6. Joined(list, x, c) = left \o <<block(lo.addr, size)>> \o right
    BY DEF Joined
  <2> HIDE DEF left, right, lo, size
  <2> QED BY <2>3, <2>4, <2>5, <2>6
<1>4. freemem(list, e, b).free \in {list, Joined(list, x, c)}
  BY DEF freemem, Refused, Granted
<1> QED BY <1>3, <1>4

----------------------------------------------------------------------------
\* Memory that is given back.

\* The list t is list with x in the place of the blocks between a and c.
Splices(t, list, a, x, c) == t = SubSeq(list, 1, a) \o <<x>> \o SubSeq(list, c, Len(list))

\* What is where in such a list.
LEMMA SplicedPlaces ==
  ASSUME NEW list \in Seq(Piece), NEW a \in 0 .. Len(list), NEW c \in a + 1 .. Len(list) + 1,
         NEW x \in Piece, NEW t, Splices(t, list, a, x, c)
  PROVE  /\ t \in Seq(Piece) /\ Len(t) = a + 2 + Len(list) - c
         /\ \A k \in 1 .. a : t[k] = list[k]
         /\ t[a + 1] = x
         /\ \A k \in a + 2 .. Len(t) : t[k] = list[k + c - a - 2]
<1> PICK n : n = Len(list)
  OBVIOUS
<1>0. n \in Nat /\ a \in 0 .. n /\ c \in a + 1 .. n + 1
  OBVIOUS
<1> PICK l, r : l = SubSeq(list, 1, a) /\ r = SubSeq(list, c, n)
  OBVIOUS
<1>1. /\ l \in Seq(Piece) /\ Len(l) = a /\ \A k \in 1 .. a : l[k] = list[k]
      /\ r \in Seq(Piece) /\ Len(r) = n - c + 1 /\ \A k \in 1 .. n - c + 1 : r[k] = list[c + k - 1]
  BY <1>0
<1> PICK u : u = l \o <<x>>
  OBVIOUS
<1>2. u \in Seq(Piece) /\ Len(u) = a + 1 /\ u[a + 1] = x /\ \A k \in 1 .. a : u[k] = l[k]
  BY <1>0, <1>1
<1>3. t = u \o r
  BY DEF Splices
<1>4. /\ t \in Seq(Piece) /\ Len(t) = a + 1 + (n - c + 1)
      /\ \A k \in 1 .. a + 1 : t[k] = u[k]
      /\ \A k \in a + 2 .. Len(t) : t[k] = r[k - (a + 1)]
  <2>1. /\ t \in Seq(Piece) /\ Len(t) = Len(u) + Len(r)
        /\ \A k \in 1 .. Len(u) + Len(r) : t[k] = IF k <= Len(u) THEN u[k] ELSE r[k - Len(u)]
    <3>1. u \in Seq(Piece) /\ r \in Seq(Piece)
      BY <1>1, <1>2
    <3> QED BY ONLY <1>3, <3>1
  <2>2. Len(t) = a + 1 + (n - c + 1)
    BY <1>1, <1>2, <2>1
  <2>3. \A k \in 1 .. a + 1 : k \in 1 .. Len(u) + Len(r) /\ k <= Len(u)
    BY <1>0, <1>1, <1>2
  <2>4. \A k \in a + 2 .. Len(t) : k \in 1 .. Len(u) + Len(r) /\ ~(k <= Len(u)) /\ Len(u) = a + 1
    BY <1>0, <1>1, <1>2, <2>1
  <2>5. \A k \in a + 2 .. Len(t) : t[k] = r[k - Len(u)] /\ Len(u) = a + 1
    BY <2>1, <2>4
  <2> QED BY <2>1, <2>2, <2>3, <2>5
<1>5. Len(t) = a + 2 + n - c
  BY <1>0, <1>4
<1>6. \A k \in 1 .. a : t[k] = list[k]
  BY <1>0, <1>1, <1>2, <1>4
<1>7. t[a + 1] = x
  BY <1>0, <1>2, <1>4
<1>8. ASSUME NEW k \in a + 2 .. Len(t) PROVE t[k] = list[k + c - a - 2]
  <2>1. k - (a + 1) \in 1 .. n - c + 1 /\ c + (k - (a + 1)) - 1 = k + c - a - 2
    BY <1>0, <1>5
  <2>2. t[k] = r[k - (a + 1)] /\ r[k - (a + 1)] = list[c + (k - (a + 1)) - 1]
    BY <1>1, <1>4, <2>1
  <2> QED BY <2>1, <2>2
<1> QED BY <1>4, <1>5, <1>6, <1>7, <1>8

\* The blocks that stay, by their place in either list.
LEMMA SplicedTidy ==
  ASSUME NEW list, Tidy(list), NEW a \in 0 .. Len(list), NEW c \in a + 1 .. Len(list) + 1,
         NEW x \in Piece, WellCut(x), NEW t, Splices(t, list, a, x, c),
         \A k \in 1 .. a : Past(list[k]) < x.addr,
         \A k \in c .. Len(list) : Past(x) < list[k].addr
  PROVE  /\ Tidy(t)
         /\ Span(t) = Words(x) \union WordsOf(list, 1 .. a) \union WordsOf(list, c .. Len(list))
<1> PICK n : n = Len(list)
  OBVIOUS
<1>0. /\ list \in Seq(Piece) /\ n \in Nat /\ DOMAIN list = 1 .. n
      /\ a \in 0 .. n /\ c \in a + 1 .. n + 1
  BY DEF Tidy
<1> DEFINE f(k) == IF k <= a THEN k ELSE k + c - a - 2
<1>1. /\ t \in Seq(Piece) /\ Len(t) = a + 2 + n - c
      /\ \A k \in 1 .. a : t[k] = list[k]
      /\ t[a + 1] = x
      /\ \A k \in a + 2 .. Len(t) : t[k] = list[k + c - a - 2]
  BY <1>0, SplicedPlaces
<1>2. DOMAIN t = 1 .. Len(t) /\ Len(t) \in Nat
  BY <1>1
<1>3. \A k \in 1 .. Len(t) : k # a + 1 => t[k] = list[f(k)] /\ f(k) \in 1 .. a \union c .. n
  <2> TAKE k \in 1 .. Len(t)
  <2> HAVE k # a + 1
  <2>1. CASE k <= a
    BY <1>0, <1>1, <2>1
  <2>2. CASE k > a
    <3>1. k \in a + 2 .. Len(t) /\ ~(k <= a) /\ k + c - a - 2 \in c .. n
      BY SMTT(40), <1>0, <1>1, <2>2
    <3> QED BY <1>1, <3>1
  <2> QED BY <1>0, <1>1, <2>1, <2>2
<1>4. \A j, k \in 1 .. Len(t) : j < k /\ j # a + 1 /\ k # a + 1 => f(j) < f(k)
  BY SMTT(40), <1>0, <1>1
<1>5. \A j \in 1 .. a \union c .. n : \E k \in 1 .. Len(t) : k # a + 1 /\ f(k) = j
  <2> TAKE j \in 1 .. a \union c .. n
  <2>1. CASE j \in 1 .. a
    <3>1. j \in 1 .. Len(t) /\ j # a + 1 /\ f(j) = j
      BY <1>0, <1>1, <2>1
    <3> QED BY <3>1
  <2>2. CASE j \in c .. n
    <3>1. /\ j - c + a + 2 \in 1 .. Len(t) /\ j - c + a + 2 # a + 1
          /\ ~(j - c + a + 2 <= a) /\ (j - c + a + 2) + c - a - 2 = j
      BY <1>0, <1>1, <2>2
    <3> QED BY <3>1
  <2> QED BY <2>1, <2>2
<1>6. /\ \A j \in 1 .. Len(t) : j < a + 1 => j # a + 1 /\ f(j) \in 1 .. a
      /\ \A j \in 1 .. Len(t) : j > a + 1 => j # a + 1 /\ f(j) \in c .. n
  <2>0. a \in Int /\ c \in Int /\ n \in Int /\ Len(t) = a + 2 + n - c
    BY <1>0, <1>1
  <2>1. \A j \in 1 .. Len(t) : j < a + 1 => j # a + 1 /\ f(j) = j /\ j \in 1 .. a
    BY <2>0
  <2>2. \A j \in 1 .. Len(t) : j > a + 1 => j # a + 1 /\ f(j) = j + c - a - 2 /\ j + c - a - 2 \in c .. n
    BY <2>0
  <2> QED BY <2>1, <2>2
<1> HIDE DEF f
<1>7. \A k \in DOMAIN t : WellCut(t[k])
  <2> SUFFICES ASSUME NEW k \in 1 .. Len(t) PROVE WellCut(t[k])
    BY <1>2
  <2>1. CASE k = a + 1
    BY <1>1, <2>1
  <2>2. CASE k # a + 1
    <3>1. f(k) \in DOMAIN list /\ t[k] = list[f(k)]
      BY <1>0, <1>3, <2>2
    <3> QED BY <3>1 DEF Tidy
  <2> QED BY <2>1, <2>2
<1>8. InOrder(t)
  <2> SUFFICES ASSUME NEW j \in 1 .. Len(t), NEW k \in 1 .. Len(t), j < k
               PROVE  Past(t[j]) < t[k].addr
    BY <1>2 DEF InOrder
  <2>1. CASE j = a + 1
    <3>1. k > a + 1
      BY <1>0, <2>1
    <3>2. f(k) \in c .. n /\ t[k] = list[f(k)]
      BY <1>3, <1>6, <3>1
    <3> QED BY <1>1, <2>1, <3>2
  <2>2. CASE k = a + 1
    <3>1. j < a + 1
      BY <1>0, <2>2
    <3>2. f(j) \in 1 .. a /\ t[j] = list[f(j)]
      BY <1>3, <1>6, <3>1
    <3> QED BY <1>1, <2>2, <3>2
  <2>3. CASE j # a + 1 /\ k # a + 1
    <3>1. f(j) < f(k) /\ f(j) \in DOMAIN list /\ f(k) \in DOMAIN list
          /\ t[j] = list[f(j)] /\ t[k] = list[f(k)]
      BY <1>0, <1>3, <1>4, <2>3
    <3> QED BY <3>1 DEF Tidy, InOrder
  <2> QED BY <2>1, <2>2, <2>3
<1>9. ASSUME NEW w
      PROVE  w \in Span(t) <=> w \in Words(x) \union WordsOf(list, 1 .. a) \union WordsOf(list, c .. n)
  <2>1. ASSUME w \in Span(t)
        PROVE  w \in Words(x) \union WordsOf(list, 1 .. a) \union WordsOf(list, c .. n)
    <3>1. PICK k \in 1 .. Len(t) : w \in Words(t[k])
      BY <1>2, <2>1 DEF Span
    <3>2. CASE k = a + 1
      BY <1>1, <3>1, <3>2
    <3>3. CASE k # a + 1
      BY <1>3, <3>1, <3>3 DEF WordsOf
    <3> QED BY <3>2, <3>3
  <2>2. ASSUME w \in Words(x) PROVE w \in Span(t)
    <3>1. a + 1 \in DOMAIN t
      BY <1>0, <1>1, <1>2
    <3> QED BY <1>1, <2>2, <3>1 DEF Span
  <2>3. ASSUME w \in WordsOf(list, 1 .. a) \union WordsOf(list, c .. n) PROVE w \in Span(t)
    <3>1. PICK j \in 1 .. a \union c .. n : w \in Words(list[j])
      BY <2>3 DEF WordsOf
    <3>2. PICK k \in 1 .. Len(t) : k # a + 1 /\ f(k) = j
      BY <1>5
    <3> QED BY <1>2, <1>3, <3>1, <3>2 DEF Span
  <2> QED BY <2>1, <2>2, <2>3
<1> QED BY <1>1, <1>7, <1>8, <1>9 DEF Tidy

\* A set of numbers that has with each the smaller ones.
LEMMA CountedFromOne ==
  ASSUME NEW n \in Nat, NEW S, S \subseteq 1 .. n,
         \A k \in S : \A j \in 1 .. n : j < k => j \in S
  PROVE  Cardinality(S) \in 0 .. n /\ S = 1 .. Cardinality(S)
<1>1. CASE S = {}
  BY <1>1, FS_EmptySet
<1>2. CASE S # {}
  <2>1. Max(S) \in S /\ \A y \in S : y <= Max(S)
    BY <1>2, LeastAndGreatest
  <2> PICK m : m = Max(S)
    OBVIOUS
  <2>2. m \in 1 .. n /\ S = 1 .. m
    <3>1. m \in S /\ m \in 1 .. n /\ \A y \in S : y <= m
      BY <2>1
    <3>2. \A v \in S : v \in 1 .. m
      BY <3>1
    <3>3. \A v \in 1 .. m : v \in S
      BY <3>1
    <3> QED BY <3>1, <3>2, <3>3
  <2>3. Cardinality(1 .. m) = m
    BY <2>2, FS_Interval
  <2> QED BY <2>2, <2>3
<1> QED BY <1>1, <1>2

\* A block y begins where x does, with the list up to i before it, or where block i does, which
\* x touches; and it ends where x does or where the next block does.
Begins(y, list, i, x, a) ==
  \/ a = i /\ y.addr = x.addr /\ (i > 0 => Past(list[i]) # x.addr)
  \/ a = i - 1 /\ i > 0 /\ y.addr = list[i].addr /\ Past(list[i]) = x.addr

Finishes(y, list, i, x, c) ==
  \/ c = i + 1 /\ Past(y) = Past(x) /\ (i < Len(list) => Past(x) # list[i + 1].addr)
  \/ c = i + 2 /\ i < Len(list) /\ Past(y) = Past(list[i + 1]) /\ Past(x) = list[i + 1].addr

\* The blocks that x touches and x become one.
LEMMA JoinedCases ==
  ASSUME NEW list \in Seq(Piece), NEW x \in Piece, NEW i \in 0 .. Len(list)
  PROVE  \E y \in Piece : \E a, c \in Int :
           /\ Splices(Joined(list, i, x), list, a, y, c)
           /\ Begins(y, list, i, x, a) /\ Finishes(y, list, i, x, c)
<1> PICK n : n = Len(list)
  OBVIOUS
<1>0. n \in Nat /\ i \in 0 .. n /\ i \in Int /\ \A k \in 1 .. n : list[k] \in Piece
  OBVIOUS
<1>1. x.addr \in Int /\ x.len \in Int /\ Past(x) = x.addr + x.len
  BY PieceFacts
<1>2. \A k \in 1 .. n : /\ list[k].addr \in Int /\ list[k].len \in Int
                        /\ Past(list[k]) = list[k].addr + list[k].len
  BY <1>0, PieceFacts
<1> DEFINE below == i > 0 /\ list[i].addr + list[i].len = x.addr
<1> DEFINE above == i < n /\ x.addr + x.len = list[i + 1].addr
<1> DEFINE Done(y, a, c) == /\ Splices(Joined(list, i, x), list, a, y, c)
                            /\ Begins(y, list, i, x, a) /\ Finishes(y, list, i, x, c)
<1>3. i > 0 => i \in 1 .. n
  BY <1>0
<1>4. i < n => i + 1 \in 1 .. n
  BY <1>0
<1>5. CASE below /\ above
  <2> PICK y : y = block(list[i].addr, x.len + list[i].len + list[i + 1].len)
    OBVIOUS
  <2>1. Splices(Joined(list, i, x), list, i - 1, y, i + 2)
    BY <1>5 DEF Joined, Splices
  <2>2. /\ y \in Piece /\ y.addr = list[i].addr /\ y.len = x.len + list[i].len + list[i + 1].len
        /\ Past(y) = y.addr + y.len
    <3>2. i \in 1 .. n /\ i + 1 \in 1 .. n
      BY <1>3, <1>4, <1>5
    <3>3. /\ list[i].addr \in Int /\ list[i].len \in Int
          /\ list[i + 1].len \in Int /\ x.len \in Int
      BY ONLY <1>1, <1>2, <3>2
    <3>1. /\ x.len + list[i].len + list[i + 1].len \in Int /\ list[i].addr \in Int
      BY ONLY <3>3
    <3> QED BY ONLY <3>1, y = block(list[i].addr, x.len + list[i].len + list[i + 1].len)
            DEF block, Piece, Past
  <2>3. Begins(y, list, i, x, i - 1)
    BY <1>2, <1>3, <1>5, <2>2 DEF Begins
  <2>4. Past(y) = Past(list[i + 1])
    <3> PICK p, q : p = list[i] /\ q = list[i + 1]
      OBVIOUS
    <3>1. /\ p.addr \in Int /\ p.len \in Int /\ q.addr \in Int /\ q.len \in Int
          /\ Past(q) = q.addr + q.len
      BY <1>2, <1>3, <1>4, <1>5
    <3>2. p.addr + p.len = x.addr /\ x.addr + x.len = q.addr
      BY <1>5
    <3>3. Past(y) = p.addr + (x.len + p.len + q.len)
      BY <2>2
    <3>4. Past(y) = Past(q)
      BY ONLY <1>1, <3>1, <3>2, <3>3
    <3> QED BY <3>4
  <2>5. Finishes(y, list, i, x, i + 2)
    BY <1>1, <1>5, <2>4 DEF Finishes
  <2> QED BY <1>0, <2>1, <2>2, <2>3, <2>5
<1>6. CASE below /\ ~above
  <2> PICK y : y = block(list[i].addr, x.len + list[i].len)
    OBVIOUS
  <2>1. Splices(Joined(list, i, x), list, i - 1, y, i + 1)
    <3>1. x.len + list[i].len + 0 = x.len + list[i].len
      BY <1>1, <1>2, <1>3, <1>6
    <3> QED BY <1>6, <3>1 DEF Joined, Splices
  <2>2. /\ y \in Piece /\ y.addr = list[i].addr /\ y.len = x.len + list[i].len
        /\ Past(y) = y.addr + y.len
    BY <1>1, <1>2, <1>3, <1>6 DEF block, Piece, Past
  <2>3. Begins(y, list, i, x, i - 1)
    BY <1>2, <1>3, <1>6, <2>2 DEF Begins
  <2>4. Past(y) = Past(x)
    BY <1>1, <1>2, <1>3, <1>6, <2>2
  <2>5. Finishes(y, list, i, x, i + 1)
    BY <1>1, <1>6, <2>4 DEF Finishes
  <2> QED BY <1>0, <2>1, <2>2, <2>3, <2>5
<1>7. CASE ~below /\ above
  <2> PICK y : y = block(x.addr, x.len + list[i + 1].len)
    OBVIOUS
  <2>1. Splices(Joined(list, i, x), list, i, y, i + 2)
    <3>1. x.len + 0 + list[i + 1].len = x.len + list[i + 1].len
      BY <1>1, <1>2, <1>4, <1>7
    <3> QED BY <1>7, <3>1 DEF Joined, Splices
  <2>2. /\ y \in Piece /\ y.addr = x.addr /\ y.len = x.len + list[i + 1].len
        /\ Past(y) = y.addr + y.len
    BY SMTT(40), <1>1, <1>2, <1>4, <1>7 DEF block, Piece, Past
  <2>3. Begins(y, list, i, x, i)
    BY <1>2, <1>3, <1>7, <2>2 DEF Begins
  <2>4. Past(y) = Past(list[i + 1])
    BY <1>1, <1>2, <1>4, <1>7, <2>2
  <2>5. Finishes(y, list, i, x, i + 2)
    BY <1>1, <1>7, <2>4 DEF Finishes
  <2> QED BY <1>0, <2>1, <2>2, <2>3, <2>5
<1>8. CASE ~below /\ ~above
  <2> PICK y : y = block(x.addr, x.len)
    OBVIOUS
  <2>1. Splices(Joined(list, i, x), list, i, y, i + 1)
    <3>1. x.len + 0 + 0 = x.len
      BY <1>1
    <3> QED BY <1>8, <3>1 DEF Joined, Splices
  <2>2. y \in Piece /\ y.addr = x.addr /\ y.len = x.len /\ Past(y) = Past(x)
    BY <1>1 DEF block, Piece, Past
  <2>3. Begins(y, list, i, x, i)
    BY <1>2, <1>3, <1>8, <2>2 DEF Begins
  <2>5. Finishes(y, list, i, x, i + 1)
    BY <1>1, <1>8, <2>2 DEF Finishes
  <2> QED BY <1>0, <2>1, <2>2, <2>3, <2>5
<1> QED BY <1>5, <1>6, <1>7, <1>8

\* What that block has, and where the others are.
LEMMA BeginsFacts ==
  ASSUME NEW list, Tidy(list), NEW x \in Piece, WellCut(x), NEW i \in 0 .. Len(list),
         \A k \in 1 .. i : Past(list[k]) <= x.addr,
         NEW y \in Piece, NEW a, Begins(y, list, i, x, a)
  PROVE  /\ a \in 0 .. i /\ Even(y.addr) /\ y.addr <= x.addr
         /\ \A k \in 1 .. a : Past(list[k]) < y.addr
         /\ \A w : w \in WordsOf(list, a + 1 .. i) <=> w \in Int /\ y.addr <= w /\ w < x.addr
<1> PICK n : n = Len(list)
  OBVIOUS
<1>0. n \in Nat /\ i \in 0 .. n /\ DOMAIN list = 1 .. n /\ \A k \in 1 .. n : list[k] \in Piece
  BY DEF Tidy
<1>1. x.addr \in Int /\ Even(x.addr)
  BY PieceFacts DEF WellCut
<1>2. \A k \in 1 .. n : /\ list[k].addr \in Int /\ Past(list[k]) \in Int
                        /\ list[k].addr < Past(list[k]) /\ Even(list[k].addr)
  <2>1. \A k \in 1 .. n : list[k] \in Piece /\ WellCut(list[k])
    BY <1>0 DEF Tidy
  <2> QED BY <2>1, CutFacts
<1>3. CASE a = i /\ y.addr = x.addr /\ (i > 0 => Past(list[i]) # x.addr)
  <2>1. a \in 0 .. i /\ Even(y.addr) /\ y.addr <= x.addr
    BY <1>0, <1>1, <1>3
  <2>2. ASSUME NEW k \in 1 .. a PROVE Past(list[k]) < y.addr
    <3>1. k \in 1 .. n /\ i \in 1 .. n /\ (k = i \/ k < i) /\ i > 0
      BY <1>0, <1>3
    <3>2. CASE k = i
      BY <1>1, <1>2, <1>3, <3>1, <3>2
    <3>3. CASE k < i
      <4>1. Past(list[k]) < list[i].addr
        BY <1>0, <3>1, <3>3 DEF Tidy, InOrder
      <4>2. list[i].addr < Past(list[i]) /\ Past(list[i]) <= x.addr
        BY <1>2, <1>3, <3>1
      <4> QED BY <1>1, <1>2, <1>3, <3>1, <4>1, <4>2
    <3> QED BY <3>1, <3>2, <3>3
  <2>3. a + 1 .. i = {}
    BY <1>0, <1>3
  <2>4. WordsOf(list, a + 1 .. i) = {}
    BY <2>3 DEF WordsOf
  <2>5. \A w \in Int : ~(y.addr <= w /\ w < x.addr)
    BY <1>1, <1>3
  <2> QED BY <2>1, <2>2, <2>4, <2>5
<1>4. CASE a = i - 1 /\ i > 0 /\ y.addr = list[i].addr /\ Past(list[i]) = x.addr
  <2>0. i \in 1 .. n
    BY <1>0, <1>4
  <2>1. a \in 0 .. i /\ Even(y.addr) /\ y.addr <= x.addr
    BY <1>0, <1>1, <1>2, <1>4, <2>0
  <2>2. ASSUME NEW k \in 1 .. a PROVE Past(list[k]) < y.addr
    <3>1. k \in 1 .. n /\ k < i
      BY <1>0, <1>4
    <3> QED BY <1>0, <1>4, <2>0, <3>1 DEF Tidy, InOrder
  <2>3. a + 1 .. i = {i}
    BY <1>0, <1>4
  <2>4. WordsOf(list, a + 1 .. i) = Words(list[i])
    BY <2>3 DEF WordsOf
  <2>5. \A w : w \in Words(list[i]) <=> w \in Int /\ list[i].addr <= w /\ w < Past(list[i])
    BY <1>0, <2>0, WordsFacts
  <2> QED BY <1>4, <2>1, <2>2, <2>4, <2>5
<1> QED BY <1>3, <1>4 DEF Begins

\* The same at the other end.
LEMMA FinishesFacts ==
  ASSUME NEW list, Tidy(list), NEW x \in Piece, WellCut(x), NEW i \in 0 .. Len(list),
         \A k \in i + 1 .. Len(list) : Past(x) <= list[k].addr,
         NEW y \in Piece, NEW c, Finishes(y, list, i, x, c)
  PROVE  /\ c \in i + 1 .. Len(list) + 1 /\ Even(Past(y)) /\ Past(x) <= Past(y)
         /\ \A k \in c .. Len(list) : Past(y) < list[k].addr
         /\ \A w : w \in WordsOf(list, i + 1 .. c - 1) <=> w \in Int /\ Past(x) <= w /\ w < Past(y)
<1> PICK n, j : n = Len(list) /\ j = i + 1
  OBVIOUS
<1>0. n \in Nat /\ i \in 0 .. n /\ DOMAIN list = 1 .. n /\ \A k \in 1 .. n : list[k] \in Piece
  BY DEF Tidy
<1>1. Past(x) \in Int /\ Even(Past(x))
  BY CutFacts
<1>2. \A k \in 1 .. n : /\ list[k].addr \in Int /\ Past(list[k]) \in Int
                        /\ list[k].addr < Past(list[k]) /\ Even(Past(list[k]))
  <2>1. \A k \in 1 .. n : list[k] \in Piece /\ WellCut(list[k])
    BY <1>0 DEF Tidy
  <2> QED BY <2>1, CutFacts
<1>3. CASE c = i + 1 /\ Past(y) = Past(x) /\ (i < n => Past(x) # list[i + 1].addr)
  <2>1. c \in i + 1 .. n + 1 /\ Even(Past(y)) /\ Past(x) <= Past(y)
    BY <1>0, <1>1, <1>3
  <2>2. ASSUME NEW k \in c .. n PROVE Past(y) < list[k].addr
    <3>1. k \in 1 .. n /\ j \in 1 .. n /\ j \in i + 1 .. n /\ (k = j \/ j < k) /\ i < n
      BY <1>0, <1>3
    <3>2. Past(x) <= list[j].addr /\ Past(x) # list[j].addr
      BY <1>3, <3>1
    <3>3. CASE k = j
      BY <1>1, <1>2, <1>3, <3>1, <3>2, <3>3
    <3>4. CASE j < k
      <4>1. Past(list[j]) < list[k].addr
        BY <1>0, <3>1, <3>4 DEF Tidy, InOrder
      <4>2. list[j].addr < Past(list[j])
        BY <1>2, <3>1
      <4> QED BY <1>1, <1>2, <1>3, <3>1, <3>2, <4>1, <4>2
    <3> QED BY <3>1, <3>3, <3>4
  <2>3. i + 1 .. c - 1 = {}
    BY <1>0, <1>3
  <2>4. WordsOf(list, i + 1 .. c - 1) = {}
    BY <2>3 DEF WordsOf
  <2>5. \A w \in Int : ~(Past(x) <= w /\ w < Past(y))
    BY <1>1, <1>3
  <2> QED BY <2>1, <2>2, <2>4, <2>5
<1>4. CASE c = i + 2 /\ i < n /\ Past(y) = Past(list[j]) /\ Past(x) = list[j].addr
  <2>0. j \in 1 .. n
    BY <1>0, <1>4
  <2>1. c \in i + 1 .. n + 1 /\ Even(Past(y)) /\ Past(x) <= Past(y)
    BY <1>0, <1>1, <1>2, <1>4, <2>0
  <2>2. ASSUME NEW k \in c .. n PROVE Past(y) < list[k].addr
    <3>1. k \in 1 .. n /\ j < k
      BY <1>0, <1>4
    <3> QED BY <1>0, <1>4, <2>0, <3>1 DEF Tidy, InOrder
  <2>3. i + 1 .. c - 1 = {j}
    BY <1>0, <1>4
  <2>4. WordsOf(list, i + 1 .. c - 1) = Words(list[j])
    BY <2>3 DEF WordsOf
  <2>5. \A w : w \in Words(list[j]) <=> w \in Int /\ list[j].addr <= w /\ w < Past(list[j])
    BY <1>0, <2>0, WordsFacts
  <2> QED BY <1>4, <2>1, <2>2, <2>4, <2>5
<1> QED BY <1>3, <1>4 DEF Finishes

\* The block x has its place behind block i, and is joined with the blocks it touches.
LEMMA JoinedFacts ==
  ASSUME NEW list, Tidy(list), NEW x \in Piece, WellCut(x), NEW i \in 0 .. Len(list),
         \A k \in 1 .. i : Past(list[k]) <= x.addr,
         \A k \in i + 1 .. Len(list) : Past(x) <= list[k].addr
  PROVE  Tidy(Joined(list, i, x)) /\ Span(Joined(list, i, x)) = Span(list) \union Words(x)
<1> PICK n, t : n = Len(list) /\ t = Joined(list, i, x)
  OBVIOUS
<1>0. list \in Seq(Piece) /\ n \in Nat /\ DOMAIN list = 1 .. n /\ i \in 0 .. n
  BY DEF Tidy
<1>1. PICK y \in Piece : \E a, c \in Int :
        Splices(t, list, a, y, c) /\ Begins(y, list, i, x, a) /\ Finishes(y, list, i, x, c)
  BY <1>0, JoinedCases
<1>2. PICK a \in Int, c \in Int :
        Splices(t, list, a, y, c) /\ Begins(y, list, i, x, a) /\ Finishes(y, list, i, x, c)
  BY <1>1
<1>3. /\ a \in 0 .. i /\ Even(y.addr) /\ y.addr <= x.addr
      /\ \A k \in 1 .. a : Past(list[k]) < y.addr
      /\ \A w : w \in WordsOf(list, a + 1 .. i) <=> w \in Int /\ y.addr <= w /\ w < x.addr
  BY <1>2, BeginsFacts
<1>4. /\ c \in i + 1 .. n + 1 /\ Even(Past(y)) /\ Past(x) <= Past(y)
      /\ \A k \in c .. n : Past(y) < list[k].addr
      /\ \A w : w \in WordsOf(list, i + 1 .. c - 1) <=> w \in Int /\ Past(x) <= w /\ w < Past(y)
  BY <1>2, FinishesFacts
<1>5. /\ x.addr \in Int /\ x.len > 0 /\ Past(x) = x.addr + x.len /\ x.len \in Int
      /\ y.addr \in Int /\ y.len \in Int /\ Past(y) = y.addr + y.len
  BY PieceFacts DEF WellCut
<1>6. WellCut(y)
  <2>1. y.len > 0
    BY SMTT(40), <1>3, <1>4, <1>5
  <2>2. Even(y.len)
    <3>1. Even(Past(y)) /\ Even(y.addr) /\ Past(y) \in Int /\ y.addr \in Int /\ y.len = Past(y) - y.addr
      BY <1>3, <1>4, <1>5
    <3> QED BY ONLY <3>1, EvenSums
  <2> QED BY <1>3, <2>1, <2>2 DEF WellCut
<1>7. a \in 0 .. n /\ c \in a + 1 .. n + 1
  BY <1>0, <1>3, <1>4
<1>8. Tidy(t) /\ Span(t) = Words(y) \union WordsOf(list, 1 .. a) \union WordsOf(list, c .. n)
  BY <1>2, <1>3, <1>4, <1>6, <1>7, SplicedTidy
<1>9. Words(y) = WordsOf(list, a + 1 .. i) \union Words(x) \union WordsOf(list, i + 1 .. c - 1)
  <2>1. \A w : w \in Words(x) <=> w \in Int /\ x.addr <= w /\ w < Past(x)
    BY WordsFacts
  <2>2. \A w : w \in Words(y) <=> w \in Int /\ y.addr <= w /\ w < Past(y)
    BY WordsFacts
  <2>3. /\ y.addr <= x.addr /\ x.addr < Past(x) /\ Past(x) <= Past(y)
        /\ x.addr \in Int /\ Past(x) \in Int /\ y.addr \in Int /\ Past(y) \in Int
    BY SMTT(40), <1>3, <1>4, <1>5
  <2>4. \A w : w \in WordsOf(list, a + 1 .. i) <=> w \in Int /\ y.addr <= w /\ w < x.addr
    BY <1>3
  <2>5. \A w : w \in WordsOf(list, i + 1 .. c - 1) <=> w \in Int /\ Past(x) <= w /\ w < Past(y)
    BY <1>4
  <2> PICK A, B : A = WordsOf(list, a + 1 .. i) /\ B = WordsOf(list, i + 1 .. c - 1)
    OBVIOUS
  <2>6. ASSUME NEW w
        PROVE  w \in Words(y) <=> w \in A \/ w \in Words(x) \/ w \in B
    <3>1. w \in A <=> w \in Int /\ y.addr <= w /\ w < x.addr
      BY <2>4
    <3>2. w \in B <=> w \in Int /\ Past(x) <= w /\ w < Past(y)
      BY <2>5
    <3>3. w \in Words(x) <=> w \in Int /\ x.addr <= w /\ w < Past(x)
      BY <2>1
    <3>4. w \in Words(y) <=> w \in Int /\ y.addr <= w /\ w < Past(y)
      BY <2>2
    <3> QED BY ONLY <2>3, <3>1, <3>2, <3>3, <3>4
  <2>7. Words(y) = A \union Words(x) \union B
    BY ONLY <2>6
  <2> QED BY <2>7
<1>10. Span(list) = WordsOf(list, 1 .. a) \union WordsOf(list, a + 1 .. i)
                      \union WordsOf(list, i + 1 .. c - 1) \union WordsOf(list, c .. n)
  <2>1. 1 .. n = (1 .. a) \union (a + 1 .. i) \union (i + 1 .. c - 1) \union (c .. n)
    BY <1>0, <1>3, <1>4
  <2>2. Span(list) = WordsOf(list, 1 .. n)
    BY <1>0 DEF Span, WordsOf
  <2>3. \A K, L : WordsOf(list, K \union L) = WordsOf(list, K) \union WordsOf(list, L)
    BY DEF WordsOf
  <2> PICK A, B, C, D : A = 1 .. a /\ B = a + 1 .. i /\ C = i + 1 .. c - 1 /\ D = c .. n
    OBVIOUS
  <2>4. Span(list) = WordsOf(list, ((A \union B) \union C) \union D)
    BY <2>1, <2>2
  <2>5. Span(list) = ((WordsOf(list, A) \union WordsOf(list, B)) \union WordsOf(list, C)) \union WordsOf(list, D)
    <3> PICK G : G = A \union B
      OBVIOUS
    <3> PICK H : H = G \union C
      OBVIOUS
    <3>1. WordsOf(list, G) = WordsOf(list, A) \union WordsOf(list, B)
      BY <2>3
    <3>2. WordsOf(list, H) = WordsOf(list, G) \union WordsOf(list, C)
      BY <2>3
    <3>4. Span(list) = WordsOf(list, H \union D)
      BY ONLY <2>4, G = A \union B, H = G \union C
    <3>3. Span(list) = WordsOf(list, H) \union WordsOf(list, D)
      BY ONLY <2>3, <3>4
    <3> QED BY ONLY <3>1, <3>2, <3>3, Zenon
  <2> QED BY <2>5
<1> QED BY <1>8, <1>9, <1>10

\* What is given back becomes free, whatever blocks it is joined with.
LEMMA ReturnFacts ==
  ASSUME NEW list, Tidy(list), NEW e \in Nat, NEW b \in Piece, b.len # 0, e <= b.addr,
         NEW x, x = block(b.addr, roundmb(b.len)), x \in Piece, WellCut(x),
         Past(x) <= MAXADDR, Words(x) \cap Span(list) = {},
         NEW r, r = freemem(list, e, b)
  PROVE  /\ r.got.len = x.len
         /\ Tidy(r.free) /\ Span(r.free) = Span(list) \union Words(x)
<1> PICK n : n = Len(list)
  OBVIOUS
<1> PICK S : S = {k \in DOMAIN list : list[k].addr < b.addr}
  OBVIOUS
<1> PICK i : i = Cardinality(S)
  OBVIOUS
<1>0. /\ list \in Seq(Piece) /\ n \in Nat /\ DOMAIN list = 1 .. n
      /\ \A k \in 1 .. n : list[k] \in Piece
  BY DEF Tidy
<1>1. x.addr = b.addr /\ x.len = roundmb(b.len) /\ x.addr \in Int /\ x.len \in Int
      /\ Past(x) = x.addr + x.len /\ x.len > 0 /\ MAXADDR \in Nat /\ W \in Nat /\ MAXADDR < W
  BY PieceFacts, MemoryAssumption DEF block, WellCut
<1>2. \A k \in 1 .. n : /\ list[k].addr \in Int /\ list[k].len \in Int /\ list[k].len > 0
                        /\ Past(list[k]) = list[k].addr + list[k].len /\ Past(list[k]) \in Int
  BY <1>0, PieceFacts DEF Tidy, WellCut
<1>3. \A j, k \in 1 .. n : j < k => list[j].addr < list[k].addr
  <2> SUFFICES ASSUME NEW j \in 1 .. n, NEW k \in 1 .. n, j < k PROVE list[j].addr < list[k].addr
    OBVIOUS
  <2>1. Past(list[j]) < list[k].addr
    BY <1>0 DEF Tidy, InOrder
  <2> QED BY <1>2, <2>1
<1>4. i \in 0 .. n /\ S = 1 .. i
  <2>1. S \subseteq 1 .. n /\ \A k \in S : \A j \in 1 .. n : j < k => j \in S
    BY <1>0, <1>1, <1>2, <1>3
  <2> QED BY <1>0, <2>1, CountedFromOne
<1>5. \A k \in 1 .. n : k <= i <=> list[k].addr < x.addr
  BY <1>0, <1>1, <1>4
<1>6. ASSUME NEW k \in 1 .. n
      PROVE  \A w \in Int : ~(list[k].addr <= w /\ w < Past(list[k]) /\ x.addr <= w /\ w < Past(x))
  <2>1. Words(list[k]) \cap Words(x) = {}
    BY <1>0 DEF Span
  <2>2. \A w : w \in Words(list[k]) <=> w \in Int /\ list[k].addr <= w /\ w < Past(list[k])
    BY <1>0, WordsFacts
  <2>3. \A w : w \in Words(x) <=> w \in Int /\ x.addr <= w /\ w < Past(x)
    BY WordsFacts
  <2> QED BY <2>1, <2>2, <2>3
<1>7. \A k \in 1 .. i : k \in 1 .. n /\ Past(list[k]) <= x.addr
  <2> SUFFICES ASSUME NEW k \in 1 .. i PROVE k \in 1 .. n /\ Past(list[k]) <= x.addr
    OBVIOUS
  <2>1. k \in 1 .. n /\ list[k].addr < x.addr
    BY <1>0, <1>4, <1>5
  <2>2. ~(list[k].addr <= x.addr /\ x.addr < Past(list[k]) /\ x.addr <= x.addr /\ x.addr < Past(x))
    BY <1>1, <1>6, <2>1
  <2> QED BY <1>1, <1>2, <2>1, <2>2
<1>8. \A k \in i + 1 .. n : k \in 1 .. n /\ Past(x) <= list[k].addr
  <2> SUFFICES ASSUME NEW k \in i + 1 .. n PROVE k \in 1 .. n /\ Past(x) <= list[k].addr
    OBVIOUS
  <2>1. k \in 1 .. n /\ x.addr <= list[k].addr
    <3>1. k \in 1 .. n /\ ~(k <= i)
      BY <1>0, <1>4
    <3>2. ~(list[k].addr < x.addr) /\ list[k].addr \in Int
      BY <1>2, <1>5, <3>1
    <3> QED BY <1>1, <3>1, <3>2
  <2>2. ~(list[k].addr <= list[k].addr /\ list[k].addr < Past(list[k])
           /\ x.addr <= list[k].addr /\ list[k].addr < Past(x))
    BY <1>2, <1>6, <2>1
  <2> QED BY SMTT(40), <1>1, <1>2, <2>1, <2>2
<1>9. r.free = Joined(list, i, x) /\ r.got.len = x.len
  <2>1. (x.addr + x.len) % W = Past(x)
    <3>1. Past(x) \in 0 .. W - 1
      BY <1>1
    <3>2. \A v \in 0 .. W - 1 : (0 * W + v) % W = v
      BY <1>1, OneRemainder
    <3> QED BY SMTT(40), <1>1, <3>1, <3>2
  <2>2. ~(i > 0 /\ b.addr < list[i].addr + list[i].len)
    <3>1. i > 0 => i \in 1 .. i /\ i \in 1 .. n
      BY <1>0, <1>4
    <3>2. i > 0 => Past(list[i]) <= x.addr /\ Past(list[i]) = list[i].addr + list[i].len
                   /\ Past(list[i]) \in Int
      BY <1>2, <1>7, <3>1
    <3> QED BY <1>1, <3>2
  <2>3. ~(i < n /\ (b.addr + x.len) % W > list[i + 1].addr)
    <3>1. i < n => i + 1 \in i + 1 .. n
      BY <1>0, <1>4
    <3>2. i < n => Past(x) <= list[i + 1].addr /\ list[i + 1].addr \in Int
      BY <1>2, <1>8, <3>1
    <3> QED BY <1>1, <2>1, <3>2
  <2>4. ~(b.len = 0 \/ b.addr < e \/ b.addr > MAXADDR)
    BY <1>1
  <2>5. r = [Granted(b, Joined(list, i, x)) EXCEPT !.got.len = x.len]
    BY <1>1, <2>2, <2>3, <2>4 DEF freemem
  <2> QED BY <2>5 DEF Granted, Piece
<1>10. Tidy(r.free) /\ Span(r.free) = Span(list) \union Words(x)
  <2> PICK t : t = Joined(list, i, x)
    OBVIOUS
  <2>1. /\ Tidy(list) /\ x \in Piece /\ WellCut(x) /\ i \in 0 .. Len(list)
        /\ \A k \in 1 .. i : Past(list[k]) <= x.addr
        /\ \A k \in i + 1 .. Len(list) : Past(x) <= list[k].addr
    BY <1>4, <1>7, <1>8
  <2>2. Tidy(t) /\ Span(t) = Span(list) \union Words(x)
    BY ONLY <2>1, t = Joined(list, i, x), JoinedFacts
  <2> QED BY <1>9, <2>2
<1> QED BY <1>9, <1>10

----------------------------------------------------------------------------
\* A list is determined by its words: it has them in the fewest blocks.

\* The first block in which two lists may differ is in both, and begins no later in the
\* second.
LEMMA NextBlock ==
  ASSUME NEW s, NEW t, Tidy(s), Tidy(t), Span(s) \subseteq Span(t), NEW k \in DOMAIN s,
         \A i \in 1 .. k - 1 : i \in DOMAIN t /\ s[i] = t[i]
  PROVE  k \in DOMAIN t /\ t[k].addr <= s[k].addr
<1>0. /\ Len(t) \in Nat /\ DOMAIN t = 1 .. Len(t) /\ k \in Nat /\ k >= 1
      /\ \A i \in DOMAIN t : t[i] \in Piece /\ WellCut(t[i])
      /\ s[k] \in Piece /\ WellCut(s[k]) /\ DOMAIN s = 1 .. Len(s) /\ Len(s) \in Nat
  BY DEF Tidy
<1>1. s[k].addr \in Int /\ s[k].addr \in Words(s[k])
  BY <1>0, CutFacts, WordsFacts
<1>2. PICK j \in DOMAIN t : s[k].addr \in Words(t[j])
  BY <1>1 DEF Span
<1>3. t[j].addr \in Int /\ t[j].addr <= s[k].addr /\ s[k].addr < Past(t[j])
  BY <1>0, <1>2, PieceFacts, WordsFacts
<1>4. j >= k
  <2> SUFFICES ASSUME j < k PROVE FALSE
    BY <1>0
  <2>1. j \in 1 .. k - 1 /\ j \in DOMAIN s
    BY <1>0
  <2>2. s[j] = t[j] /\ Past(s[j]) < s[k].addr /\ Past(s[j]) \in Int
    BY <1>0, <2>1, PieceFacts DEF Tidy, InOrder
  <2> QED BY <1>1, <1>3, <2>2
<1>5. k \in DOMAIN t
  BY <1>0, <1>4
<1>6. CASE j = k
  BY <1>3, <1>5, <1>6
<1>7. CASE j > k
  <2>1. Past(t[k]) < t[j].addr
    BY <1>5, <1>7 DEF Tidy, InOrder
  <2>2. t[k].addr \in Int /\ Past(t[k]) \in Int /\ t[k].addr < Past(t[k])
    BY <1>0, <1>5, CutFacts
  <2> QED BY <1>1, <1>3, <1>5, <2>1, <2>2
<1> QED BY <1>0, <1>4, <1>6, <1>7

\* Nor does a block end later: the word past the end of the other is not free.
LEMMA BlockEnds ==
  ASSUME NEW s, NEW t, Tidy(s), Tidy(t), Span(t) \subseteq Span(s),
         NEW k \in DOMAIN s, k \in DOMAIN t, s[k].addr = t[k].addr
  PROVE  Past(t[k]) <= Past(s[k])
<1>0. /\ s[k] \in Piece /\ WellCut(s[k]) /\ t[k] \in Piece /\ WellCut(t[k])
      /\ \A i \in DOMAIN s : s[i] \in Piece /\ i \in Int
  BY DEF Tidy
<1>1. /\ s[k].addr \in Int /\ Past(s[k]) \in Int /\ s[k].addr < Past(s[k]) /\ Past(t[k]) \in Int
  BY <1>0, CutFacts
<1> SUFFICES ASSUME Past(s[k]) < Past(t[k]) PROVE FALSE
  BY <1>1
<1>2. Past(s[k]) \in Words(t[k])
  BY <1>0, <1>1, WordsFacts
<1>3. PICK j \in DOMAIN s : Past(s[k]) \in Words(s[j])
  BY <1>2 DEF Span
<1>4. s[j].addr \in Int /\ s[j].addr <= Past(s[k]) /\ Past(s[k]) < Past(s[j]) /\ Past(s[j]) \in Int
  BY <1>0, <1>3, PieceFacts, WordsFacts
<1>5. CASE j = k
  BY <1>1, <1>4, <1>5
<1>6. CASE j < k
  <2>1. Past(s[j]) < s[k].addr
    BY <1>6 DEF Tidy, InOrder
  <2> QED BY <1>1, <1>4, <2>1
<1>7. CASE j > k
  <2>1. Past(s[k]) < s[j].addr
    BY <1>7 DEF Tidy, InOrder
  <2> QED BY <1>1, <1>4, <2>1
<1> QED BY <1>0, <1>5, <1>6, <1>7

\* Lists with the same words are the same list.
LEMMA SpanDetermines ==
  ASSUME NEW s, NEW t, Tidy(s), Tidy(t), Span(s) = Span(t)
  PROVE  s = t
<1> DEFINE Agree(k) == /\ k \in DOMAIN s <=> k \in DOMAIN t
                       /\ k \in DOMAIN s => s[k] = t[k]
<1> DEFINE D == {k \in Nat : k >= 1 /\ ~Agree(k)}
<1>0. /\ s \in Seq(Piece) /\ t \in Seq(Piece) /\ Len(s) \in Nat /\ Len(t) \in Nat
      /\ DOMAIN s = 1 .. Len(s) /\ DOMAIN t = 1 .. Len(t)
      /\ \A i \in DOMAIN s : s[i] \in Piece
      /\ \A i \in DOMAIN t : t[i] \in Piece
  BY DEF Tidy
<1>1. CASE D # {}
  <2>1. PICK k \in D : \A j \in D : <<j, k>> \notin OpToRel(<, Nat)
    BY <1>1, NatLessThanWellFounded, WFMin
  <2>2. k \in Nat /\ k >= 1 /\ ~Agree(k)
    OBVIOUS
  <2>3. \A j \in 1 .. k - 1 : Agree(j)
    <3> SUFFICES ASSUME NEW j \in 1 .. k - 1, ~Agree(j) PROVE FALSE
      OBVIOUS
    <3>1. j \in Nat /\ j >= 1 /\ j < k
      BY <2>2
    <3>2. j \in D
      BY <3>1
    <3> QED BY <2>1, <2>2, <3>1, <3>2 DEF OpToRel
  <2>4. ASSUME k \in DOMAIN s
        PROVE  k \in DOMAIN t /\ t[k].addr <= s[k].addr
    <3>1. \A i \in 1 .. k - 1 : i \in DOMAIN s
      BY <1>0, <2>2, <2>4
    <3>2. \A i \in 1 .. k - 1 : i \in DOMAIN t /\ s[i] = t[i]
      BY <2>3, <3>1
    <3> HIDE DEF Agree, D
    <3> QED BY <2>4, <3>2, NextBlock
  <2>5. ASSUME k \in DOMAIN t
        PROVE  k \in DOMAIN s /\ s[k].addr <= t[k].addr
    <3>1. \A i \in 1 .. k - 1 : i \in DOMAIN t
      BY <1>0, <2>2, <2>5
    <3>2. \A i \in 1 .. k - 1 : i \in DOMAIN s /\ t[i] = s[i]
      BY <2>3, <3>1
    <3> HIDE DEF Agree, D
    <3> QED BY <2>5, <3>2, NextBlock
  <2>6. k \in DOMAIN s /\ k \in DOMAIN t
    BY <2>2, <2>4, <2>5
  <2> HIDE DEF Agree, D
  <2>7. s[k] \in Piece /\ t[k] \in Piece
    BY <1>0, <2>6
  <2>8. s[k].addr = t[k].addr
    BY <2>4, <2>5, <2>6, <2>7, PieceFacts
  <2>9. Past(t[k]) <= Past(s[k]) /\ Past(s[k]) <= Past(t[k])
    BY <2>6, <2>8, BlockEnds
  <2>10. s[k].len = t[k].len
    BY <2>7, <2>8, <2>9, PieceFacts
  <2>11. s[k] = t[k]
    BY <2>7, <2>8, <2>10 DEF Piece
  <2> QED BY <2>2, <2>6, <2>11 DEF Agree
<1>2. CASE D = {}
  <2>1. \A k \in Nat : k >= 1 => Agree(k)
    BY <1>2
  <2> HIDE DEF D
  <2>2. \A k \in 1 .. Len(s) : k \in DOMAIN t /\ s[k] = t[k]
    BY <1>0, <2>1
  <2>3. \A k \in 1 .. Len(t) : k \in DOMAIN s
    BY <1>0, <2>1
  <2> HIDE DEF Agree
  <2>4. Len(s) <= Len(t)
    <3>1. Len(s) >= 1 => Len(s) \in DOMAIN t
      BY <1>0, <2>2
    <3> QED BY <1>0, <3>1
  <2>5. Len(t) <= Len(s)
    <3>1. Len(t) >= 1 => Len(t) \in DOMAIN s
      BY <1>0, <2>3
    <3> QED BY <1>0, <3>1
  <2>6. Len(s) = Len(t)
    <3>1. Len(s) \in Nat /\ Len(t) \in Nat
      BY <1>0
    <3> QED BY ONLY <2>4, <2>5, <3>1
  <2> QED BY <1>0, <2>2, <2>6, SeqEqual
<1> QED BY <1>1, <1>2

----------------------------------------------------------------------------
Pool == [mem : Piece, shape : PoolShapes, chain : Seq(Int), count : Int, queue : Seq(Pid)]

Distinct(s) == \A x, y \in DOMAIN s : s[x] = s[y] => x = y

----------------------------------------------------------------------------
\* Sequences without repetitions, as chains are.

\* What is left of a chain without its first buffer.
LEMMA TailOfChain ==
  ASSUME NEW s \in Seq(Int), s # <<>>, Distinct(s)
  PROVE  /\ Head(s) \in ToSet(s) /\ Head(s) \in Int
         /\ Tail(s) \in Seq(Int) /\ Len(Tail(s)) = Len(s) - 1
         /\ ToSet(Tail(s)) = ToSet(s) \ {Head(s)} /\ Distinct(Tail(s))
<1>1. /\ Len(s) \in Nat /\ Len(s) > 0 /\ DOMAIN s = 1 .. Len(s) /\ \A x \in 1 .. Len(s) : s[x] \in Int
  OBVIOUS
<1>2. /\ Tail(s) \in Seq(Int) /\ Len(Tail(s)) = Len(s) - 1 /\ DOMAIN Tail(s) = 1 .. Len(s) - 1
      /\ \A x \in 1 .. Len(s) - 1 : Tail(s)[x] = s[x + 1]
  BY <1>1
<1>3. Head(s) = s[1] /\ Head(s) \in ToSet(s)
  BY <1>1 DEF ToSet
<1>4. Distinct(Tail(s))
  BY SMTT(40), <1>1, <1>2 DEF Distinct
<1>5. ASSUME NEW v PROVE v \in ToSet(Tail(s)) <=> v \in ToSet(s) \ {Head(s)}
  <2>1. ASSUME v \in ToSet(Tail(s)) PROVE v \in ToSet(s) \ {Head(s)}
    <3>1. PICK x \in 1 .. Len(s) - 1 : v = s[x + 1]
      BY <1>2, <2>1 DEF ToSet
    <3>2. x + 1 \in DOMAIN s /\ 1 \in DOMAIN s /\ x + 1 # 1
      BY <1>1
    <3> QED BY <1>3, <3>1, <3>2 DEF ToSet, Distinct
  <2>2. ASSUME v \in ToSet(s) \ {Head(s)} PROVE v \in ToSet(Tail(s))
    <3>1. PICK x \in 1 .. Len(s) : v = s[x]
      BY <1>1, <2>2 DEF ToSet
    <3>2. x - 1 \in 1 .. Len(s) - 1 /\ v = Tail(s)[x - 1]
      BY <1>1, <1>2, <1>3, <2>2, <3>1
    <3> QED BY <1>2, <3>2 DEF ToSet
  <2> QED BY <2>1, <2>2
<1> QED BY <1>1, <1>2, <1>3, <1>4, <1>5

\* A buffer that is not on a chain is put before it.
LEMMA PushOnChain ==
  ASSUME NEW s \in Seq(Int), Distinct(s), NEW v \in Int, v \notin ToSet(s)
  PROVE  /\ <<v>> \o s \in Seq(Int) /\ Len(<<v>> \o s) = Len(s) + 1
         /\ ToSet(<<v>> \o s) = ToSet(s) \union {v} /\ Distinct(<<v>> \o s)
<1> DEFINE t == <<v>> \o s
<1>1. /\ Len(s) \in Nat /\ DOMAIN s = 1 .. Len(s)
      /\ t \in Seq(Int) /\ Len(t) = Len(s) + 1 /\ DOMAIN t = 1 .. Len(s) + 1
      /\ t[1] = v /\ \A x \in 2 .. Len(s) + 1 : t[x] = s[x - 1]
  OBVIOUS
<1> HIDE DEF t
<1>2. \A x \in 1 .. Len(s) : s[x] = t[x + 1] /\ s[x] # v
  <2> TAKE x \in 1 .. Len(s)
  <2>1. x + 1 \in 2 .. Len(s) + 1 /\ (x + 1) - 1 = x
    BY <1>1
  <2>2. s[x] \in ToSet(s)
    BY <1>1 DEF ToSet
  <2> QED BY <1>1, <2>1, <2>2
<1>3. Distinct(t)
  <2> SUFFICES ASSUME NEW x \in 1 .. Len(s) + 1, NEW y \in 1 .. Len(s) + 1, t[x] = t[y] PROVE x = y
    BY <1>1 DEF Distinct
  <2>1. x = 1 \/ x - 1 \in 1 .. Len(s)
    BY <1>1
  <2>2. y = 1 \/ y - 1 \in 1 .. Len(s)
    BY <1>1
  <2>3. CASE x = 1
    BY <1>1, <1>2, <2>2, <2>3
  <2>4. CASE y = 1
    BY <1>1, <1>2, <2>1, <2>4
  <2>5. CASE x # 1 /\ y # 1
    <3>1. s[x - 1] = s[y - 1] /\ x - 1 \in DOMAIN s /\ y - 1 \in DOMAIN s
      BY <1>1, <2>1, <2>2, <2>5
    <3>2. x - 1 = y - 1
      BY <3>1 DEF Distinct
    <3> QED BY <3>2
  <2> QED BY <2>3, <2>4, <2>5
<1>4. ASSUME NEW u PROVE u \in ToSet(t) <=> u \in ToSet(s) \union {v}
  <2>1. ASSUME u \in ToSet(t) PROVE u \in ToSet(s) \union {v}
    <3>1. PICK x \in 1 .. Len(s) + 1 : u = t[x]
      BY <1>1, <2>1 DEF ToSet
    <3>2. CASE x = 1
      BY <1>1, <3>1, <3>2
    <3>3. CASE x # 1
      <4>1. x \in 2 .. Len(s) + 1 /\ x - 1 \in DOMAIN s
        BY <1>1, <3>3
      <4>2. u = s[x - 1]
        BY <1>1, <3>1, <4>1
      <4> QED BY <4>1, <4>2 DEF ToSet
    <3> QED BY <3>2, <3>3
  <2>2. ASSUME u \in ToSet(s) PROVE u \in ToSet(t)
    <3>1. PICK x \in 1 .. Len(s) : u = s[x]
      BY <1>1, <2>2 DEF ToSet
    <3>2. x + 1 \in DOMAIN t /\ u = t[x + 1]
      BY <1>1, <1>2, <3>1
    <3> QED BY <3>2 DEF ToSet
  <2>3. v \in ToSet(t)
    <3>1. 1 \in DOMAIN t /\ v = t[1]
      BY <1>1
    <3> QED BY <3>1 DEF ToSet
  <2> QED BY <2>1, <2>2, <2>3
<1>5. ToSet(t) = ToSet(s) \union {v}
  BY <1>4
<1> QED BY <1>1, <1>3, <1>5 DEF t

----------------------------------------------------------------------------
\* One pool, of which the buffers at the addresses out are lent and for which n
\* processes have been released.

Accounted(pool, out) ==
  /\ Distinct(pool.chain) /\ ToSet(pool.chain) \cap out = {} /\ IsFiniteSet(out)
  /\ ToSet(pool.chain) \union out = ToSet(Buffers(pool.mem.addr, pool.shape))
  /\ Len(pool.chain) + Cardinality(out) = pool.shape.numbufs

Covered(pool, n) ==
  /\ Len(pool.chain) >= n + (IF pool.count > 0 THEN pool.count ELSE 0)
  /\ Len(pool.queue) = IF pool.count < 0 THEN -pool.count ELSE 0

\* A pool of which nothing has been lent.
LEMMA NewPool ==
  ASSUME NEW at \in Int, NEW s \in PoolShapes
  PROVE  LET chain == Buffers(at, s)
         IN  chain \in Seq(Int) /\ Distinct(chain) /\ Len(chain) = s.numbufs
<1> DEFINE chain == Buffers(at, s)
<1>1. s.numbufs \in Nat /\ s.bufsiz \in Nat
  BY KernelHeapAssumption
<1>2. \A x \in 1 .. s.numbufs : (x - 1) * (s.bufsiz + 1) \in Int
  BY <1>1
<1>3. chain \in Seq(Int) /\ DOMAIN chain = 1 .. s.numbufs /\ Len(chain) = s.numbufs
  <2>1. chain \in [1 .. s.numbufs -> Int]
    BY <1>1, <1>2 DEF Buffers
  <2> HIDE DEF chain
  <2> QED BY <1>1, <2>1
<1>4. \A x, y \in 1 .. s.numbufs : x < y => chain[x] < chain[y]
  <2> TAKE x, y \in 1 .. s.numbufs
  <2> HAVE x < y
  <2>1. chain[x] = at + (x - 1) * (s.bufsiz + 1) /\ chain[y] = at + (y - 1) * (s.bufsiz + 1)
    BY <1>1 DEF Buffers
  <2> DEFINE b == s.bufsiz + 1
  <2>2. b \in Int /\ b > 0 /\ x \in Int /\ y \in Int /\ y - x > 0
    BY <1>1
  <2> HIDE DEF b
  <2>3. (y - 1) * b = (x - 1) * b + (y - x) * b
    BY <2>2
  <2>4. (y - x) * b > 0 /\ (x - 1) * b \in Int
    BY <2>2
  <2>5. (y - 1) * b > (x - 1) * b
    BY <2>2, <2>3, <2>4
  <2> QED BY <2>1, <2>2, <2>5 DEF b
<1>5. Distinct(chain)
  BY <1>1, <1>3, <1>4 DEF Distinct
<1> QED BY <1>3, <1>5

\* A buffer leaves the chain: the rest of getbuf, for a process that has found the count
\* positive or that has been released.
LEMMA Unlinked ==
  ASSUME NEW pool \in Pool, NEW out, Accounted(pool, out), pool.chain # <<>>,
         NEW c \in Int
  PROVE  LET rest == [pool EXCEPT !.count = c, !.chain = Tail(@)]
         IN  rest \in Pool /\ Accounted(rest, out \union {Head(pool.chain)})
             /\ Len(rest.chain) = Len(pool.chain) - 1 /\ Head(pool.chain) \in Int
<1> DEFINE rest == [pool EXCEPT !.count = c, !.chain = Tail(@)]
<1> DEFINE h == Head(pool.chain)
<1>1. pool.chain \in Seq(Int) /\ Distinct(pool.chain) /\ pool.shape.numbufs \in Int
  BY KernelHeapAssumption DEF Pool, Accounted
<1>2. /\ h \in ToSet(pool.chain) /\ h \in Int
      /\ Tail(pool.chain) \in Seq(Int) /\ Len(Tail(pool.chain)) = Len(pool.chain) - 1
      /\ ToSet(Tail(pool.chain)) = ToSet(pool.chain) \ {h} /\ Distinct(Tail(pool.chain))
  BY <1>1, TailOfChain
<1>3. /\ rest \in Pool /\ rest.mem = pool.mem /\ rest.shape = pool.shape
      /\ rest.chain = Tail(pool.chain)
  BY <1>2 DEF Pool
<1>4. /\ h \notin out /\ IsFiniteSet(out \union {h}) /\ Cardinality(out) \in Nat
      /\ Cardinality(out \union {h}) = Cardinality(out) + 1
  BY <1>2, FS_AddElement, FS_CardinalityType DEF Accounted
<1>5. Len(pool.chain) \in Nat
  BY <1>1
<1> HIDE DEF rest, h
<1>6. /\ Distinct(rest.chain) /\ ToSet(rest.chain) \cap (out \union {h}) = {}
      /\ ToSet(rest.chain) \union (out \union {h}) = ToSet(pool.chain) \union out
  BY <1>2, <1>3 DEF Accounted
<1>7. Len(rest.chain) + Cardinality(out \union {h}) = Len(pool.chain) + Cardinality(out)
  BY <1>2, <1>3, <1>4, <1>5
<1>8. Accounted(rest, out \union {h})
  BY <1>3, <1>4, <1>6, <1>7 DEF Accounted
<1> QED BY <1>2, <1>3, <1>8 DEF rest, h

\* A buffer comes back, and the first process that waits is released.
LEMMA Linked ==
  ASSUME NEW pool \in Pool, NEW out, Accounted(pool, out), NEW v \in out, v \in Int,
         NEW more, more.mem = pool.mem, more.shape = pool.shape, more.chain = <<v>> \o pool.chain
  PROVE  /\ Accounted(more, out \ {v})
         /\ more.chain \in Seq(Int) /\ Len(more.chain) = Len(pool.chain) + 1
<1>1. /\ pool.chain \in Seq(Int) /\ Distinct(pool.chain) /\ pool.shape.numbufs \in Int
      /\ v \notin ToSet(pool.chain)
  BY KernelHeapAssumption DEF Pool, Accounted
<1> DEFINE chain == <<v>> \o pool.chain
<1>2. /\ chain \in Seq(Int) /\ Len(chain) = Len(pool.chain) + 1
      /\ ToSet(chain) = ToSet(pool.chain) \union {v} /\ Distinct(chain)
  BY <1>1, PushOnChain
<1> HIDE DEF chain
<1>3. more.mem = pool.mem /\ more.shape = pool.shape /\ more.chain = chain
  BY DEF chain
<1>4. /\ IsFiniteSet(out \ {v}) /\ Cardinality(out) \in Nat
      /\ Cardinality(out \ {v}) = Cardinality(out) - 1
  BY FS_RemoveElement, FS_CardinalityType DEF Accounted
<1>5. Len(pool.chain) \in Nat
  BY <1>1
<1>6. /\ Distinct(more.chain) /\ ToSet(more.chain) \cap (out \ {v}) = {}
      /\ ToSet(more.chain) \union (out \ {v}) = ToSet(pool.chain) \union out
  BY <1>1, <1>2, <1>3 DEF Accounted
<1>7. Len(more.chain) + Cardinality(out \ {v}) = Len(pool.chain) + Cardinality(out)
  BY <1>2, <1>3, <1>4, <1>5
<1>8. Accounted(more, out \ {v})
  BY <1>3, <1>4, <1>6, <1>7 DEF Accounted
<1> QED BY <1>2, <1>3, <1>8

----------------------------------------------------------------------------
\* The inductive invariant.  What is lent and released belongs to a pool, what waits or has
\* been released is alive, and every pool is accounted for and covered.

Out(k)      == {b.addr : b \in {c \in lent : c.pool = k}}
Released(k) == {g \in granted : g.pool = k}

\* The types of what the pools and their memory are kept in.
HeapTypes ==
  /\ end \in Int /\ free \in Seq(Piece)
  /\ stacks \in [Pid -> Piece] /\ entries \subseteq Piece
  /\ buftab \in Seq(Pool)
  /\ lent \subseteq [pool : DOMAIN buftab, addr : Int]
  /\ granted \subseteq [pid : Alive, pool : DOMAIN buftab] /\ IsFiniteSet(granted)

\* Only living processes wait for a buffer.
WaitersLive == \A k \in DOMAIN buftab : ToSet(buftab[k].queue) \subseteq Alive

AllAccounted == \A k \in DOMAIN buftab : Accounted(buftab[k], Out(k))

AllCovered == \A k \in DOMAIN buftab : Covered(buftab[k], Cardinality(Released(k)))

\* The inductive invariant.
PoolInv == HeapTypes /\ WaitersLive /\ AllAccounted /\ AllCovered

\* Finitely many processes are on their way to a buffer of a pool.
LEMMA ReleasedAreFinite ==
  ASSUME IsFiniteSet(granted), NEW k
  PROVE  IsFiniteSet(Released(k)) /\ Cardinality(Released(k)) \in Nat
BY FS_Subset, FS_CardinalityType DEF Released

----------------------------------------------------------------------------
\* There is no pool at boot, and the free list is the one round the hole.
LEMMA InitPools == Init => PoolInv
<1> SUFFICES ASSUME Init PROVE PoolInv
  OBVIOUS
<1>1. end \in Int /\ NULLSTK \in Int /\ HOLESTART \in Int /\ HOLEEND \in Int /\ MAXADDR \in Int
  BY MemoryAssumption, KernelHeapAssumption DEF Init, MB
<1>2. InitialList(end) \in Seq(Piece)
  <2>1. block(roundmb(end), truncmb(HOLESTART - end - 1)) \in Piece
    BY <1>1, RoundedIsInt DEF block, Piece, truncmb, MB
  <2>2. block(HOLEEND, truncmb(MAXADDR - HOLEEND - NULLSTK)) \in Piece
    BY <1>1 DEF block, Piece, truncmb, MB
  <2> QED BY <2>1, <2>2 DEF InitialList
<1>3. free \in Seq(Piece)
  BY <1>1, <1>2, RequestReturnsPieces DEF Init
<1>4. NoStack \in Piece /\ DOMAIN buftab = {} /\ buftab \in Seq(Pool)
  BY DEF Init, NoStack, block, Piece
<1>5. HeapTypes
  BY <1>1, <1>3, <1>4, FS_EmptySet DEF HeapTypes, Init
<1> QED BY <1>4, <1>5 DEF PoolInv, WaitersLive, AllAccounted, AllCovered

\* A call that leaves the pools alone, and nobody dead who waits or has been released.
LEMMA PoolsUntouched ==
  ASSUME PoolInv, UNCHANGED <<buftab, lent>>,
         end' = end, free' \in Seq(Piece), stacks' \in [Pid -> Piece], entries' \subseteq Piece,
         granted' \subseteq granted,
         \A g \in granted' : g.pid \in Alive',
         \A k \in DOMAIN buftab : ToSet(buftab[k].queue) \subseteq Alive'
  PROVE  PoolInv'
<1>1. IsFiniteSet(granted') /\ IsFiniteSet(granted)
  BY FS_Subset DEF PoolInv, HeapTypes
<1>2. HeapTypes'
  <2>1. granted' \subseteq [pid : Alive', pool : DOMAIN buftab']
    BY DEF PoolInv, HeapTypes
  <2> QED BY <1>1, <2>1 DEF PoolInv, HeapTypes
<1>3. WaitersLive'
  BY DEF WaitersLive
<1>4. AllAccounted'
  BY DEF PoolInv, AllAccounted, Out, Accounted
<1>5. AllCovered'
  <2> SUFFICES ASSUME NEW k \in DOMAIN buftab
               PROVE  Covered(buftab[k], Cardinality(Released(k)'))
    BY DEF AllCovered
  <2>1. Cardinality(Released(k)') <= Cardinality(Released(k))
        /\ Cardinality(Released(k)') \in Nat /\ Cardinality(Released(k)) \in Nat
    <3>1. Released(k)' \in SUBSET Released(k)
      BY DEF Released
    <3> QED BY <1>1, <3>1, ReleasedAreFinite, FS_Subset, FS_CardinalityType
  <2>2. Covered(buftab[k], Cardinality(Released(k))) /\ buftab[k] \in Pool
    BY DEF PoolInv, AllCovered, HeapTypes
  <2>3. Len(buftab[k].chain) \in Nat /\ buftab[k].count \in Int
    BY <2>2 DEF Pool
  <2> QED BY <2>1, <2>2, <2>3 DEF Covered
<1> QED BY <1>2, <1>3, <1>4, <1>5 DEF PoolInv

\* A call that changes pool k only, with what is lent and released of it.
LEMMA OnePoolChanges ==
  ASSUME PoolInv, NEW k \in DOMAIN buftab, NEW pool \in Pool,
         UNCHANGED memVars, buftab' = [buftab EXCEPT ![k] = pool],
         lent' \subseteq [pool : DOMAIN buftab, addr : Int],
         \A c : c.pool # k => (c \in lent' <=> c \in lent),
         granted' \subseteq [pid : Alive, pool : DOMAIN buftab], IsFiniteSet(granted'),
         \A g : g.pool # k => (g \in granted' <=> g \in granted),
         Accounted(pool, Out(k)'), Covered(pool, Cardinality(Released(k)')),
         ToSet(pool.queue) \subseteq Alive
  PROVE  PoolInv'
<1>1. /\ buftab' \in Seq(Pool) /\ DOMAIN buftab' = DOMAIN buftab /\ buftab'[k] = pool
      /\ \A x \in DOMAIN buftab : x # k => buftab'[x] = buftab[x]
  BY DEF PoolInv, HeapTypes
<1>2. Alive' = Alive
  BY DEF memVars, Alive
<1>3. HeapTypes'
  BY <1>1, <1>2 DEF PoolInv, HeapTypes, memVars
<1>4. WaitersLive'
  BY <1>1, <1>2 DEF PoolInv, WaitersLive
<1>5. AllAccounted'
  <2> SUFFICES ASSUME NEW x \in DOMAIN buftab, x # k PROVE Accounted(buftab[x], Out(x)')
    BY <1>1 DEF AllAccounted, Accounted
  <2>1. Out(x)' = Out(x)
    BY DEF Out
  <2> QED BY <2>1 DEF PoolInv, AllAccounted
<1>6. AllCovered'
  <2> SUFFICES ASSUME NEW x \in DOMAIN buftab, x # k
               PROVE  Covered(buftab[x], Cardinality(Released(x)'))
    BY <1>1 DEF AllCovered, Covered
  <2>1. Released(x)' = Released(x)
    BY DEF Released
  <2> QED BY <2>1 DEF PoolInv, AllCovered
<1> QED BY <1>3, <1>4, <1>5, <1>6 DEF PoolInv

\* A pool whose count becomes c and whose first buffer is handed out.
LEMMA BufferHandedOut ==
  ASSUME PoolInv, NEW k \in DOMAIN buftab, NEW c \in Int,
         Unlink([buftab EXCEPT ![k].count = c], k), UNCHANGED memVars,
         granted' \subseteq granted, \A g : g.pool # k => (g \in granted' <=> g \in granted),
         Len(buftab[k].chain) > 0,
         Len(buftab[k].chain) - 1 >= Cardinality(Released(k)') + (IF c > 0 THEN c ELSE 0),
         Len(buftab[k].queue) = IF c < 0 THEN -c ELSE 0
  PROVE  PoolInv'
<1> DEFINE pool == buftab[k]
<1> DEFINE tab == [buftab EXCEPT ![k].count = c]
<1> DEFINE h == Head(pool.chain)
<1> DEFINE rest == [pool EXCEPT !.count = c, !.chain = Tail(@)]
<1>1. /\ pool \in Pool /\ Accounted(pool, Out(k)) /\ buftab \in Seq(Pool)
      /\ pool.chain \in Seq(Int) /\ pool.chain # <<>>
  <2>1. pool \in Pool /\ Accounted(pool, Out(k)) /\ buftab \in Seq(Pool)
    BY DEF PoolInv, HeapTypes, AllAccounted
  <2>2. pool.chain \in Seq(Int)
    BY <2>1 DEF Pool
  <2> QED BY <2>1, <2>2
<1>2. /\ rest \in Pool /\ Accounted(rest, Out(k) \union {h})
      /\ Len(rest.chain) = Len(pool.chain) - 1 /\ h \in Int
  BY <1>1, Unlinked
<1>3. rest.queue = pool.queue /\ rest.count = c
  BY <1>1 DEF Pool
<1>4. buftab' = [buftab EXCEPT ![k] = rest] /\ lent' = lent \union {[pool |-> k, addr |-> h]}
  <2>1. tab = [buftab EXCEPT ![k] = [pool EXCEPT !.count = c]] /\ tab[k] = [pool EXCEPT !.count = c]
    BY <1>1
  <2>2. [pool EXCEPT !.count = c].chain = pool.chain
    BY <1>1 DEF Pool
  <2>3. [[pool EXCEPT !.count = c] EXCEPT !.chain = Tail(@)] = rest
    BY <1>1 DEF Pool
  <2>4. buftab' = [tab EXCEPT ![k].chain = Tail(@)] /\ lent' = lent \union {[pool |-> k, addr |-> h]}
    BY <2>1, <2>2 DEF Unlink
  <2>5. [tab EXCEPT ![k].chain = Tail(@)] = [tab EXCEPT ![k] = rest]
    BY <2>1, <2>3
  <2> QED BY <2>1, <2>4, <2>5
<1> HIDE DEF rest, h
<1>5. Out(k)' = Out(k) \union {h}
  <2> DEFINE d == [pool |-> k, addr |-> h]
  <2>1. lent' = lent \union {d} /\ d.pool = k /\ d.addr = h
    BY <1>4
  <2> HIDE DEF d
  <2>2. {x \in lent' : x.pool = k} = {x \in lent : x.pool = k} \union {d}
    BY <2>1
  <2> QED BY <2>1, <2>2 DEF Out
<1>6. /\ lent' \subseteq [pool : DOMAIN buftab, addr : Int]
      /\ \A d : d.pool # k => (d \in lent' <=> d \in lent)
  BY <1>2, <1>4 DEF PoolInv, HeapTypes
<1>7. granted' \subseteq [pid : Alive, pool : DOMAIN buftab] /\ IsFiniteSet(granted')
  BY FS_Subset DEF PoolInv, HeapTypes
<1>8. Covered(rest, Cardinality(Released(k)'))
  BY <1>2, <1>3 DEF Covered
<1>9. ToSet(rest.queue) \subseteq Alive
  BY <1>3 DEF PoolInv, WaitersLive
<1> QED BY <1>2, <1>4, <1>5, <1>6, <1>7, <1>8, <1>9, OnePoolChanges

\* A process takes a buffer, or queues when the count has become negative.
LEMMA GetbufPools ==
  ASSUME PoolInv, NEW p \in Pid, NEW k \in DOMAIN buftab, Getbuf(p, k)
  PROVE  PoolInv'
<1> DEFINE pool == buftab[k]
<1> DEFINE n == Cardinality(Released(k))
<1>1. /\ pool \in Pool /\ Covered(pool, n) /\ buftab \in Seq(Pool) /\ n \in Nat
      /\ Released(k)' = Released(k)
  <2>1. Released(k)' = Released(k)
    BY DEF Getbuf, Released
  <2> QED BY <2>1, ReleasedAreFinite DEF PoolInv, HeapTypes, AllCovered
<1>2. pool.count \in Int /\ Len(pool.chain) \in Nat /\ pool.queue \in Seq(Pid)
  BY <1>1 DEF Pool
<1>3. CASE pool.count > 0 /\ Unlink([buftab EXCEPT ![k].count = @ - 1], k)
  <2>1. [buftab EXCEPT ![k].count = @ - 1] = [buftab EXCEPT ![k].count = pool.count - 1]
    BY <1>1
  <2>2. UNCHANGED memVars /\ granted' = granted
    BY DEF Getbuf
  <2>3. /\ Len(pool.chain) > 0 /\ pool.count - 1 \in Int
        /\ Len(pool.chain) - 1 >= n + (IF pool.count - 1 > 0 THEN pool.count - 1 ELSE 0)
        /\ Len(pool.queue) = IF pool.count - 1 < 0 THEN -(pool.count - 1) ELSE 0
    BY SMTT(40), <1>1, <1>2, <1>3 DEF Covered
  <2> HIDE DEF pool, n
  <2> DEFINE c == pool.count - 1
  <2>4. c \in Int /\ Unlink([buftab EXCEPT ![k].count = c], k)
    BY <1>3, <2>1, <2>3
  <2> HIDE DEF c
  <2> QED BY <1>1, <2>2, <2>3, <2>4, BufferHandedOut DEF pool, n, c
<1>4. CASE /\ pool.count <= 0 /\ lent' = lent
           /\ buftab' = [[buftab EXCEPT ![k].count = @ - 1] EXCEPT ![k].queue = Append(@, p)]
  <2> DEFINE longer == [pool EXCEPT !.count = @ - 1, !.queue = Append(@, p)]
  <2>1. longer \in Pool /\ longer.chain = pool.chain /\ longer.shape = pool.shape
        /\ longer.mem = pool.mem /\ longer.count = pool.count - 1
        /\ longer.queue = Append(pool.queue, p)
    <3>1. Append(pool.queue, p) \in Seq(Pid) /\ pool.count - 1 \in Int
      BY <1>2
    <3> QED BY <1>1, <3>1 DEF Pool
  <2>2. buftab' = [buftab EXCEPT ![k] = longer]
    <3>1. [buftab EXCEPT ![k].count = @ - 1] = [buftab EXCEPT ![k] = [pool EXCEPT !.count = @ - 1]]
      BY <1>1
    <3>2. [[pool EXCEPT !.count = @ - 1] EXCEPT !.queue = Append(@, p)] = longer
      BY <1>1 DEF Pool
    <3> QED BY <1>1, <1>4, <3>1, <3>2
  <2> HIDE DEF longer
  <2>3. Covered(longer, n)
    <3>1. Len(longer.queue) = Len(pool.queue) + 1 /\ Len(pool.queue) \in Nat
      BY <1>2, <2>1
    <3> QED BY <1>1, <1>2, <1>4, <2>1, <3>1 DEF Covered
  <2>4. Accounted(longer, Out(k)) /\ Out(k)' = Out(k)
    BY <1>4, <2>1 DEF PoolInv, AllAccounted, Accounted, Out
  <2>5. ToSet(longer.queue) \subseteq Alive
    <3>1. ToSet(pool.queue) \subseteq Alive /\ p \in Alive
      BY DEF PoolInv, WaitersLive, Getbuf, Runs
    <3>2. \A x \in DOMAIN longer.queue : longer.queue[x] = p \/ longer.queue[x] \in ToSet(pool.queue)
      BY <1>2, <2>1 DEF ToSet
    <3> QED BY <3>1, <3>2 DEF ToSet
  <2>6. UNCHANGED memVars /\ granted' = granted
    BY DEF Getbuf
  <2>7. /\ lent' \subseteq [pool : DOMAIN buftab, addr : Int]
        /\ granted' \subseteq [pid : Alive, pool : DOMAIN buftab] /\ IsFiniteSet(granted')
    BY <1>4, <2>6 DEF PoolInv, HeapTypes
  <2> HIDE DEF pool
  <2>8. Covered(longer, Cardinality(Released(k)')) /\ Accounted(longer, Out(k)')
    BY <1>1, <2>3, <2>4
  <2>9. /\ \A d : d.pool # k => (d \in lent' <=> d \in lent)
        /\ \A g : g.pool # k => (g \in granted' <=> g \in granted)
    BY <1>4, <2>6
  <2> QED BY <2>1, <2>2, <2>5, <2>6, <2>7, <2>8, <2>9, OnePoolChanges
<1> QED BY <1>3, <1>4 DEF Getbuf

\* nbgetbuf takes a buffer only of a positive count.
LEMMA NbgetbufPools ==
  ASSUME PoolInv, NEW p \in Pid, NEW k \in DOMAIN buftab, Nbgetbuf(p, k)
  PROVE  PoolInv'
<1>1. Getbuf(p, k)
  BY DEF Nbgetbuf, Getbuf
<1> QED BY <1>1, GetbufPools

\* A released process finds the buffer that its release left for it.
LEMMA GetbufResumesPools ==
  ASSUME PoolInv, NEW g \in granted, GetbufResumes(g)
  PROVE  PoolInv'
<1> DEFINE k == g.pool
<1> DEFINE pool == buftab[k]
<1> DEFINE n == Cardinality(Released(k))
<1>1. /\ k \in DOMAIN buftab /\ pool \in Pool /\ Covered(pool, n) /\ buftab \in Seq(Pool)
      /\ IsFiniteSet(Released(k)) /\ n \in Nat
  BY ReleasedAreFinite DEF PoolInv, HeapTypes, AllCovered
<1>2. pool.count \in Int /\ Len(pool.chain) \in Nat
  BY <1>1 DEF Pool
<1>3. granted' = granted \ {g} /\ UNCHANGED memVars
  BY DEF GetbufResumes
<1>4. Released(k)' = Released(k) \ {g} /\ g \in Released(k)
  BY <1>3 DEF Released
<1>5. Cardinality(Released(k)') = n - 1
  BY <1>1, <1>4, FS_RemoveElement
<1>6. n > 0
  BY <1>1, <1>4, FS_EmptySet
<1>7. Unlink([buftab EXCEPT ![k].count = pool.count], k)
  <2>1. [buftab EXCEPT ![k].count = pool.count] = buftab
    BY <1>1 DEF Pool
  <2> QED BY <2>1 DEF GetbufResumes
<1> HIDE DEF k, pool, n
<1>8. /\ Len(pool.chain) > 0
      /\ Len(pool.chain) - 1 >= Cardinality(Released(k)') + (IF pool.count > 0 THEN pool.count ELSE 0)
      /\ Len(pool.queue) = IF pool.count < 0 THEN -pool.count ELSE 0
  BY <1>1, <1>2, <1>5, <1>6 DEF Covered
<1>9. granted' \subseteq granted /\ \A x : x.pool # k => (x \in granted' <=> x \in granted)
  BY <1>3 DEF k
<1> DEFINE c == pool.count
<1>10. c \in Int /\ Unlink([buftab EXCEPT ![k].count = c], k)
  BY <1>2, <1>7
<1> HIDE DEF c
<1> QED BY <1>1, <1>3, <1>8, <1>9, <1>10, BufferHandedOut DEF pool, c

\* A buffer that comes back is there for the process its signal releases.
LEMMA FreebufPools ==
  ASSUME PoolInv, NEW b \in lent, Freebuf(b)
  PROVE  PoolInv'
<1> DEFINE k == b.pool
<1> DEFINE pool == buftab[k]
<1> DEFINE n == Cardinality(Released(k))
<1> DEFINE q == IF pool.queue = <<>> THEN pool.queue ELSE Tail(pool.queue)
<1> DEFINE c == pool.count + 1
<1> DEFINE more == [pool EXCEPT !.chain = <<b.addr>> \o @, !.count = c, !.queue = q]
<1> DEFINE new == IF pool.queue = <<>> THEN {} ELSE {[pid |-> Head(pool.queue), pool |-> k]}
<1>1. /\ k \in DOMAIN buftab /\ pool \in Pool /\ Covered(pool, n) /\ Accounted(pool, Out(k))
      /\ buftab \in Seq(Pool) /\ IsFiniteSet(Released(k)) /\ n \in Nat /\ b.addr \in Int
  BY ReleasedAreFinite DEF PoolInv, HeapTypes, AllCovered, AllAccounted
<1>2. /\ pool.count \in Int /\ Len(pool.chain) \in Nat /\ Len(pool.queue) \in Nat
      /\ pool.queue \in Seq(Pid) /\ ToSet(pool.queue) \subseteq Alive
  BY SMTT(40), <1>1 DEF Pool, PoolInv, WaitersLive
<1>3. /\ q \in Seq(Pid) /\ ToSet(q) \subseteq Alive
      /\ Len(q) = IF pool.queue = <<>> THEN 0 ELSE Len(pool.queue) - 1
      /\ pool.queue # <<>> => Head(pool.queue) \in Alive
  <2>1. CASE pool.queue = <<>>
    BY <1>2, <2>1
  <2>2. CASE pool.queue # <<>>
    <3>1. /\ Tail(pool.queue) \in Seq(Pid) /\ Len(Tail(pool.queue)) = Len(pool.queue) - 1
          /\ DOMAIN Tail(pool.queue) = 1 .. Len(pool.queue) - 1
          /\ \A x \in 1 .. Len(pool.queue) - 1 : Tail(pool.queue)[x] = pool.queue[x + 1]
          /\ Head(pool.queue) = pool.queue[1] /\ DOMAIN pool.queue = 1 .. Len(pool.queue)
          /\ Len(pool.queue) > 0
      BY <1>2, <2>2
    <3>2. \A x \in 1 .. Len(pool.queue) : pool.queue[x] \in Alive
      BY <1>2, <3>1 DEF ToSet
    <3>3. \A x \in 1 .. Len(pool.queue) - 1 : x + 1 \in 1 .. Len(pool.queue)
      BY <1>2
    <3>4. \A x \in DOMAIN Tail(pool.queue) : Tail(pool.queue)[x] \in Alive
      BY <3>1, <3>2, <3>3
    <3>5. ToSet(Tail(pool.queue)) \subseteq Alive /\ Head(pool.queue) \in Alive
      BY <1>2, <3>1, <3>2, <3>4 DEF ToSet
    <3> QED BY <2>2, <3>1, <3>5
  <2> QED BY <2>1, <2>2
<1>20. Releases(pool) <=> pool.queue # <<>>
  <2> PICK x, y : x = pool.count /\ y = Len(pool.queue)
    OBVIOUS
  <2>1. y = (IF x < 0 THEN -x ELSE 0) /\ x \in Int /\ y \in Nat
    BY <1>1, <1>2 DEF Covered
  <2>2. pool.queue = <<>> <=> y = 0
    BY <1>2
  <2>3. x < 0 <=> y # 0
    BY ONLY <2>1
  <2> QED BY <2>2, <2>3 DEF Releases
<1>4. /\ lent' = lent \ {b} /\ granted' = granted \union new /\ UNCHANGED memVars
      /\ buftab' = [buftab EXCEPT ![k].chain = <<b.addr>> \o @, ![k].count = @ + 1,
                                  ![k].queue = IF pool.queue = <<>> THEN @ ELSE Tail(@)]
  BY <1>20 DEF Freebuf
<1>5. buftab' = [buftab EXCEPT ![k] = more]
  BY <1>1, <1>4 DEF Pool
<1>6. b.addr \in Out(k)
  BY DEF Out
<1>7. /\ more \in Pool /\ Accounted(more, Out(k) \ {b.addr})
      /\ Len(more.chain) = Len(pool.chain) + 1 /\ more.count = c /\ more.queue = q
  <2>1. c \in Int
    BY <1>2
  <2> HIDE DEF c, q
  <2>2. /\ more.count = c /\ more.queue = q /\ more.mem = pool.mem /\ more.shape = pool.shape
        /\ more.chain = <<b.addr>> \o pool.chain
    BY <1>1 DEF Pool
  <2> HIDE DEF k, pool, more
  <2>3. /\ Accounted(more, Out(k) \ {b.addr})
        /\ more.chain \in Seq(Int) /\ Len(more.chain) = Len(pool.chain) + 1
    BY <1>1, <1>6, <2>2, Linked
  <2>4. more \in Pool
    BY <1>1, <1>3, <2>1, <2>3 DEF Pool, more
  <2> QED BY <2>2, <2>3, <2>4
<1>8. Out(k)' = Out(k) \ {b.addr}
  <2>1. \A d \in lent : d = [pool |-> d.pool, addr |-> d.addr]
    BY DEF PoolInv, HeapTypes
  <2>2. \A d \in lent : d.pool = k /\ d.addr = b.addr => d = b
    BY <2>1
  <2>3. {x \in lent' : x.pool = k} = {x \in lent : x.pool = k} \ {b}
    BY <1>4
  <2> QED BY <2>2, <2>3 DEF Out
<1>9. Released(k)' = Released(k) \union new
  BY <1>4 DEF Released
<1>10. Cardinality(Released(k)') \in Nat
       /\ Cardinality(Released(k)') <= n + (IF pool.queue = <<>> THEN 0 ELSE 1)
  <2>1. CASE pool.queue = <<>>
    BY <1>1, <1>9, <2>1
  <2>2. CASE pool.queue # <<>>
    <3> DEFINE g == [pid |-> Head(pool.queue), pool |-> k]
    <3> DEFINE R == Released(k)
    <3>1. Released(k)' = R \union {g} /\ IsFiniteSet(R) /\ Cardinality(R) = n
      BY <1>1, <1>9, <2>2
    <3> HIDE DEF g, R, n
    <3>2. Cardinality(R \union {g}) \in {n, n + 1}
      BY <3>1, FS_AddElement
    <3> QED BY <1>1, <2>2, <3>1, <3>2
  <2> QED BY <2>1, <2>2
<1>11. Covered(more, Cardinality(Released(k)'))
  <2> DEFINE card == Cardinality(Released(k)')
  <2>3. /\ Len(more.chain) = Len(pool.chain) + 1 /\ more.count = pool.count + 1
        /\ Len(more.queue) = IF pool.queue = <<>> THEN 0 ELSE Len(pool.queue) - 1
        /\ card \in Nat /\ card <= n + (IF pool.queue = <<>> THEN 0 ELSE 1)
        /\ Covered(pool, n) /\ n \in Nat
    BY <1>1, <1>3, <1>7, <1>10
  <2>4. pool.queue = <<>> => Len(pool.queue) = 0
    OBVIOUS
  <2> HIDE DEF more, pool, n, card
  <2>5. Covered(more, card)
    <3>1. ASSUME pool.queue = <<>> PROVE Covered(more, card)
      BY <1>2, <2>3, <2>4, <3>1 DEF Covered
    <3>2. ASSUME pool.queue # <<>> PROVE Covered(more, card)
      <4>1. Len(pool.queue) > 0
        BY <1>2, <3>2
      <4> PICK x, y : x = Len(pool.chain) /\ y = Len(pool.queue)
        OBVIOUS
      <4> PICK z : z = pool.count
        OBVIOUS
      <4>2. x \in Nat /\ y \in Nat /\ z \in Int /\ y > 0 /\ n \in Nat /\ card \in Nat /\ card <= n + 1
        BY <1>2, <2>3, <3>2, <4>1
      <4>3. x >= n + (IF z > 0 THEN z ELSE 0) /\ y = IF z < 0 THEN -z ELSE 0
        BY <2>3 DEF Covered
      <4>4. Len(more.chain) = x + 1 /\ more.count = z + 1 /\ Len(more.queue) = y - 1
        BY <2>3, <3>2
      <4>5. /\ x + 1 >= card + (IF z + 1 > 0 THEN z + 1 ELSE 0)
            /\ y - 1 = IF z + 1 < 0 THEN -(z + 1) ELSE 0
        BY ONLY <4>2, <4>3
      <4> QED BY ONLY <4>4, <4>5 DEF Covered
    <3> QED BY <3>1, <3>2
  <2> QED BY <2>5 DEF card
<1>12. /\ granted' \subseteq [pid : Alive, pool : DOMAIN buftab] /\ IsFiniteSet(granted')
       /\ \A g : g.pool # k => (g \in granted' <=> g \in granted)
  <2>1. IsFiniteSet(granted) /\ granted \subseteq [pid : Alive, pool : DOMAIN buftab]
    BY DEF PoolInv, HeapTypes
  <2>2. CASE pool.queue = <<>>
    BY <1>4, <2>1, <2>2
  <2>3. CASE pool.queue # <<>>
    <3> DEFINE g == [pid |-> Head(pool.queue), pool |-> k]
    <3>1. granted' = granted \union {g} /\ g.pool = k /\ g \in [pid : Alive, pool : DOMAIN buftab]
      BY <1>1, <1>3, <1>4, <2>3
    <3> HIDE DEF g
    <3> QED BY <2>1, <3>1, FS_AddElement
  <2> QED BY <2>2, <2>3
<1>13. /\ lent' \subseteq [pool : DOMAIN buftab, addr : Int]
       /\ \A d : d.pool # k => (d \in lent' <=> d \in lent)
  BY <1>4 DEF PoolInv, HeapTypes
<1> HIDE DEF more, k, new
<1>14. Accounted(more, Out(k)') /\ ToSet(more.queue) \subseteq Alive
  BY <1>3, <1>7, <1>8
<1> QED BY <1>1, <1>4, <1>5, <1>7, <1>11, <1>12, <1>13, <1>14, OnePoolChanges

\* A new pool has all its buffers on the chain; without a semaphore there is none.
LEMMA MkbufpoolPools ==
  ASSUME PoolInv, NEW s \in PoolShapes, Mkbufpool(s)
  PROVE  PoolInv'
<1> DEFINE size == s.numbufs * (s.bufsiz + 1)
<1>1. size \in Int /\ s.numbufs \in Nat
  BY KernelHeapAssumption
<1> HIDE DEF size
<1> DEFINE r == getmem(free, size)
<1>2. free' = r.free /\ r.free \in Seq(Piece) /\ r.got \in Piece
  BY <1>1, RequestReturnsPieces DEF PoolInv, HeapTypes, Mkbufpool, Take, size
<1>3. UNCHANGED <<end, stacks, entries, lent, granted>> /\ Alive' = Alive
  BY DEF Mkbufpool, Alive
<1>4. CASE UNCHANGED buftab
  BY <1>2, <1>3, <1>4, PoolsUntouched DEF PoolInv, HeapTypes, WaitersLive
<1>5. CASE buftab' = Append(buftab, [mem |-> r.got, shape |-> s, chain |-> Buffers(r.got.addr, s),
                                     count |-> s.numbufs, queue |-> <<>>])
  <2> DEFINE chain == Buffers(r.got.addr, s)
  <2> DEFINE pool == [mem |-> r.got, shape |-> s, chain |-> chain, count |-> s.numbufs, queue |-> <<>>]
  <2> PICK new : new = Len(buftab) + 1
    OBVIOUS
  <2>1. chain \in Seq(Int) /\ Distinct(chain) /\ Len(chain) = s.numbufs
    BY <1>2, NewPool DEF Piece
  <2>2. pool \in Pool /\ buftab \in Seq(Pool)
    BY <1>1, <1>2, <2>1 DEF Pool, PoolInv, HeapTypes
  <2>3. Accounted(pool, {}) /\ Covered(pool, 0)
    <3> HIDE DEF r
    <3>1. pool.chain = chain /\ pool.shape = s /\ pool.mem = r.got /\ pool.queue = <<>>
          /\ pool.count = s.numbufs
      OBVIOUS
    <3> HIDE DEF pool
    <3>2. Accounted(pool, {})
      BY <1>1, <2>1, <3>1, FS_EmptySet DEF Accounted
    <3>3. Covered(pool, 0)
      BY <1>1, <2>1, <3>1 DEF Covered
    <3> QED BY <3>2, <3>3
  <2>4. buftab' = Append(buftab, pool) /\ pool.queue = <<>>
    BY <1>5
  <2> HIDE DEF pool, r
  <2>5. /\ buftab' \in Seq(Pool) /\ DOMAIN buftab' = DOMAIN buftab \union {new}
        /\ new \notin DOMAIN buftab /\ buftab'[new] = pool
        /\ \A k \in DOMAIN buftab : buftab'[k] = buftab[k]
    BY <2>2, <2>4
  <2>6. HeapTypes'
    BY <1>2, <1>3, <2>5 DEF PoolInv, HeapTypes
  <2>7. WaitersLive'
    <3> SUFFICES ASSUME NEW k \in DOMAIN buftab' PROVE ToSet(buftab'[k].queue) \subseteq Alive
      BY <1>3 DEF WaitersLive
    <3>1. ToSet(<<>>) = {}
      BY DEF ToSet
    <3> QED BY <2>4, <2>5, <3>1 DEF PoolInv, WaitersLive
  <2>8. Out(new)' = {} /\ Released(new)' = {} /\ Cardinality({}) = 0
    <3>1. \A d \in lent : d.pool # new
      BY <2>5 DEF PoolInv, HeapTypes
    <3>2. \A g \in granted : g.pool # new
      BY <2>5 DEF PoolInv, HeapTypes
    <3>3. Out(new)' = {}
      BY <1>3, <3>1 DEF Out
    <3>4. Released(new)' = {}
      BY <1>3, <3>2 DEF Released
    <3> QED BY <3>3, <3>4, FS_EmptySet
  <2>9. \A k : Out(k)' = Out(k) /\ Released(k)' = Released(k)
    BY <1>3 DEF Out, Released
  <2>10. AllAccounted'
    <3> SUFFICES ASSUME NEW k \in DOMAIN buftab' PROVE Accounted(buftab[k], Out(k))'
      BY DEF AllAccounted
    <3>1. CASE k = new
      BY <2>3, <2>5, <2>8, <3>1 DEF Accounted
    <3>2. CASE k # new
      <4>1. Accounted(buftab[k], Out(k))
        BY <2>5, <3>2 DEF PoolInv, AllAccounted
      <4> QED BY <2>5, <2>9, <3>2, <4>1 DEF Accounted
    <3> QED BY <3>1, <3>2
  <2>11. AllCovered'
    <3> SUFFICES ASSUME NEW k \in DOMAIN buftab'
                 PROVE  Covered(buftab[k], Cardinality(Released(k)))'
      BY DEF AllCovered
    <3>1. CASE k = new
      BY <2>3, <2>5, <2>8, <3>1 DEF Covered
    <3>2. CASE k # new
      <4>1. Covered(buftab[k], Cardinality(Released(k)))
        BY <2>5, <3>2 DEF PoolInv, AllCovered
      <4> QED BY <2>5, <2>9, <3>2, <4>1 DEF Covered
    <3> QED BY <3>1, <3>2
  <2> QED BY <2>6, <2>7, <2>10, <2>11 DEF PoolInv
<1> QED BY <1>4, <1>5 DEF Mkbufpool, size

----------------------------------------------------------------------------
\* Stacks and queue entries.

\* A new process waits for nothing.
LEMMA CreatePools ==
  ASSUME PoolInv, NEW n \in StackSizes, Create(n)
  PROVE  PoolInv'
<1> DEFINE m == IF n < MINSTK THEN MINSTK ELSE n
<1>1. m \in Int
  BY MemoryAssumption, KernelHeapAssumption
<1> HIDE DEF m
<1> DEFINE r == getstk(free, m)
<1>2. free' = r.free /\ r.free \in Seq(Piece) /\ r.got \in Piece
  BY <1>1, RequestReturnsPieces DEF PoolInv, HeapTypes, Create, Take, m
<1>3. UNCHANGED <<end, entries, buftab, lent, granted>>
  BY DEF Create, poolVars
<1>4. stacks' \in [Pid -> Piece] /\ Alive \subseteq Alive'
  <2>1. stacks \in [Pid -> Piece]
    BY DEF PoolInv, HeapTypes
  <2>2. CASE UNCHANGED stacks
    BY <2>1, <2>2 DEF Alive
  <2>3. CASE \E p \in Pid \ Alive : stacks' = [stacks EXCEPT ![p] = r.got]
    BY <1>2, <2>1, <2>3 DEF Alive
  <2> QED BY <2>2, <2>3 DEF Create, m
<1> QED BY <1>2, <1>3, <1>4, PoolsUntouched DEF PoolInv, HeapTypes, WaitersLive

\* A process killed between its release and its buffer leaves the buffer on the chain.
LEMMA KillPools ==
  ASSUME PoolInv, NEW p \in Pid, Kill(p)
  PROVE  PoolInv'
<1>1. free' \in Seq(Piece)
  <2>1. stacks[p] \in Piece /\ free \in Seq(Piece)
    BY DEF PoolInv, HeapTypes
  <2> QED BY <2>1, FreememReturnsPieces DEF Kill, Give
<1>2. UNCHANGED <<end, entries, buftab, lent>> /\ granted' = {g \in granted : g.pid # p}
  BY DEF Kill
<1>3. stacks' \in [Pid -> Piece] /\ Alive \ {p} \subseteq Alive'
  <2>1. stacks \in [Pid -> Piece] /\ NoStack \in Piece
    BY DEF PoolInv, HeapTypes, NoStack, block, Piece
  <2> QED BY <2>1 DEF Kill, Alive
<1>4. \A g \in granted' : g.pid \in Alive'
  BY <1>2, <1>3 DEF PoolInv, HeapTypes
<1>5. \A k \in DOMAIN buftab : ToSet(buftab[k].queue) \subseteq Alive'
  BY <1>3 DEF PoolInv, WaitersLive, Kill, Waiting
<1> QED BY <1>1, <1>2, <1>3, <1>4, <1>5, PoolsUntouched DEF PoolInv, HeapTypes

\* An entry of a queue comes out of the free list alone.
LEMMA EnqueuePools == PoolInv /\ Enqueue => PoolInv'
<1> SUFFICES ASSUME PoolInv, Enqueue PROVE PoolInv'
  OBVIOUS
<1> DEFINE r == getmem(free, ENTRY)
<1>1. free' = r.free /\ r.free \in Seq(Piece) /\ r.got \in Piece
  BY KernelHeapAssumption, RequestReturnsPieces DEF PoolInv, HeapTypes, Enqueue, Take
<1>2. UNCHANGED <<end, stacks, buftab, lent, granted>> /\ entries' = entries \union {r.got}
  BY DEF Enqueue, poolVars
<1>3. Alive' = Alive
  BY <1>2 DEF Alive
<1> QED BY <1>1, <1>2, <1>3, PoolsUntouched DEF PoolInv, HeapTypes, WaitersLive

\* And it goes back there.
LEMMA DequeuePools ==
  ASSUME PoolInv, NEW e \in entries, Dequeue(e)
  PROVE  PoolInv'
<1>1. free' \in Seq(Piece)
  <2>1. [e EXCEPT !.len = ENTRY] \in Piece /\ free \in Seq(Piece)
    <3>1. ENTRY \in Int /\ e \in Piece /\ free \in Seq(Piece)
      BY KernelHeapAssumption DEF PoolInv, HeapTypes
    <3> QED BY <3>1 DEF Piece
  <2> QED BY <2>1, FreememReturnsPieces DEF Dequeue, Give
<1>2. UNCHANGED <<end, stacks, buftab, lent, granted>> /\ entries' \subseteq entries
  BY DEF Dequeue, poolVars
<1>3. Alive' = Alive
  BY <1>2 DEF Alive
<1> QED BY <1>1, <1>2, <1>3, PoolsUntouched DEF PoolInv, HeapTypes, WaitersLive

\* Every step preserves the invariant.
LEMMA StepPools == PoolInv /\ [Next]_vars => PoolInv'
<1> SUFFICES ASSUME PoolInv, [Next]_vars PROVE PoolInv'
  OBVIOUS
<1>1. ASSUME NEW n \in StackSizes, Create(n) PROVE PoolInv'
  BY <1>1, CreatePools
<1>2. ASSUME NEW p \in Pid, Kill(p) PROVE PoolInv'
  BY <1>2, KillPools
<1>3. CASE Enqueue
  BY <1>3, EnqueuePools
<1>4. ASSUME NEW e \in entries, Dequeue(e) PROVE PoolInv'
  BY <1>4, DequeuePools
<1>5. ASSUME NEW s \in PoolShapes, Mkbufpool(s) PROVE PoolInv'
  BY <1>5, MkbufpoolPools
<1>6. ASSUME NEW p \in Pid, NEW k \in DOMAIN buftab, Getbuf(p, k) PROVE PoolInv'
  BY <1>6, GetbufPools
<1>7. ASSUME NEW p \in Pid, NEW k \in DOMAIN buftab, Nbgetbuf(p, k) PROVE PoolInv'
  BY <1>7, NbgetbufPools
<1>8. ASSUME NEW g \in granted, GetbufResumes(g) PROVE PoolInv'
  BY <1>8, GetbufResumesPools
<1>9. ASSUME NEW b \in lent, Freebuf(b) PROVE PoolInv'
  BY <1>9, FreebufPools
<1>10. CASE UNCHANGED vars
  <2>1. UNCHANGED <<end, free, stacks, entries, buftab, lent, granted>> /\ Alive' = Alive
    BY <1>10 DEF vars, poolVars, Alive
  <2> QED BY <2>1, PoolsUntouched DEF PoolInv, HeapTypes, WaitersLive
<1> QED BY <1>1, <1>2, <1>3, <1>4, <1>5, <1>6, <1>7, <1>8, <1>9, <1>10 DEF Next

----------------------------------------------------------------------------
\* So it holds in every state.
LEMMA PoolInvHolds == Spec => []PoolInv
BY InitPools, StepPools, PTL DEF Spec

\* The buffers of every pool are on its chain or lent, each once, and the chain has one for
\* every unit of the count and every process that has been released, so that getbuf never
\* takes from an empty chain (getbuf.c:31).
THEOREM PoolsAreSound == Spec => []PoolsSound
<1>1. PoolInv => PoolsSound
  BY DEF PoolInv, HeapTypes, AllAccounted, Accounted, AllCovered, Covered, PoolsSound, Out, Released
<1> QED BY <1>1, PoolInvHolds, PTL

\* No process waits for a buffer of a pool whose count is not negative (freebuf.c:34).
THEOREM NobodyWaitsInVain == Spec => []NobodyOverlooked
<1>1. PoolInv => NobodyOverlooked
  <2> SUFFICES ASSUME PoolInv, NEW k \in DOMAIN buftab, buftab[k].queue # <<>>
               PROVE  buftab[k].count < 0
    BY DEF NobodyOverlooked
  <2>1. buftab[k] \in Pool /\ Len(buftab[k].queue) = IF buftab[k].count < 0 THEN -buftab[k].count ELSE 0
    BY DEF PoolInv, HeapTypes, AllCovered, Covered
  <2>2. buftab[k].queue \in Seq(Pid) /\ buftab[k].count \in Int
    BY <2>1 DEF Pool
  <2>3. Len(buftab[k].queue) > 0
    BY <2>2
  <2> QED BY <2>1, <2>2, <2>3
<1> QED BY <1>1, PoolInvHolds, PTL

----------------------------------------------------------------------------
\* The memory of the heap.  Its owners are processes, queues, pools, and nobody for what is lost;
\* each of them has a slot.

\* The words that the heap has, on either side of the hole, and the list at boot.
Region == (end .. HOLESTART - 1) \union (HOLEEND .. MAXADDR - 1)
Boot   == getstk(InitialList(end), NULLSTK).free

StackSlots == {<<"stack", p, stacks[p]>> : p \in Alive}
EntrySlots == {<<"entry", e, e>> : e \in entries}
LostSlots  == {<<"lost", b, b>> : b \in lost}
PoolSlots  == {<<"pool", k, buftab[k].mem>> : k \in DOMAIN buftab}

Slots == StackSlots \union EntrySlots \union LostSlots \union PoolSlots

\* Every owner has a piece of its own, none of it free, and together with what is free the
\* pieces are all there was at boot.
OwnersApart ==
  /\ \A s \in Slots : s[3] \in Piece /\ WellCut(s[3]) /\ Words(s[3]) \subseteq Region \ Span(free)
  /\ \A s, t \in Slots : s # t => Words(s[3]) \cap Words(t[3]) = {}
  /\ Span(free) \union UNION {Words(s[3]) : s \in Slots} = Span(Boot)

\* What dequeue gives back is what enqueue was given.
EntriesCut == \A e \in entries : e.len = roundmb(ENTRY) /\ ENTRY # 0

\* memlist.mlength counts the free words.
Counts == mlength \in Int
            /\ (mlength + Cardinality(Span(InitialList(end)))) % W = Cardinality(Span(free))

MemInv ==
  /\ end \in Ends /\ short = FALSE /\ wild \in BOOLEAN
  /\ Tidy(free) /\ Span(free) \subseteq Region
  /\ Counts /\ EntriesCut
  /\ ~wild => OwnersApart

\* The constants as numbers.
LEMMA HeapFacts ==
  ASSUME NEW e \in Ends
  PROVE  /\ {W, HOLESTART, HOLEEND, MAXADDR, NULLSTK, e} \subseteq Nat
         /\ e > 0 /\ e <= HOLESTART - MB - 1 /\ HOLESTART < HOLEEND /\ HOLEEND + NULLSTK < MAXADDR
         /\ MAXADDR < W
         /\ Even(W) /\ Even(HOLESTART) /\ Even(HOLEEND) /\ Even(MAXADDR) /\ Even(NULLSTK)
BY MemoryAssumption, KernelHeapAssumption DEF Even, MB

\* A set of words of the heap is finite.
LEMMA RegionFinite ==
  ASSUME end \in Ends, NEW S, S \subseteq Region
  PROVE  /\ IsFiniteSet(S) /\ Cardinality(S) \in Nat /\ Cardinality(S) < W
         /\ S \subseteq 0 .. MAXADDR - 1
<1>1. S \subseteq 0 .. MAXADDR - 1
  BY HeapFacts DEF Region, MB
<1>2. IsFiniteSet(0 .. MAXADDR - 1) /\ Cardinality(0 .. MAXADDR - 1) = MAXADDR /\ MAXADDR < W
      /\ MAXADDR \in Nat /\ W \in Nat
  <2>1. MAXADDR \in Nat /\ W \in Nat /\ MAXADDR < W
    BY HeapFacts
  <2> PICK m : m = MAXADDR - 1
    OBVIOUS
  <2>2. IsFiniteSet(0 .. m) /\ Cardinality(0 .. m) = IF 0 > m THEN 0 ELSE m - 0 + 1
    BY <2>1, FS_Interval
  <2> QED BY <2>1, <2>2
<1>3. IsFiniteSet(S) /\ Cardinality(S) <= Cardinality(0 .. MAXADDR - 1) /\ Cardinality(S) \in Nat
  BY <1>1, <1>2, FS_Subset, FS_CardinalityType
<1> QED BY <1>1, <1>2, <1>3

\* A block has as many words as it is long.
LEMMA WordsCounted ==
  ASSUME NEW b \in Piece, b.len >= 0
  PROVE  IsFiniteSet(Words(b)) /\ Cardinality(Words(b)) = b.len
<1>1. b.addr \in Int /\ b.len \in Int
  BY PieceFacts
<1>2. b.addr + b.len - 1 \in Int
  BY <1>1
<1> PICK l, h : l = b.addr /\ h = b.addr + b.len - 1
  OBVIOUS
<1>3. IsFiniteSet(l .. h) /\ Cardinality(l .. h) = IF l > h THEN 0 ELSE h - l + 1
  BY <1>1, <1>2, FS_Interval
<1> QED BY <1>1, <1>2, <1>3 DEF Words

----------------------------------------------------------------------------
\* The list at boot.

\* sysinit makes two blocks, and takes a stack from them.
LEMMA InitialTidy ==
  ASSUME end \in Ends
  PROVE  Tidy(InitialList(end)) /\ Span(InitialList(end)) \subseteq Region
<1> PICK lo, hi : /\ lo = block(roundmb(end), truncmb(HOLESTART - end - 1))
                  /\ hi = block(HOLEEND, truncmb(MAXADDR - HOLEEND - NULLSTK))
  OBVIOUS
<1>1. InitialList(end) = <<lo, hi>>
  BY DEF InitialList
<1>2. /\ end \in Nat /\ W \in Nat /\ HOLESTART \in Nat /\ HOLEEND \in Nat /\ MAXADDR \in Nat
      /\ NULLSTK \in Nat /\ end > 0 /\ end <= HOLESTART - MB - 1 /\ HOLESTART < HOLEEND
      /\ HOLEEND + NULLSTK < MAXADDR /\ MAXADDR < W
  BY HeapFacts
<1>3. Even(HOLESTART) /\ Even(HOLEEND) /\ Even(MAXADDR) /\ Even(NULLSTK)
  BY HeapFacts
<1>4. roundmb(end) \in Nat /\ Even(roundmb(end)) /\ end <= roundmb(end) /\ roundmb(end) <= end + 1
  BY <1>2, Rounded DEF MB
<1> PICK a, l, m : /\ a = roundmb(end) /\ l = truncmb(HOLESTART - end - 1)
                   /\ m = truncmb(MAXADDR - HOLEEND - NULLSTK)
  OBVIOUS
<1>5. l \in Int /\ Even(l) /\ l <= HOLESTART - end - 1 /\ l > 0
  BY <1>2 DEF truncmb, Even, MB
<1>6. m \in Int /\ Even(m) /\ m <= MAXADDR - HOLEEND - NULLSTK /\ m > 0
  BY <1>2, <1>3 DEF truncmb, Even, MB
<1>7. lo \in Piece /\ WellCut(lo) /\ lo.addr = a /\ Past(lo) = a + l
  BY <1>2, <1>4, <1>5 DEF block, Piece, WellCut, Past
<1>8. hi \in Piece /\ WellCut(hi) /\ hi.addr = HOLEEND /\ Past(hi) = HOLEEND + m
  BY <1>2, <1>3, <1>6 DEF block, Piece, WellCut, Past
<1>9. end <= a /\ a + l <= HOLESTART /\ a + l < HOLEEND /\ HOLEEND + m <= MAXADDR
  BY <1>2, <1>4, <1>5, <1>6
<1> PICK s : s = <<lo, hi>>
  OBVIOUS
<1>10. s \in Seq(Piece) /\ DOMAIN s = {1, 2} /\ s[1] = lo /\ s[2] = hi
  BY <1>7, <1>8
<1>11. Tidy(s)
  <2>1. InOrder(s)
    BY <1>7, <1>8, <1>9, <1>10 DEF InOrder
  <2> QED BY <1>7, <1>8, <1>10, <2>1 DEF Tidy
<1>12. Span(s) = Words(lo) \union Words(hi)
  BY <1>10 DEF Span
<1>13. \A w : w \in Words(lo) <=> w \in Int /\ a <= w /\ w < a + l
  BY <1>7, WordsFacts
<1>14. \A w : w \in Words(hi) <=> w \in Int /\ HOLEEND <= w /\ w < HOLEEND + m
  BY <1>8, WordsFacts
<1>15. Words(lo) \union Words(hi) \subseteq Region
  BY <1>2, <1>4, <1>5, <1>6, <1>9, <1>13, <1>14 DEF Region
<1> QED BY <1>1, <1>11, <1>12, <1>15

\* The count m, which began c behind, stands for n words.
StandsFor(m, c, n) == m \in Int /\ (m + c) % W = n

\* The count follows a request.
LEMMA CountsDown ==
  ASSUME NEW m, NEW c \in Nat, NEW n \in Nat, NEW l \in 0 .. n, W \in Nat, n < W, StandsFor(m, c, n)
  PROVE  StandsFor((m - l) % W, c, n - l)
<1>7. m \in Int /\ (m + c) % W = n
  BY DEF StandsFor
<1> PICK x, y, z : x = m - l /\ y = m + c /\ z = -l
  OBVIOUS
<1>0. W \in Nat /\ W > 0 /\ x \in Int /\ y \in Int /\ z \in Int /\ c \in Int
  BY <1>7
<1>1. ((x % W) + c) % W = (x + c) % W
  BY ONLY <1>0, ModularSum
<1>2. x + c = y + z
  BY <1>7
<1>3. ((y % W) + z) % W = (y + z) % W
  BY ONLY <1>0, ModularSum
<1>4. n + (-l) = 0 * W + (n - l) /\ n - l \in 0 .. W - 1
  OBVIOUS
<1>5. (0 * W + (n - l)) % W = n - l
  BY <1>0, <1>4, OneRemainder
<1>6. (m - l) % W \in Int
  BY <1>0
<1> QED BY <1>1, <1>2, <1>3, <1>4, <1>5, <1>6, <1>7 DEF StandsFor

\* And what is given back.
LEMMA CountsUp ==
  ASSUME NEW m, NEW c \in Nat, NEW n \in Nat, NEW l \in Nat, W \in Nat, n + l < W, StandsFor(m, c, n)
  PROVE  StandsFor((m + l) % W, c, n + l)
<1>7. m \in Int /\ (m + c) % W = n
  BY DEF StandsFor
<1> PICK x, y : x = m + l /\ y = m + c
  OBVIOUS
<1>0. W \in Nat /\ W > 0 /\ x \in Int /\ y \in Int /\ l \in Int /\ c \in Int
  BY <1>7
<1>1. ((x % W) + c) % W = (x + c) % W
  BY ONLY <1>0, ModularSum
<1>2. x + c = y + l
  BY <1>7
<1>3. ((y % W) + l) % W = (y + l) % W
  BY ONLY <1>0, ModularSum
<1>4. n + l = 0 * W + (n + l) /\ n + l \in 0 .. W - 1
  OBVIOUS
<1>5. (0 * W + (n + l)) % W = n + l
  BY <1>0, <1>4, OneRemainder
<1>6. (m + l) % W \in Int
  BY <1>0
<1> QED BY <1>1, <1>2, <1>3, <1>4, <1>5, <1>6, <1>7 DEF StandsFor

----------------------------------------------------------------------------
\* The first state, and the effect of a request and of a return on the owners.

\* How many are left of a set, and how many a set gets.
LEMMA PartTaken ==
  ASSUME NEW S, IsFiniteSet(S), NEW T, T \subseteq S
  PROVE  Cardinality(S \ T) = Cardinality(S) - Cardinality(T) /\ Cardinality(T) <= Cardinality(S)
<1>1. S \cap T = T
  OBVIOUS
<1>2. Cardinality(S \ T) = Cardinality(S) - Cardinality(S \cap T)
  BY FS_Difference
<1>3. Cardinality(T) <= Cardinality(S)
  BY FS_Subset
<1> QED BY <1>1, <1>2, <1>3

\* No member is counted twice.
LEMMA PartAdded ==
  ASSUME NEW S, IsFiniteSet(S), NEW T, IsFiniteSet(T), S \cap T = {}
  PROVE  Cardinality(S \union T) = Cardinality(S) + Cardinality(T)
<1>1. Cardinality(S \cap T) = 0
  BY FS_EmptySet
<1>2. Cardinality(S \union T) = Cardinality(S) + Cardinality(T) - Cardinality(S \cap T)
  BY FS_Union
<1>3. Cardinality(S) \in Nat /\ Cardinality(T) \in Nat
  BY FS_CardinalityType
<1> QED BY <1>1, <1>2, <1>3

\* sysinit: nobody owns anything, and the count is behind by what was not added to it.
LEMMA InitMem == Init => MemInv
<1> SUFFICES ASSUME Init PROVE MemInv
  OBVIOUS
<1>1. end \in Ends /\ short = FALSE /\ wild = FALSE /\ entries = {} /\ lost = {} /\ buftab = <<>>
  BY DEF Init
<1> PICK list : list = InitialList(end)
  OBVIOUS
<1> PICK r : r = getstk(list, NULLSTK)
  OBVIOUS
<1>2. free = r.free /\ mlength = (0 - r.got.len) % W /\ Boot = r.free
  BY DEF Init, Boot
<1>3. Tidy(list) /\ Span(list) \subseteq Region
  BY <1>1, InitialTidy
<1>4. NULLSTK \in Nat /\ W \in Nat
  BY <1>1, HeapFacts
<1>5. IsFiniteSet(Span(list)) /\ Cardinality(Span(list)) \in Nat /\ Cardinality(Span(list)) < W
  BY <1>1, <1>3, RegionFinite
<1>6. /\ Tidy(r.free) /\ r.got.len \in 0 .. Cardinality(Span(list)) /\ Span(r.free) \subseteq Span(list)
      /\ Cardinality(Span(r.free)) = Cardinality(Span(list)) - r.got.len
  <2>1. CASE r.ok
    <3>1. /\ r.got \in Piece /\ r.got.len = roundmb(NULLSTK) /\ Words(r.got) \subseteq Span(list)
          /\ Tidy(r.free) /\ Span(r.free) = Span(list) \ Words(r.got)
      BY <1>3, <1>4, <2>1, RequestFacts
    <3>2. r.got.len >= 0 /\ r.got.len \in Int
      BY <1>4, <3>1, PieceFacts, Rounded
    <3>3. IsFiniteSet(Words(r.got)) /\ Cardinality(Words(r.got)) = r.got.len
      BY <3>1, <3>2, WordsCounted
    <3>4. /\ Cardinality(Span(list) \ Words(r.got)) = Cardinality(Span(list)) - Cardinality(Words(r.got))
          /\ Cardinality(Words(r.got)) <= Cardinality(Span(list))
      BY <1>5, <3>1, PartTaken
    <3> QED BY <1>5, <3>1, <3>2, <3>3, <3>4
  <2>2. CASE ~r.ok
    <3>1. r.free = list /\ r.got = block(0, 0)
      BY <2>2, RequestRefused
    <3>2. r.got.len = 0
      BY <3>1 DEF block
    <3> QED BY <1>3, <1>5, <3>1, <3>2
  <2> QED BY <2>1, <2>2
<1>7. Tidy(free) /\ Span(free) \subseteq Region
  BY <1>2, <1>3, <1>6
<1>8. Counts
  <2> PICK c, l : c = Cardinality(Span(list)) /\ l = r.got.len
    OBVIOUS
  <2>1. c \in Nat /\ c < W /\ l \in 0 .. c /\ 0 \in Int
    BY <1>5, <1>6
  <2>2. (0 + c) % W = c
    BY <1>4, <2>1
  <2>3. StandsFor(0, c, c)
    BY <2>2 DEF StandsFor
  <2>4. StandsFor((0 - l) % W, c, c - l)
    BY ONLY <1>4, <2>1, <2>3, CountsDown
  <2>5. (mlength + c) % W = c - l /\ mlength \in Int
    BY <1>2, <2>4 DEF StandsFor
  <2> QED BY <1>2, <1>6, <2>5 DEF Counts
<1>9. EntriesCut
  BY <1>1 DEF EntriesCut
<1>10. OwnersApart
  <2>1. Alive = {}
    BY DEF Init, Alive, NoStack
  <2>2. Slots = {}
    BY <1>1, <2>1 DEF Slots, StackSlots, EntrySlots, LostSlots, PoolSlots
  <2> QED BY <1>2, <2>2 DEF OwnersApart
<1> QED BY <1>1, <1>7, <1>8, <1>9, <1>10 DEF MemInv

\* A request cuts a piece from what is free, or, when it has wrapped, nothing.
LEMMA GrantFacts ==
  ASSUME MemInv, NEW n \in Nat, NEW r \in {getmem(free, n), getstk(free, n)}, Take(r, n), end' = end
  PROVE  /\ end' \in Ends /\ short' = FALSE /\ wild' \in BOOLEAN
         /\ Tidy(free') /\ Span(free') \subseteq Region /\ Counts'
         /\ Span(free') = Span(free) \ Words(r.got) /\ Words(r.got) \subseteq Span(free)
         /\ r.got \in Piece /\ r.got.len = roundmb(n) /\ n # 0
         /\ wild' = (r.got.len = 0)
         /\ ~wild' => WellCut(r.got)
<1>1. /\ end \in Ends /\ short = FALSE /\ Tidy(free) /\ Span(free) \subseteq Region /\ Counts
  BY DEF MemInv
<1>2. /\ r.ok /\ short' = (short \/ (r.got.len < n /\ n <= W - MB)) /\ free' = r.free
      /\ mlength' = (mlength - r.got.len) % W /\ wild' = (r.got.len = 0)
  BY DEF Take
<1>3. /\ r.got \in Piece /\ r.got.len = roundmb(n) /\ Even(r.got.addr) /\ n # 0
      /\ Words(r.got) \subseteq Span(free)
      /\ Tidy(r.free) /\ Span(r.free) = Span(free) \ Words(r.got)
  BY <1>1, <1>2, RequestFacts
<1>4. W \in Nat /\ MB = 2
  BY <1>1, HeapFacts DEF MB
<1>5. /\ r.got.len \in Int /\ r.got.len >= 0 /\ Even(r.got.len)
      /\ n <= W - MB => n <= r.got.len
  BY <1>3, <1>4, PieceFacts, Rounded
<1>6. short' = FALSE /\ wild' \in BOOLEAN
  <2>1. ~(r.got.len < n /\ n <= W - MB)
    BY <1>4, <1>5
  <2> QED BY <1>1, <1>2, <2>1, Zenon
<1>7. Counts'
  <2> PICK list : list = InitialList(end)
    OBVIOUS
  <2> PICK c, k, l : c = Cardinality(Span(list)) /\ k = Cardinality(Span(free)) /\ l = r.got.len
    OBVIOUS
  <2>1. c \in Nat
    BY <1>1, InitialTidy, RegionFinite
  <2>2. IsFiniteSet(Span(free)) /\ k \in Nat /\ k < W
    BY <1>1, RegionFinite
  <2>3. IsFiniteSet(Words(r.got)) /\ Cardinality(Words(r.got)) = l /\ l \in Int /\ l >= 0
    BY <1>3, <1>5, WordsCounted
  <2>4. Cardinality(Span(free) \ Words(r.got)) = k - l /\ l <= k
    BY <1>3, <2>2, <2>3, PartTaken
  <2>5. Cardinality(Span(free')) = k - l
    BY <1>2, <1>3, <2>4
  <2>6. l <= k
    BY <2>4
  <2>7. mlength \in Int /\ (mlength + c) % W = k
    BY <1>1 DEF Counts
  <2>8. l \in 0 .. k
    BY <2>2, <2>3, <2>6
  <2> PICK m : m = mlength
    OBVIOUS
  <2>12. m \in Int /\ (m + c) % W = k
    BY <2>7
  <2>9. (((m - l) % W) + c) % W = k - l /\ (m - l) % W \in Int
    <3>1. c \in Nat /\ k \in Nat /\ l \in 0 .. k /\ W \in Nat /\ k < W /\ StandsFor(m, c, k)
      BY <1>4, <2>1, <2>2, <2>8, <2>12 DEF StandsFor
    <3>2. StandsFor((m - l) % W, c, k - l)
      BY ONLY <3>1, CountsDown
    <3> QED BY <3>2 DEF StandsFor
  <2>10. (mlength' + c) % W = k - l /\ mlength' \in Int
    BY <1>2, <2>9
  <2>11. InitialList(end') = list
    OBVIOUS
  <2> QED BY <2>5, <2>10, <2>11 DEF Counts
<1>8. r.got.len > 0 => WellCut(r.got)
  BY <1>3, <1>5 DEF WellCut
<1>9. ~wild' => WellCut(r.got)
  <2>1. r.got.len # 0 => r.got.len > 0
    BY <1>5
  <2> QED BY <1>2, <1>8, <2>1, Zenon
<1>10. Tidy(free') /\ Span(free') = Span(free) \ Words(r.got) /\ Span(free') \subseteq Region
  BY <1>1, <1>2, <1>3
<1> QED BY <1>1, <1>2, <1>3, <1>6, <1>7, <1>9, <1>10, Zenon

\* What has been cut gets an owner.
LEMMA OwnersGrow ==
  ASSUME OwnersApart, end' = end, Span(free) \subseteq Region,
         NEW b \in Piece, WellCut(b), Words(b) \subseteq Span(free), Span(free') = Span(free) \ Words(b),
         NEW s, s[3] = b, Slots' = Slots \union {s}
  PROVE  OwnersApart'
<1>1. Region' = Region /\ Boot' = Boot
  BY DEF Region, Boot
<1>2. /\ \A t \in Slots : t[3] \in Piece /\ WellCut(t[3]) /\ Words(t[3]) \subseteq Region \ Span(free)
      /\ \A t, u \in Slots : t # u => Words(t[3]) \cap Words(u[3]) = {}
      /\ Span(free) \union UNION {Words(t[3]) : t \in Slots} = Span(Boot)
  BY DEF OwnersApart
<1>3. \A t \in Slots' : t[3] \in Piece /\ WellCut(t[3]) /\ Words(t[3]) \subseteq Region \ Span(free')
  BY <1>2
<1>4. \A t \in Slots : Words(t[3]) \cap Words(b) = {}
  BY <1>2
<1>5. \A t, u \in Slots' : t # u => Words(t[3]) \cap Words(u[3]) = {}
  BY <1>2, <1>4
<1>6. UNION {Words(t[3]) : t \in Slots'} = (UNION {Words(t[3]) : t \in Slots}) \union Words(b)
  OBVIOUS
<1>7. Span(free') \union UNION {Words(t[3]) : t \in Slots'} = Span(Boot)
  BY <1>2, <1>6
<1> QED BY <1>1, <1>3, <1>5, <1>7 DEF OwnersApart

\* What an owner has given back is free.
LEMMA OwnersShrink ==
  ASSUME OwnersApart, end' = end,
         NEW s \in Slots, Span(free') = Span(free) \union Words(s[3]), Slots' = Slots \ {s}
  PROVE  OwnersApart'
<1>1. Region' = Region /\ Boot' = Boot
  BY DEF Region, Boot
<1>2. /\ \A t \in Slots : t[3] \in Piece /\ WellCut(t[3]) /\ Words(t[3]) \subseteq Region \ Span(free)
      /\ \A t, u \in Slots : t # u => Words(t[3]) \cap Words(u[3]) = {}
      /\ Span(free) \union UNION {Words(t[3]) : t \in Slots} = Span(Boot)
  BY DEF OwnersApart
<1>3. \A t \in Slots' : t[3] \in Piece /\ WellCut(t[3]) /\ Words(t[3]) \subseteq Region \ Span(free')
  BY <1>2
<1>5. \A t, u \in Slots' : t # u => Words(t[3]) \cap Words(u[3]) = {}
  BY <1>2
<1>6. (UNION {Words(t[3]) : t \in Slots'}) \union Words(s[3]) = UNION {Words(t[3]) : t \in Slots}
  OBVIOUS
<1>7. Span(free') \union UNION {Words(t[3]) : t \in Slots'} = Span(Boot)
  BY <1>2, <1>6
<1> QED BY <1>1, <1>3, <1>5, <1>7 DEF OwnersApart

\* A piece that is given back where it was cut, with a length that rounds to its own.
LEMMA ReturnsSlot ==
  ASSUME MemInv, OwnersApart, NEW s \in Slots, NEW b \in Piece, b.len # 0, b.addr = s[3].addr,
         roundmb(b.len) = s[3].len, NEW r, r = freemem(free, end, b), Give(r), end' = end
  PROVE  /\ end' \in Ends /\ short' = FALSE /\ wild' \in BOOLEAN
         /\ Tidy(free') /\ Span(free') \subseteq Region /\ Counts'
         /\ Span(free') = Span(free) \union Words(s[3])
<1>1. /\ end \in Ends /\ short = FALSE /\ wild \in BOOLEAN /\ Tidy(free) /\ Span(free) \subseteq Region
      /\ Counts
  BY DEF MemInv
<1> PICK x : x = s[3]
  OBVIOUS
<1>2. x \in Piece /\ WellCut(x) /\ Words(x) \subseteq Region /\ Words(x) \cap Span(free) = {}
  BY DEF OwnersApart
<1>3. x = block(b.addr, roundmb(b.len))
  BY <1>2 DEF Piece, block
<1>4. end \in Nat /\ W \in Nat /\ MAXADDR \in Nat
  BY <1>1, HeapFacts
<1>5. x.addr \in Int /\ Past(x) \in Int /\ Past(x) = x.addr + x.len /\ x.addr < Past(x)
  BY <1>2, CutFacts
<1>6. end <= x.addr /\ Past(x) <= MAXADDR
  <2>1. x.addr \in Words(x) /\ Past(x) - 1 \in Words(x)
    BY <1>2, <1>5, WordsFacts
  <2>2. \A w \in Region : w \in Int /\ end <= w /\ w <= MAXADDR - 1
    BY <1>1, HeapFacts DEF Region, MB
  <2> QED BY <1>2, <1>4, <1>5, <2>1, <2>2
<1>7. /\ r.got.len = x.len /\ Tidy(r.free) /\ Span(r.free) = Span(free) \union Words(x)
  BY <1>1, <1>2, <1>3, <1>4, <1>6, ReturnFacts
<1>8. free' = r.free /\ mlength' = (mlength + r.got.len) % W /\ UNCHANGED <<short, wild>>
  BY DEF Give
<1>9. Span(free') \subseteq Region
  BY <1>1, <1>2, <1>7, <1>8
<1>10. Counts'
  <2> PICK list : list = InitialList(end)
    OBVIOUS
  <2> PICK c, k, l : c = Cardinality(Span(list)) /\ k = Cardinality(Span(free)) /\ l = x.len
    OBVIOUS
  <2>1. c \in Nat
    BY <1>1, InitialTidy, RegionFinite
  <2>2. IsFiniteSet(Span(free)) /\ k \in Nat
    BY <1>1, RegionFinite
  <2>3. l \in Nat /\ IsFiniteSet(Words(x)) /\ Cardinality(Words(x)) = l
    <3>1. x.len \in Int /\ x.len > 0
      BY <1>2, CutFacts DEF WellCut
    <3> QED BY <1>2, <3>1, WordsCounted
  <2>4. Span(free) \cap Words(x) = {}
    BY <1>2
  <2>5. Cardinality(Span(free) \union Words(x)) = k + l
    BY <2>2, <2>3, <2>4, PartAdded
  <2>6. Cardinality(Span(free')) = k + l
    BY <1>7, <1>8, <2>5
  <2>7. k + l < W
    BY <1>1, <1>9, <2>6, RegionFinite
  <2>8. mlength \in Int /\ (mlength + c) % W = k
    BY <1>1 DEF Counts
  <2> PICK m : m = mlength
    OBVIOUS
  <2>12. m \in Int /\ (m + c) % W = k
    BY <2>8
  <2>13. k \in Nat /\ l \in Nat
    BY <2>2, <2>3
  <2>9. (((m + l) % W) + c) % W = k + l /\ (m + l) % W \in Int
    <3>1. c \in Nat /\ k \in Nat /\ l \in Nat /\ W \in Nat /\ k + l < W /\ StandsFor(m, c, k)
      BY <1>4, <2>1, <2>7, <2>12, <2>13 DEF StandsFor
    <3>2. StandsFor((m + l) % W, c, k + l)
      BY ONLY <3>1, CountsUp
    <3> QED BY <3>2 DEF StandsFor
  <2>10. (mlength' + c) % W = k + l /\ mlength' \in Int
    BY <1>7, <1>8, <2>9
  <2>11. InitialList(end') = list
    OBVIOUS
  <2> QED BY <2>6, <2>10, <2>11 DEF Counts
<1> QED BY <1>1, <1>7, <1>8, <1>9, <1>10

----------------------------------------------------------------------------
\* The steps, by what they do to the owners.

\* The piece b gets an owner; a piece of nothing may be no stack at all.
Gains(b) == \/ \E s : s[3] = b /\ Slots' = Slots \union {s}
            \/ b = NoStack /\ Slots' = Slots

\* A piece is cut for a new owner.
GrantStep == \E n \in Nat : \E r \in {getmem(free, n), getstk(free, n)} :
  ~wild /\ Take(r, n) /\ end' = end /\ EntriesCut' /\ Gains(r.got)

\* An owner gives back its piece, where it was cut and with a length that rounds to its own.
ReturnStep == \E s \in Slots, b \in Piece :
  /\ ~wild /\ b.len # 0 /\ b.addr = s[3].addr /\ roundmb(b.len) = s[3].len
  /\ Give(freemem(free, end, b)) /\ end' = end /\ EntriesCut' /\ Slots' = Slots \ {s}

\* Owners and memory stay as they are.
QuietStep == UNCHANGED memVars /\ Slots' = Slots

\* Create cuts a stack for a process, or for nobody.
LEMMA CreateKind ==
  ASSUME PoolInv, MemInv, NEW n \in StackSizes, Create(n)
  PROVE  GrantStep
<1> PICK m : m = IF n < MINSTK THEN MINSTK ELSE n
  OBVIOUS
<1>1. m \in Nat
  BY HeapFacts, MemoryAssumption, KernelHeapAssumption
<1> PICK r : r = getstk(free, m)
  OBVIOUS
<1>2. /\ ~wild /\ Take(r, m) /\ end' = end
      /\ \/ \E p \in Pid \ Alive : stacks' = [stacks EXCEPT ![p] = r.got] /\ UNCHANGED lost
         \/ lost' = lost \union {r.got} /\ UNCHANGED stacks
      /\ UNCHANGED <<entries, buftab>>
  BY DEF Create, poolVars
<1>3. EntriesCut'
  BY <1>2 DEF MemInv, EntriesCut
<1>4. EntrySlots' = EntrySlots /\ PoolSlots' = PoolSlots
  BY <1>2 DEF EntrySlots, PoolSlots
<1>5. CASE lost' = lost \union {r.got} /\ UNCHANGED stacks
  <2> PICK s : s = <<"lost", r.got, r.got>>
    OBVIOUS
  <2>1. LostSlots' = LostSlots \union {s} /\ StackSlots' = StackSlots
    BY <1>5 DEF LostSlots, StackSlots, Alive
  <2>2. Slots' = Slots \union {s} /\ s[3] = r.got
    BY <1>4, <2>1 DEF Slots
  <2> QED BY <1>1, <1>2, <1>3, <2>2 DEF GrantStep, Gains
<1>6. CASE \E p \in Pid \ Alive : stacks' = [stacks EXCEPT ![p] = r.got] /\ UNCHANGED lost
  <2> PICK p \in Pid \ Alive : stacks' = [stacks EXCEPT ![p] = r.got] /\ UNCHANGED lost
    BY <1>6
  <2> PICK s : s = <<"stack", p, r.got>>
    OBVIOUS
  <2>1. stacks \in [Pid -> Piece] /\ LostSlots' = LostSlots
    BY DEF PoolInv, HeapTypes, LostSlots
  <2>2. CASE r.got = NoStack
    <3>1. stacks' = stacks
      BY <2>1, <2>2 DEF Alive
    <3>2. StackSlots' = StackSlots
      BY <3>1 DEF StackSlots, Alive
    <3>3. Slots' = Slots
      BY <1>4, <2>1, <3>2 DEF Slots
    <3> QED BY <1>1, <1>2, <1>3, <2>2, <3>3 DEF GrantStep, Gains
  <2>3. CASE r.got # NoStack
    <3>1. Alive' = Alive \union {p} /\ stacks'[p] = r.got /\ \A q \in Alive : stacks'[q] = stacks[q]
      BY <2>1, <2>3 DEF Alive
    <3>2. StackSlots' = StackSlots \union {s}
      BY <3>1 DEF StackSlots
    <3>3. Slots' = Slots \union {s} /\ s[3] = r.got
      BY <1>4, <2>1, <3>2 DEF Slots
    <3> QED BY <1>1, <1>2, <1>3, <3>3 DEF GrantStep, Gains
  <2> QED BY <2>2, <2>3
<1> QED BY <1>2, <1>5, <1>6

\* Kill gives back the stack that create was given.
LEMMA KillKind ==
  ASSUME PoolInv, MemInv, NEW p \in Pid, Kill(p)
  PROVE  ReturnStep
<1> PICK b : b = stacks[p]
  OBVIOUS
<1>1. /\ ~wild /\ p \in Alive /\ Give(freemem(free, end, b)) /\ stacks' = [stacks EXCEPT ![p] = NoStack]
      /\ end' = end /\ UNCHANGED <<entries, buftab, lost>>
  BY DEF Kill
<1> PICK s : s = <<"stack", p, b>>
  OBVIOUS
<1>2. OwnersApart /\ s \in Slots /\ s[3] = b
  BY <1>1 DEF MemInv, Slots, StackSlots
<1>3. b \in Piece /\ WellCut(b) /\ Words(b) \subseteq Region
  BY <1>2 DEF OwnersApart
<1>4. b.len # 0 /\ roundmb(b.len) = b.len
  <2>1. end \in Ends /\ W \in Nat
    BY HeapFacts DEF MemInv
  <2>2. b.len \in Int /\ b.len > 0 /\ Even(b.len)
    BY <1>3, CutFacts DEF WellCut
  <2>3. b.len = Cardinality(Words(b))
    BY <1>3, <2>2, WordsCounted
  <2>4. b.len < W
    BY <1>3, <2>1, <2>3, RegionFinite
  <2> QED BY <2>2, <2>4, Rounded
<1>5. EntriesCut'
  BY <1>1 DEF MemInv, EntriesCut
<1>6. Slots' = Slots \ {s}
  <2>1. stacks \in [Pid -> Piece]
    BY DEF PoolInv, HeapTypes
  <2>2. Alive' = Alive \ {p} /\ \A q \in Alive \ {p} : stacks'[q] = stacks[q]
    BY <1>1, <2>1 DEF Alive
  <2>3. StackSlots' = StackSlots \ {s}
    BY <2>2 DEF StackSlots
  <2>4. EntrySlots' = EntrySlots /\ LostSlots' = LostSlots /\ PoolSlots' = PoolSlots
    BY <1>1 DEF EntrySlots, LostSlots, PoolSlots
  <2>5. s \notin EntrySlots /\ s \notin LostSlots /\ s \notin PoolSlots
    BY DEF EntrySlots, LostSlots, PoolSlots
  <2> QED BY <2>3, <2>4, <2>5 DEF Slots
<1> QED BY <1>1, <1>2, <1>3, <1>4, <1>5, <1>6 DEF ReturnStep

\* An entry of a queue is the owner of its own piece.
LEMMA EnqueueKind == MemInv /\ Enqueue => GrantStep
<1> SUFFICES ASSUME MemInv, Enqueue PROVE GrantStep
  OBVIOUS
<1>1. ENTRY \in Nat
  BY KernelHeapAssumption
<1> PICK r : r = getmem(free, ENTRY)
  OBVIOUS
<1>2. /\ ~wild /\ Take(r, ENTRY) /\ end' = end /\ entries' = entries \union {r.got}
      /\ UNCHANGED <<stacks, buftab, lost>>
  BY DEF Enqueue, poolVars
<1>3. r.got.len = roundmb(ENTRY) /\ ENTRY # 0
  BY <1>1, <1>2, GrantFacts
<1>4. EntriesCut'
  BY <1>2, <1>3 DEF MemInv, EntriesCut
<1> PICK s : s = <<"entry", r.got, r.got>>
  OBVIOUS
<1>5. EntrySlots' = EntrySlots \union {s}
  BY <1>2 DEF EntrySlots
<1>6. StackSlots' = StackSlots /\ LostSlots' = LostSlots /\ PoolSlots' = PoolSlots
  BY <1>2 DEF StackSlots, Alive, LostSlots, PoolSlots
<1>7. Slots' = Slots \union {s} /\ s[3] = r.got
  BY <1>5, <1>6 DEF Slots
<1> QED BY <1>1, <1>2, <1>4, <1>7 DEF GrantStep, Gains

\* What is given back for an entry rounds to what was cut for it.
LEMMA DequeueKind ==
  ASSUME PoolInv, MemInv, NEW e \in entries, Dequeue(e)
  PROVE  ReturnStep
<1> PICK b : b = [e EXCEPT !.len = ENTRY]
  OBVIOUS
<1>1. /\ ~wild /\ Give(freemem(free, end, b)) /\ entries' = entries \ {e}
      /\ end' = end /\ UNCHANGED <<stacks, buftab, lost>>
  BY DEF Dequeue, poolVars
<1>2. b \in Piece /\ b.addr = e.addr /\ b.len = ENTRY
  <2>1. ENTRY \in Int /\ e \in Piece
    BY KernelHeapAssumption DEF PoolInv, HeapTypes
  <2> QED BY <2>1 DEF Piece
<1>3. roundmb(b.len) = e.len /\ b.len # 0
  BY <1>2 DEF MemInv, EntriesCut
<1> PICK s : s = <<"entry", e, e>>
  OBVIOUS
<1>4. s \in Slots /\ s[3] = e
  BY <1>1 DEF Slots, EntrySlots
<1>5. EntriesCut'
  BY <1>1 DEF MemInv, EntriesCut
<1>6. Slots' = Slots \ {s}
  <2>1. EntrySlots' = EntrySlots \ {s}
    BY <1>1 DEF EntrySlots
  <2>2. StackSlots' = StackSlots /\ LostSlots' = LostSlots /\ PoolSlots' = PoolSlots
    BY <1>1 DEF StackSlots, Alive, LostSlots, PoolSlots
  <2>3. s \notin StackSlots /\ s \notin LostSlots /\ s \notin PoolSlots
    BY DEF StackSlots, LostSlots, PoolSlots
  <2> QED BY <2>1, <2>2, <2>3 DEF Slots
<1> QED BY <1>1, <1>2, <1>3, <1>4, <1>5, <1>6 DEF ReturnStep

\* A pool owns its buffers' memory, or nobody does when there is no semaphore.
LEMMA MkbufpoolKind ==
  ASSUME PoolInv, MemInv, NEW q \in PoolShapes, Mkbufpool(q)
  PROVE  GrantStep
<1> PICK m : m = q.numbufs * (q.bufsiz + 1)
  OBVIOUS
<1>1. m \in Nat
  <2>1. q.numbufs \in Nat /\ q.bufsiz \in Nat
    BY KernelHeapAssumption
  <2> QED BY <2>1
<1> PICK r : r = getmem(free, m)
  OBVIOUS
<1>2. /\ ~wild /\ Take(r, m) /\ end' = end
      /\ \/ \E c, a, d : /\ buftab' = Append(buftab, [mem |-> r.got, shape |-> q, chain |-> c,
                                                       count |-> a, queue |-> d])
                         /\ UNCHANGED lost
         \/ lost' = lost \union {r.got} /\ UNCHANGED buftab
      /\ UNCHANGED <<entries, stacks>>
  BY DEF Mkbufpool
<1>3. EntriesCut'
  BY <1>2 DEF MemInv, EntriesCut
<1>4. EntrySlots' = EntrySlots /\ StackSlots' = StackSlots
  BY <1>2 DEF EntrySlots, StackSlots, Alive
<1>5. CASE lost' = lost \union {r.got} /\ UNCHANGED buftab
  <2> PICK s : s = <<"lost", r.got, r.got>>
    OBVIOUS
  <2>1. LostSlots' = LostSlots \union {s} /\ PoolSlots' = PoolSlots
    BY <1>5 DEF LostSlots, PoolSlots
  <2>2. Slots' = Slots \union {s} /\ s[3] = r.got
    BY <1>4, <2>1 DEF Slots
  <2> QED BY <1>1, <1>2, <1>3, <2>2 DEF GrantStep, Gains
<1>6. CASE \E c, a, d : /\ buftab' = Append(buftab, [mem |-> r.got, shape |-> q, chain |-> c,
                                                     count |-> a, queue |-> d])
                        /\ UNCHANGED lost
  <2> PICK x : /\ buftab' = Append(buftab, x) /\ x.mem = r.got /\ UNCHANGED lost
    BY <1>6
  <2> PICK k : k = Len(buftab) + 1
    OBVIOUS
  <2> PICK s : s = <<"pool", k, r.got>>
    OBVIOUS
  <2>1. buftab \in Seq(Pool)
    BY DEF PoolInv, HeapTypes
  <2>2. /\ DOMAIN buftab' = DOMAIN buftab \union {k} /\ buftab'[k] = x
        /\ \A j \in DOMAIN buftab : buftab'[j] = buftab[j]
    BY <2>1
  <2>3. PoolSlots' = PoolSlots \union {s} /\ LostSlots' = LostSlots
    BY <2>2 DEF PoolSlots, LostSlots
  <2>4. Slots' = Slots \union {s} /\ s[3] = r.got
    BY <1>4, <2>3 DEF Slots
  <2> QED BY <1>1, <1>2, <1>3, <2>4 DEF GrantStep, Gains
<1> QED BY <1>2, <1>5, <1>6

\* The steps that move only buffers.
BufferStep ==
  \/ \E p \in Pid, k \in DOMAIN buftab : Getbuf(p, k) \/ Nbgetbuf(p, k)
  \/ \E g \in granted : GetbufResumes(g)
  \/ \E b \in lent : Freebuf(b)

\* They leave the pools where they are.
LEMMA BufferSteps ==
  ASSUME PoolInv, BufferStep
  PROVE  /\ UNCHANGED memVars /\ DOMAIN buftab' = DOMAIN buftab
         /\ \A k \in DOMAIN buftab : buftab'[k].mem = buftab[k].mem
<1>1. /\ buftab \in Seq(Pool) /\ \A g \in granted : g.pool \in DOMAIN buftab
      /\ \A b \in lent : b.pool \in DOMAIN buftab
  BY DEF PoolInv, HeapTypes
<1>2. \A k \in DOMAIN buftab : buftab[k] \in Pool
  BY <1>1
<1>3. ASSUME NEW p \in Pid, NEW k \in DOMAIN buftab, Getbuf(p, k) \/ Nbgetbuf(p, k)
      PROVE  /\ UNCHANGED memVars /\ DOMAIN buftab' = DOMAIN buftab
             /\ \A j \in DOMAIN buftab : buftab'[j].mem = buftab[j].mem
  <2>1. UNCHANGED memVars
    BY <1>3 DEF Getbuf, Nbgetbuf
  <2> PICK tab : tab = [buftab EXCEPT ![k].count = @ - 1]
    OBVIOUS
  <2>2. DOMAIN tab = DOMAIN buftab /\ \A j \in DOMAIN buftab : tab[j].mem = buftab[j].mem
    BY <1>1, <1>2 DEF Pool
  <2>3. \/ buftab' = [tab EXCEPT ![k].chain = Tail(@)]
        \/ buftab' = [tab EXCEPT ![k].queue = Append(@, p)]
    BY <1>3 DEF Getbuf, Nbgetbuf, Unlink
  <2>4. tab[k] = [buftab[k] EXCEPT !.count = @ - 1]
    BY <1>1
  <2>5. buftab[k] \in Pool
    BY <1>2
  <2>6. [tab[k] EXCEPT !.chain = Tail(@)].mem = tab[k].mem
        /\ [tab[k] EXCEPT !.queue = Append(@, p)].mem = tab[k].mem
    BY <2>4, <2>5 DEF Pool
  <2> QED BY <1>1, <2>1, <2>2, <2>3, <2>6
<1>4. ASSUME NEW g \in granted, GetbufResumes(g)
      PROVE  /\ UNCHANGED memVars /\ DOMAIN buftab' = DOMAIN buftab
             /\ \A j \in DOMAIN buftab : buftab'[j].mem = buftab[j].mem
  BY <1>1, <1>2, <1>4 DEF GetbufResumes, Unlink, Pool
<1>5. ASSUME NEW b \in lent, Freebuf(b)
      PROVE  /\ UNCHANGED memVars /\ DOMAIN buftab' = DOMAIN buftab
             /\ \A j \in DOMAIN buftab : buftab'[j].mem = buftab[j].mem
  <2>1. UNCHANGED memVars
    BY <1>5 DEF Freebuf
  <2> PICK k, q, c, d : k = b.pool /\ c = <<b.addr>> \o buftab[k].chain /\ d = buftab[k].count + 1
                        /\ q = IF Releases(buftab[k]) THEN Tail(buftab[k].queue) ELSE buftab[k].queue
    OBVIOUS
  <2>2. k \in DOMAIN buftab /\ buftab[k] \in Pool
    BY <1>1, <1>2
  <2>3. buftab' = [buftab EXCEPT ![k] = [buftab[k] EXCEPT !.chain = c, !.count = d, !.queue = q]]
    BY <1>5, <2>2 DEF Freebuf, Pool
  <2>4. [buftab[k] EXCEPT !.chain = c, !.count = d, !.queue = q].mem = buftab[k].mem
    BY <2>2 DEF Pool
  <2> QED BY <1>1, <2>1, <2>2, <2>3, <2>4
<1> QED BY <1>3, <1>4, <1>5 DEF BufferStep

\* Every step is of one of the three kinds.
LEMMA StepKinds == PoolInv /\ MemInv /\ [Next]_vars => GrantStep \/ ReturnStep \/ QuietStep
<1> SUFFICES ASSUME PoolInv, MemInv, [Next]_vars PROVE GrantStep \/ ReturnStep \/ QuietStep
  OBVIOUS
<1>1. ASSUME NEW n \in StackSizes, Create(n) PROVE GrantStep
  BY <1>1, CreateKind
<1>2. ASSUME NEW p \in Pid, Kill(p) PROVE ReturnStep
  BY <1>2, KillKind
<1>3. CASE Enqueue
  BY <1>3, EnqueueKind
<1>4. ASSUME NEW e \in entries, Dequeue(e) PROVE ReturnStep
  BY <1>4, DequeueKind
<1>5. ASSUME NEW s \in PoolShapes, Mkbufpool(s) PROVE GrantStep
  BY <1>5, MkbufpoolKind
<1>6. CASE BufferStep \/ UNCHANGED vars
  <2>1. /\ UNCHANGED memVars /\ DOMAIN buftab' = DOMAIN buftab
        /\ \A k \in DOMAIN buftab : buftab'[k].mem = buftab[k].mem
    BY <1>6, BufferSteps DEF vars, poolVars, memVars
  <2>2. PoolSlots' = PoolSlots
    BY <2>1 DEF PoolSlots
  <2>3. StackSlots' = StackSlots /\ EntrySlots' = EntrySlots /\ LostSlots' = LostSlots
    BY <2>1 DEF memVars, StackSlots, Alive, EntrySlots, LostSlots
  <2> QED BY <2>1, <2>2, <2>3 DEF QuietStep, Slots
<1> QED BY <1>1, <1>2, <1>3, <1>4, <1>5, <1>6 DEF Next, BufferStep

----------------------------------------------------------------------------
\* The invariant is inductive.

\* A request that has wrapped leaves the processor wild, and then nothing is said of owners.
LEMMA GrantKeeps == MemInv /\ GrantStep => MemInv'
<1> SUFFICES ASSUME MemInv, GrantStep PROVE MemInv'
  OBVIOUS
<1> PICK n \in Nat : \E r \in {getmem(free, n), getstk(free, n)} :
           ~wild /\ Take(r, n) /\ end' = end /\ EntriesCut' /\ Gains(r.got)
  BY DEF GrantStep
<1> PICK r \in {getmem(free, n), getstk(free, n)} :
           ~wild /\ Take(r, n) /\ end' = end /\ EntriesCut' /\ Gains(r.got)
  OBVIOUS
<1>1. /\ end' \in Ends /\ short' = FALSE /\ wild' \in BOOLEAN
      /\ Tidy(free') /\ Span(free') \subseteq Region /\ Counts'
      /\ Span(free') = Span(free) \ Words(r.got) /\ Words(r.got) \subseteq Span(free)
      /\ r.got \in Piece /\ (~wild' => WellCut(r.got))
  BY GrantFacts
<1>2. Region' = Region
  BY DEF Region
<1>3. ASSUME ~wild' PROVE OwnersApart'
  <2>1. OwnersApart /\ Span(free) \subseteq Region
    BY DEF MemInv
  <2>2. WellCut(r.got) /\ r.got # NoStack
    BY <1>1, <1>3 DEF WellCut, NoStack, block
  <2>3. PICK s : s[3] = r.got /\ Slots' = Slots \union {s}
    BY <2>2 DEF Gains
  <2> QED BY <1>1, <2>1, <2>2, <2>3, OwnersGrow
<1> QED BY <1>1, <1>2, <1>3 DEF MemInv

\* What is given back joins what is free.
LEMMA ReturnKeeps == MemInv /\ ReturnStep => MemInv'
<1> SUFFICES ASSUME MemInv, ReturnStep PROVE MemInv'
  OBVIOUS
<1> PICK s \in Slots, b \in Piece :
      /\ ~wild /\ b.len # 0 /\ b.addr = s[3].addr /\ roundmb(b.len) = s[3].len
      /\ Give(freemem(free, end, b)) /\ end' = end /\ EntriesCut' /\ Slots' = Slots \ {s}
  BY DEF ReturnStep
<1>1. OwnersApart
  BY DEF MemInv
<1>2. /\ end' \in Ends /\ short' = FALSE /\ wild' \in BOOLEAN
      /\ Tidy(free') /\ Span(free') \subseteq Region /\ Counts'
      /\ Span(free') = Span(free) \union Words(s[3])
  BY <1>1, ReturnsSlot
<1>3. OwnersApart' /\ Region' = Region
  BY <1>1, <1>2, OwnersShrink DEF Region
<1> QED BY <1>2, <1>3 DEF MemInv

\* A step that touches no memory preserves what is said of it.
LEMMA QuietKeeps == MemInv /\ QuietStep => MemInv'
<1> SUFFICES ASSUME MemInv, QuietStep PROVE MemInv'
  OBVIOUS
<1>1. UNCHANGED <<end, free, mlength, stacks, entries, lost, short, wild>> /\ Slots' = Slots
  BY DEF QuietStep, memVars
<1>2. Region' = Region /\ Boot' = Boot
  BY <1>1 DEF Region, Boot
<1>3. Counts' /\ EntriesCut'
  BY <1>1 DEF MemInv, Counts, EntriesCut
<1>4. OwnersApart => OwnersApart'
  BY <1>1, <1>2 DEF OwnersApart
<1> QED BY <1>1, <1>2, <1>3, <1>4 DEF MemInv

\* So it holds in every state.
LEMMA MemInvHolds == Spec => []MemInv
<1>1. PoolInv /\ MemInv /\ [Next]_vars => MemInv'
  BY StepKinds, GrantKeeps, ReturnKeeps, QuietKeeps
<1> QED BY <1>1, InitMem, PoolInvHolds, PTL DEF Spec

----------------------------------------------------------------------------
\* What follows for the free list.

\* A request that does not wrap is given at least what it asked for (getmem.c:32).
THEOREM RequestsAreMet == Spec => []EnoughMemory
<1>1. MemInv => EnoughMemory
  BY DEF MemInv, EnoughMemory
<1> QED BY <1>1, MemInvHolds, PTL

\* The blocks of the free list lie in the order of their addresses and do not touch, inside the
\* heap and outside the hole, and memlist.mlength counts their words (freemem.c:41, :64, :75).
THEOREM FreeListIsSound == Spec => []FreeListSound
<1>1. MemInv => FreeListSound
  <2> SUFFICES ASSUME MemInv PROVE FreeListSound
    OBVIOUS
  <2>1. end \in Ends /\ Tidy(free) /\ Span(free) \subseteq Region /\ Counts
    BY DEF MemInv
  <2>2. /\ free \in Seq(Piece) /\ Len(free) \in Nat /\ DOMAIN free = 1 .. Len(free)
        /\ \A i \in DOMAIN free : free[i] \in Piece
    BY <2>1 DEF Tidy
  <2>3. \A i \in 1 .. Len(free) - 1 : free[i].addr + free[i].len < free[i + 1].addr
    <3> TAKE i \in 1 .. Len(free) - 1
    <3>1. i \in DOMAIN free /\ i + 1 \in DOMAIN free /\ i < i + 1
      BY <2>2
    <3> QED BY <2>1, <3>1 DEF Tidy, InOrder, Past
  <2>4. \A i \in DOMAIN free : free[i].addr % MB = 0 /\ free[i].len % MB = 0
    BY <2>1 DEF Tidy, WellCut, Even
  <2>5. Span(free) \cap (0 .. end - 1 \union HOLESTART .. HOLEEND - 1) = {}
    <3>1. /\ end \in Nat /\ HOLESTART \in Nat /\ HOLEEND \in Nat /\ HOLESTART < HOLEEND
          /\ end < HOLESTART
      BY <2>1, HeapFacts DEF MB
    <3>2. ASSUME NEW w \in Region PROVE w \notin 0 .. end - 1 /\ w \notin HOLESTART .. HOLEEND - 1
      <4>1. w \in Int /\ ((end <= w /\ w < HOLESTART) \/ HOLEEND <= w)
        BY <3>1, <3>2, HeapFacts DEF Region
      <4> QED BY <3>1, <4>1
    <3> QED BY <2>1, <3>2
  <2>6. Span(free) \subseteq 0 .. MAXADDR - 1
    BY <2>1, RegionFinite
  <2> QED BY <2>1, <2>3, <2>4, <2>5, <2>6 DEF FreeListSound, Counts
<1> QED BY <1>1, MemInvHolds, PTL

\* When all owners have gone the list is the one at boot, less what has been lost.
THEOREM EverythingComesBack == Spec => []AllComesBack
<1>1. MemInv => AllComesBack
  <2> SUFFICES ASSUME MemInv, Alive = {}, entries = {}, buftab = <<>>, ~wild
               PROVE  /\ Span(free) = Span(Boot) \ UNION {Words(b) : b \in lost}
                      /\ lost = {} => free = Boot
    BY DEF AllComesBack, Boot
  <2>1. Tidy(free) /\ OwnersApart /\ end \in Ends
    BY DEF MemInv
  <2>2. Slots = LostSlots
    BY DEF Slots, StackSlots, EntrySlots, PoolSlots
  <2>3. UNION {Words(s[3]) : s \in Slots} = UNION {Words(b) : b \in lost}
    <3>1. \A b \in lost : <<"lost", b, b>> \in Slots /\ <<"lost", b, b>>[3] = b
      BY <2>2 DEF LostSlots
    <3>2. \A s \in Slots : s[3] \in lost
      BY <2>2 DEF LostSlots
    <3>3. {Words(s[3]) : s \in Slots} = {Words(b) : b \in lost}
      BY <3>1, <3>2
    <3> QED BY <3>3
  <2>4. \A s \in Slots : Words(s[3]) \cap Span(free) = {}
    BY <2>1 DEF OwnersApart
  <2>5. (UNION {Words(s[3]) : s \in Slots}) \cap Span(free) = {}
    BY <2>4
  <2>6. Span(free) = Span(Boot) \ UNION {Words(b) : b \in lost}
    BY <2>1, <2>3, <2>5 DEF OwnersApart
  <2>7. Tidy(Boot)
    <3>1. Tidy(InitialList(end)) /\ NULLSTK \in Nat
      BY <2>1, InitialTidy, HeapFacts
    <3>2. CASE getstk(InitialList(end), NULLSTK).ok
      BY <3>1, <3>2, RequestFacts DEF Boot
    <3>3. CASE ~getstk(InitialList(end), NULLSTK).ok
      BY <3>1, <3>3, RequestRefused DEF Boot
    <3> QED BY <3>2, <3>3
  <2>8. lost = {} => Span(free) = Span(Boot)
    BY <2>6
  <2> QED BY <2>1, <2>6, <2>7, <2>8, SpanDetermines
<1> QED BY <1>1, MemInvHolds, PTL

----------------------------------------------------------------------------
\* The heap does what Allocator promises: a piece has one owner at a time.

\* The pieces held by owners are the slots' pieces, and pieces of nothing do not count.
LEMMA HeldPieces ==
  ASSUME NEW S, \A s \in S : s[3] \in Piece /\ s[3].len # 0,
         NEW T, \A b \in T : b \in Piece /\ b.len = 0,
         NEW O, O = {s[3] : s \in S} \union T
  PROVE  {Words(b) : b \in O \ {block(b.addr, 0) : b \in O}} = {Words(s[3]) : s \in S}
<1>1. \A b \in T : b = block(b.addr, 0) /\ b \in O
  BY DEF Piece, block
<1>2. \A s \in S : s[3] \in O /\ \A b \in O : s[3] # block(b.addr, 0)
  BY DEF block
<1> PICK P : P = O \ {block(b.addr, 0) : b \in O}
  OBVIOUS
<1>3. P = {s[3] : s \in S}
  BY <1>1, <1>2
<1>4. {Words(b) : b \in P} = {Words(s[3]) : s \in S}
  BY <1>3
<1> QED BY <1>4

Tagged(T, tag, D, f) == T = {<<tag, x, f[x]>> : x \in D}

\* The third part of a slot is its piece.
LEMMA TaggedPieces ==
  ASSUME NEW D, NEW f, NEW tag, NEW T, Tagged(T, tag, D, f)
  PROVE  {f[x] : x \in D} = {s[3] : s \in T}
<1>1. \A x \in D : <<tag, x, f[x]>> \in T /\ <<tag, x, f[x]>>[3] = f[x]
  BY DEF Tagged
<1>2. \A s \in T : \E x \in D : s[3] = f[x]
  BY DEF Tagged
<1> PICK I, J : I = {f[x] : x \in D} /\ J = {s[3] : s \in T}
  OBVIOUS
<1>3. I \subseteq J
  <2> SUFFICES ASSUME NEW v \in I PROVE v \in J
    OBVIOUS
  <2> PICK x \in D : v = f[x]
    OBVIOUS
  <2>1. \E s \in T : s[3] = v
    BY <1>1
  <2> QED BY <2>1
<1>4. J \subseteq I
  BY <1>2
<1> QED BY <1>3, <1>4

\* Every piece that is owned is in a slot.
LEMMA OwnedSlots == /\ Owned = {s[3] : s \in Slots}
                    /\ Owned' = {s[3] : s \in Slots'}
<1>1. Owned = {s[3] : s \in Slots}
  <2>1. {stacks[p] : p \in Alive} = {s[3] : s \in StackSlots}
    <3> PICK D, f, T : D = Alive /\ f = stacks /\ T = StackSlots
      OBVIOUS
    <3>1. Tagged(T, "stack", D, f)
      BY DEF StackSlots, Tagged
    <3>2. {f[p] : p \in D} = {s[3] : s \in T}
      BY ONLY <3>1, TaggedPieces
    <3> QED BY <3>2
  <2>2. {buftab[k].mem : k \in DOMAIN buftab} = {s[3] : s \in PoolSlots}
    <3> PICK D, f, T : /\ D = DOMAIN buftab /\ f = [k \in D |-> buftab[k].mem]
                       /\ T = PoolSlots
      OBVIOUS
    <3>1. Tagged(T, "pool", D, f)
      BY DEF PoolSlots, Tagged
    <3>2. {f[k] : k \in D} = {s[3] : s \in T}
      BY ONLY <3>1, TaggedPieces
    <3> QED BY <3>2
  <2>3. entries = {s[3] : s \in EntrySlots}
    <3>1. \A e \in entries : <<"entry", e, e>> \in EntrySlots /\ <<"entry", e, e>>[3] = e
      BY DEF EntrySlots
    <3>2. \A s \in EntrySlots : s[3] \in entries
      BY DEF EntrySlots
    <3> QED BY <3>1, <3>2
  <2>4. lost = {s[3] : s \in LostSlots}
    <3>1. \A b \in lost : <<"lost", b, b>> \in LostSlots /\ <<"lost", b, b>>[3] = b
      BY DEF LostSlots
    <3>2. \A s \in LostSlots : s[3] \in lost
      BY DEF LostSlots
    <3> QED BY <3>1, <3>2
  <2> QED BY <2>1, <2>2, <2>3, <2>4 DEF Owned, Slots
<1>2. Owned' = {s[3] : s \in Slots'}
  <2>1. {stacks'[p] : p \in Alive'} = {s[3] : s \in StackSlots'}
    <3> PICK D, f, T : D = Alive' /\ f = stacks' /\ T = StackSlots'
      OBVIOUS
    <3>1. Tagged(T, "stack", D, f)
      BY DEF StackSlots, Tagged
    <3>2. {f[p] : p \in D} = {s[3] : s \in T}
      BY ONLY <3>1, TaggedPieces
    <3> QED BY <3>2
  <2>2. {buftab'[k].mem : k \in DOMAIN buftab'} = {s[3] : s \in PoolSlots'}
    <3> PICK D, f, T : /\ D = DOMAIN buftab' /\ f = [k \in D |-> buftab'[k].mem]
                       /\ T = PoolSlots'
      OBVIOUS
    <3>1. Tagged(T, "pool", D, f)
      BY DEF PoolSlots, Tagged
    <3>2. {f[k] : k \in D} = {s[3] : s \in T}
      BY ONLY <3>1, TaggedPieces
    <3> QED BY <3>2
  <2>3. entries' = {s[3] : s \in EntrySlots'}
    <3>1. \A e \in entries' : <<"entry", e, e>> \in EntrySlots' /\ <<"entry", e, e>>[3] = e
      BY DEF EntrySlots
    <3>2. \A s \in EntrySlots' : s[3] \in entries'
      BY DEF EntrySlots
    <3> QED BY <3>1, <3>2
  <2>4. lost' = {s[3] : s \in LostSlots'}
    <3>1. \A b \in lost' : <<"lost", b, b>> \in LostSlots' /\ <<"lost", b, b>>[3] = b
      BY DEF LostSlots
    <3>2. \A s \in LostSlots' : s[3] \in lost'
      BY DEF LostSlots
    <3> QED BY <3>1, <3>2
  <2> QED BY <2>1, <2>2, <2>3, <2>4 DEF Owned, Slots
<1> QED BY <1>1, <1>2

Held == {Words(b) : b \in Owned \ {block(b.addr, 0) : b \in Owned}}

\* As long as the processor is not wild all owners hold something.
LEMMA SlotsHold ==
  ASSUME OwnersApart
  PROVE  /\ Held = {Words(s[3]) : s \in Slots}
         /\ \A s \in Slots : s[3] \in Piece /\ s[3].len # 0 /\ Words(s[3]) # {}
<1>1. \A s \in Slots : s[3] \in Piece /\ s[3].len # 0 /\ Words(s[3]) # {}
  <2> SUFFICES ASSUME NEW s \in Slots PROVE s[3] \in Piece /\ s[3].len # 0 /\ Words(s[3]) # {}
    OBVIOUS
  <2> PICK b : b = s[3]
    OBVIOUS
  <2>1. b \in Piece /\ WellCut(b)
    BY DEF OwnersApart
  <2>2. b.len \in Int /\ b.len > 0 /\ b.addr \in Int /\ b.addr < Past(b)
    BY <2>1, CutFacts DEF WellCut
  <2>3. b.addr \in Words(b)
    BY <2>1, <2>2, WordsFacts
  <2> QED BY <2>1, <2>2, <2>3
<1> PICK O, S, T : O = Owned /\ S = Slots /\ T = {}
  OBVIOUS
<1>2. O = {s[3] : s \in S} \union T
  BY OwnedSlots
<1>3. {Words(b) : b \in O \ {block(b.addr, 0) : b \in O}} = {Words(s[3]) : s \in S}
  BY <1>1, <1>2, HeldPieces
<1> QED BY <1>1, <1>3 DEF Held

\* A grant hands out a new piece, or nothing.
LEMMA GrantHands ==
  ASSUME MemInv, GrantStep
  PROVE  \/ \E piece \in Held' \ Held :
              /\ piece # {} /\ piece \subseteq Span(free) /\ Span(free)' = Span(free) \ piece
              /\ Held' = Held \union {piece}
         \/ Span(free)' = Span(free) /\ Held' = Held
<1> PICK n \in Nat : \E r \in {getmem(free, n), getstk(free, n)} :
           ~wild /\ Take(r, n) /\ end' = end /\ Gains(r.got)
  BY DEF GrantStep
<1> PICK r \in {getmem(free, n), getstk(free, n)} :
           ~wild /\ Take(r, n) /\ end' = end /\ Gains(r.got)
  OBVIOUS
<1>1. /\ Span(free') = Span(free) \ Words(r.got) /\ Words(r.got) \subseteq Span(free)
      /\ r.got \in Piece /\ wild' = (r.got.len = 0) /\ (~wild' => WellCut(r.got))
  BY GrantFacts
<1>2. /\ OwnersApart /\ Held = {Words(s[3]) : s \in Slots}
      /\ \A s \in Slots : s[3] \in Piece /\ s[3].len # 0 /\ Words(s[3]) # {}
      /\ \A s \in Slots : Words(s[3]) \cap Span(free) = {}
  BY SlotsHold DEF MemInv, OwnersApart
<1> PICK O : O = Owned'
  OBVIOUS
<1>3. Held' = {Words(b) : b \in O \ {block(b.addr, 0) : b \in O}} /\ O = {s[3] : s \in Slots'}
  BY OwnedSlots DEF Held
<1>4. CASE r.got.len = 0
  <2>1. Words(r.got) = {}
    BY <1>1, <1>4 DEF Words, Piece
  <2>2. \E T : (\A b \in T : b \in Piece /\ b.len = 0) /\ O = {s[3] : s \in Slots} \union T
    <3>1. CASE Slots' = Slots
      <4>1. O = {s[3] : s \in Slots} \union {}
        BY <1>3, <3>1
      <4> QED BY <4>1
    <3>2. CASE \E s : s[3] = r.got /\ Slots' = Slots \union {s}
      <4>1. O = {s[3] : s \in Slots} \union {r.got}
        BY <1>3, <3>2
      <4>2. \A b \in {r.got} : b \in Piece /\ b.len = 0
        BY <1>1, <1>4
      <4> QED BY <4>1, <4>2
    <3> QED BY <3>1, <3>2 DEF Gains
  <2>3. Held' = Held
    BY <1>2, <1>3, <2>2, HeldPieces
  <2> QED BY <1>1, <2>1, <2>3
<1>5. CASE r.got.len # 0
  <2>1. PICK s : s[3] = r.got /\ Slots' = Slots \union {s}
    BY <1>5 DEF Gains, NoStack, block
  <2>2. /\ \A t \in Slots' : t[3] \in Piece /\ t[3].len # 0
        /\ O = {t[3] : t \in Slots'} \union {}
    BY <1>1, <1>2, <1>3, <1>5, <2>1
  <2>3. Held' = {Words(t[3]) : t \in Slots'}
    BY <1>3, <2>2, HeldPieces
  <2>4. Held' = Held \union {Words(r.got)}
    BY <1>2, <2>1, <2>3
  <2>5. Words(r.got) # {}
    <3>1. WellCut(r.got)
      BY <1>1, <1>5
    <3>2. r.got.addr \in Words(r.got)
      BY <1>1, <3>1, CutFacts, WordsFacts
    <3> QED BY <3>2
  <2>6. Words(r.got) \notin Held
    BY <1>1, <1>2, <2>5
  <2> QED BY <1>1, <2>4, <2>5, <2>6
<1> QED BY <1>4, <1>5

\* A return takes back the piece of one owner.
LEMMA ReturnTakes ==
  ASSUME MemInv, ReturnStep
  PROVE  \E piece \in Held : Span(free)' = Span(free) \union piece /\ Held' = Held \ {piece}
<1> PICK s \in Slots, b \in Piece :
      /\ ~wild /\ b.len # 0 /\ b.addr = s[3].addr /\ roundmb(b.len) = s[3].len
      /\ Give(freemem(free, end, b)) /\ end' = end /\ EntriesCut' /\ Slots' = Slots \ {s}
  BY DEF ReturnStep
<1>1. OwnersApart
  BY DEF MemInv
<1>2. /\ Held = {Words(t[3]) : t \in Slots}
      /\ \A t \in Slots : t[3] \in Piece /\ t[3].len # 0 /\ Words(t[3]) # {}
  BY <1>1, SlotsHold
<1>3. Span(free') = Span(free) \union Words(s[3])
  BY <1>1, ReturnsSlot
<1> PICK O : O = Owned'
  OBVIOUS
<1>4. Held' = {Words(c) : c \in O \ {block(c.addr, 0) : c \in O}} /\ O = {t[3] : t \in Slots'}
  BY OwnedSlots DEF Held
<1>5. /\ \A t \in Slots' : t[3] \in Piece /\ t[3].len # 0
      /\ O = {t[3] : t \in Slots'} \union {}
  BY <1>2, <1>4
<1>6. Held' = {Words(t[3]) : t \in Slots'}
  BY <1>4, <1>5, HeldPieces
<1>7. \A t \in Slots : t # s => Words(t[3]) # Words(s[3])
  BY <1>1, <1>2 DEF OwnersApart
<1>8. Held' = Held \ {Words(s[3])}
  BY <1>2, <1>6, <1>7
<1> QED BY <1>2, <1>3, <1>8

\* The owners of kernel memory implement the promise of Allocator (getmem.c, getstk.c,
\* freemem.c with their callers): what is handed out was free and belongs to nobody else, and
\* comes back once and whole.
THEOREM ImplementsAllocator == Spec => OneOwner
<1>1. Init => Held = {}
  BY DEF Init, Held, Owned, Alive, NoStack
<1>2. PoolInv /\ MemInv /\ [Next]_vars => [Promise!AllocNext]_<<Span(free), Held>>
  <2> SUFFICES ASSUME PoolInv, MemInv, [Next]_vars PROVE [Promise!AllocNext]_<<Span(free), Held>>
    OBVIOUS
  <2>1. CASE GrantStep
    BY <2>1, GrantHands DEF Promise!AllocNext, Promise!Hand, Held
  <2>2. CASE ReturnStep
    BY <2>2, ReturnTakes DEF Promise!AllocNext, Promise!Return, Held
  <2>3. CASE QuietStep
    BY <2>3, OwnedSlots DEF QuietStep, memVars, Held
  <2> QED BY <2>1, <2>2, <2>3, StepKinds
<1> QED BY <1>1, <1>2, PoolInvHolds, MemInvHolds, PTL
    DEF Spec, OneOwner, Promise!AllocSpec, Promise!AllocInit, Held
====
