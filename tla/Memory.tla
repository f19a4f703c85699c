------------------------------- MODULE Memory -------------------------------
(***************************************************************************)
(* The free list of the kernel: getmem.c, getstk.c, freemem.c and the list *)
(* that sysinit makes.  A list is the sequence of its blocks, in the order *)
(* of the links; memory is counted in words of four bytes, and a memblk is *)
(* two of them.  An address or a size wraps at W words.                    *)
(***************************************************************************)
EXTENDS Integers, SequencesExt, FiniteSetsExt

CONSTANTS
  W,                  \* words in the address space (2^30)
  HOLESTART, HOLEEND, \* the hole of a PC's memory
  MAXADDR, NULLSTK

MB == 2               \* words in a memblk

ASSUME MemoryAssumption ==
  /\ {W, HOLESTART, HOLEEND, MAXADDR, NULLSTK} \subseteq Nat
  /\ HOLESTART < HOLEEND /\ HOLEEND + NULLSTK < MAXADDR /\ MAXADDR < W
  /\ \A n \in {W, HOLESTART, HOLEEND, MAXADDR, NULLSTK} : n % MB = 0

truncmb(x) == x - (x % MB)

\* Faulty variant: a request is rounded down.
RoundsDown(x) == truncmb(x % W)

\* The sum wraps before it is truncated: the largest request becomes 0.
roundmb(x) == truncmb((x + MB - 1) % W)

block(a, n) == [addr |-> a, len |-> n]
Words(b)    == b.addr .. b.addr + b.len - 1
Span(free)  == UNION {Words(free[i]) : i \in DOMAIN free}

\* The two blocks that sysinit makes round the hole, for a program that ends at end.
InitialList(end) ==
  << block(roundmb(end), truncmb(HOLESTART - end - 1)),
     block(HOLEEND, truncmb(MAXADDR - HOLEEND - NULLSTK)) >>

----------------------------------------------------------------------------
\* What a request returns: a block, or SYSERR; and the list it leaves.
Granted(b, free) == [ok |-> TRUE, got |-> b, free |-> free]
Refused(free)    == [ok |-> FALSE, got |-> block(0, 0), free |-> free]

Fitting(free, n) == {i \in DOMAIN free : free[i].len >= n}

\* getmem: the bottom of the first block that fits.
getmem(free, nbytes) ==
  LET n == roundmb(nbytes)  i == Min(Fitting(free, n))  b == free[i]
  IN  IF nbytes = 0 \/ Fitting(free, n) = {} THEN Refused(free)
      ELSE Granted(block(b.addr, n),
             IF b.len = n THEN RemoveAt(free, i)
             ELSE [free EXCEPT ![i] = block(b.addr + n, b.len - n)])

\* getstk: the top of the last block that fits.
getstk(free, nbytes) ==
  LET n == roundmb(nbytes)  i == Max(Fitting(free, n))  b == free[i]
  IN  IF nbytes = 0 \/ Fitting(free, n) = {} THEN Refused(free)
      ELSE Granted(block(b.addr + b.len - n, n),
             IF b.len = n THEN RemoveAt(free, i)
             ELSE [free EXCEPT ![i] = block(b.addr, b.len - n)])

\* Faulty variant: a block is not joined with the one that follows it.
JoinsBelow(free, i, b) ==
  LET below == i > 0 /\ free[i].addr + free[i].len = b.addr
      lo    == IF below THEN free[i] ELSE b
      size  == b.len + (IF below THEN free[i].len ELSE 0)
  IN  SubSeq(free, 1, IF below THEN i - 1 ELSE i) \o <<block(lo.addr, size)>>
        \o SubSeq(free, i + 1, Len(free))

\* The list with b between its blocks i and i + 1, joined with those it touches.
Joined(free, i, b) ==
  LET below == i > 0 /\ free[i].addr + free[i].len = b.addr
      above == i < Len(free) /\ b.addr + b.len = free[i + 1].addr
      lo    == IF below THEN free[i] ELSE b
      size  == b.len + (IF below THEN free[i].len ELSE 0)
                     + (IF above THEN free[i + 1].len ELSE 0)
  IN  SubSeq(free, 1, IF below THEN i - 1 ELSE i) \o <<block(lo.addr, size)>>
        \o SubSeq(free, IF above THEN i + 2 ELSE i + 1, Len(free))

\* freemem refuses a block that is empty, outside the heap or partly free.
freemem(free, end, b) ==
  LET n == roundmb(b.len)
      i == Cardinality({k \in DOMAIN free : free[k].addr < b.addr})
      overlaps == \/ i > 0 /\ b.addr < free[i].addr + free[i].len
                  \/ i < Len(free) /\ (b.addr + n) % W > free[i + 1].addr
  IN  IF b.len = 0 \/ b.addr < end \/ b.addr > MAXADDR \/ overlaps THEN Refused(free)
      ELSE [Granted(b, Joined(free, i, block(b.addr, n))) EXCEPT !.got.len = n]
=============================================================================
