------------------------------ MODULE Library ------------------------------
(***************************************************************************)
(* The C library at work.  A process does one of four jobs: it sorts an    *)
(* array, copies texts between two buffers, prints a value and reads it    *)
(* back, or scans a text.                                                  *)
(***************************************************************************)
EXTENDS Strings, Scan, Qsort

CONSTANTS
  Chars, Room, SrcRoom,    \* the buffers: what they hold, and how much
  Prints,                  \* the conversions that are printed
  Texts, Formats           \* what is scanned, and how

\* A character is a signed byte.  There is room for as much as is copied.
ASSUME BuffersAssumption ==
  /\ Room \in Nat /\ SrcRoom \in 0 .. Room
  /\ Chars \subseteq -128 .. 127 /\ NUL \in Chars

\* printf and scanf know these conversions; %s is given a text.
ASSUME ConversionsAssumption ==
  /\ \A p \in Prints :
       /\ p.f \in {"d", "u", "o", "x", "X", "b", "h", "H", "c", "s"}
       /\ p.fmin \in Int /\ p.fmax \in Int
       /\ p.f = "s" => p.arg \in Seq(Int)
  /\ Texts \subseteq Seq(Int) /\ Formats \subseteq Seq(Directives)

VARIABLES
  job,
  dst, src, call,          \* the buffers, and the last copy with what dst held before it
  print, text, scanned     \* the conversion printed, its text, and what a scan returned

copyVars  == <<dst, src, call>>
printVars == <<print, text, scanned>>
vars == <<job, sortVars, copyVars, printVars>>

None == [none |-> TRUE]
NoSort == /\ input = <<>> /\ arr = <<>> /\ stack = <<>> /\ pc = "done"
          /\ a = 0 /\ l = 0 /\ i = 0 /\ j = 0 /\ lp = 0 /\ hp = 0
NoCopy  == dst = <<>> /\ src = <<>> /\ call = None
NoPrint == print = None /\ text = <<>> /\ scanned = None

Init ==
  \/ job = "sort"  /\ SortInit /\ NoCopy /\ NoPrint
  \/ /\ job = "copy" /\ NoSort /\ NoPrint /\ call = None
     /\ dst = Fill(Room, NUL) /\ src \in [1 .. SrcRoom -> Chars]
  \/ job = "print" /\ print \in Prints /\ text = <<>> /\ scanned = None /\ NoSort /\ NoCopy
  \/ job = "scan"  /\ text \in Texts /\ print = None /\ scanned = None /\ NoSort /\ NoCopy

Sorting == job = "sort" /\ SortStep /\ UNCHANGED <<job, copyVars, printVars>>

----------------------------------------------------------------------------
\* The copies.  The caller gives texts that end, and has room for the result.
Copied(op, n, result) ==
  /\ job = "copy" /\ dst' = result /\ call' = [op |-> op, n |-> n, before |-> dst]
  /\ UNCHANGED <<job, src, sortVars, printVars>>

Strcpy == Terminated(src) /\ strlen(src) < Room /\ Copied("strcpy", 0, strcpy(dst, src))
Strncpy ==
  \E n \in 0 .. SrcRoom : Copied("strncpy", n, strncpy(dst, src, n))
Strncat ==
  \E n \in 0 .. SrcRoom :
    /\ Terminated(dst) /\ Terminated(src) /\ strlen(dst) + strnlen(src, n) < Room
    /\ Copied("strncat", n, strncat(dst, src, n))
Memcpy == \E n \in 0 .. SrcRoom : Copied("memcpy", n, memcpy(dst, src, n))
Memset == \E n \in 0 .. Room, c \in Chars : Copied("memset", n, memset(dst, c, n))
Bzero  == \E n \in 0 .. Room : Copied("bzero", n, bzero(dst, n))

Scanned(fmt) ==
  LET end == _doscan(text, fmt)
  IN  [fmt |-> fmt, pos |-> end.pos, stored |-> end.stored, result |-> end.result]

\* A conversion is printed by sprintf, or by kprintf if only that has it.
OfKprintf == {"h", "H"}

Printing ==
  /\ job = "print" /\ text = <<>> /\ scanned = None /\ print.f \notin OfKprintf
  /\ text' = _fdoprnt(print.f, print.arg, print.leftjust, print.zero, print.fmin, print.fmax)
  /\ UNCHANGED <<job, print, scanned, sortVars, copyVars>>

Kprinting ==
  /\ job = "print" /\ text = <<>> /\ scanned = None /\ print.f \in OfKprintf
  /\ text' = _doprnt(print.f, print.arg, print.leftjust, print.zero, print.fmin, print.fmax)
  /\ UNCHANGED <<job, print, scanned, sortVars, copyVars>>

\* The text is scanned with the conversion that printed it.
ReadBack ==
  /\ job = "print" /\ text # <<>> /\ scanned = None
  /\ print.f \in {"d", "o", "x", "s", "c"}
  /\ scanned' = Scanned(<<Conversion(print.f, NoWidth, TRUE)>>)
  /\ UNCHANGED <<job, print, text, sortVars, copyVars>>

Scanning ==
  /\ job = "scan" /\ scanned = None
  /\ \E fmt \in Formats : scanned' = Scanned(fmt)
  /\ UNCHANGED <<job, print, text, sortVars, copyVars>>

Next ==
  \/ Sorting \/ Strcpy \/ Strncpy \/ Strncat \/ Memcpy \/ Memset \/ Bzero
  \/ Printing \/ Kprinting \/ ReadBack \/ Scanning

Spec == Init /\ [][Next]_vars /\ WF_vars(Sorting)
----------------------------------------------------------------------------
\* A sort ends: none of the two loops of qs1 goes round for ever (qsort.c:54).
SortEnds == <>(job = "sort" => pc = "done")

\* The comparisons and searches agree with each other on every two texts: equal for strcmp
\* is equal up to any length for strncmp and equal bytes for memcmp, in the same order; the
\* first and the last place of a character hold it and nothing outside them does; and
\* strstr finds the first place that strncmp finds equal (string.h).
StringsAgree ==
  job = "copy" /\ Terminated(dst) /\ Terminated(src) =>
    /\ strcmp(dst, src) = -strcmp(src, dst)
    /\ \A n \in 0 .. SrcRoom :
         /\ (strncmp(dst, src, n) = 0) <=>
              LET k == strnlen(src, n) IN memcmp(dst, src, k) = 0 /\ strnlen(dst, n) = k
         /\ n > strlen(src) => Signum(strncmp(dst, src, n)) = strcmp(dst, src)
    /\ \A c \in Chars \ {NUL} :
         LET p == strchr(dst, c)  q == strrchr(dst, c) IN
         /\ (p = NULL) <=> (q = NULL)
         /\ p # NULL => p <= q /\ dst[p] = c /\ dst[q] = c
         /\ c > 0 => memchr(dst, c, Room) = p
    /\ LET p == strstr(dst, src)
           Here(k) == strlen(src) > 0 /\ k \in InText(dst) /\
                      strncmp(SubSeq(dst, k, Room), src, strlen(src)) = 0
       IN  /\ p # NULL => Here(p)
           /\ \A k \in InText(dst) : Here(k) => p # NULL /\ p <= k

\* Each copy does what its name says and touches nothing else: the copied part compares
\* equal, strncat keeps the text that was there and ends the new one, and the memory behind
\* what was to be written is as it was (strcpy.c, strncpy.c, strncat.c, memcpy.c, memset.c).
CopiesKeepTheRest ==
  job = "copy" /\ call # None =>
    LET n == call.n  old == call.before
        KeptBehind(m) == \A k \in m + 1 .. Room : dst[k] = old[k]
    IN  CASE call.op = "strcpy"  -> strcmp(dst, src) = 0 /\ KeptBehind(strlen(src) + 1)
          [] call.op = "strncpy" -> /\ strncmp(dst, src, n) = 0 /\ KeptBehind(n)
                                    /\ \A k \in strnlen(src, n) + 1 .. n : dst[k] = NUL
          [] call.op = "strncat" -> /\ strncmp(dst, old, strlen(old)) = 0
                                    /\ strlen(dst) = strlen(old) + strnlen(src, n)
                                    /\ strncmp(SubSeq(dst, strlen(old) + 1, Room), src,
                                               strnlen(src, n)) = 0
                                    /\ KeptBehind(strlen(dst) + 1)
          [] call.op = "memcpy"  -> memcmp(dst, src, n) = 0 /\ KeptBehind(n)
          [] OTHER               -> KeptBehind(n)

\* The functions that look at texts and those that write them.
StringsSound == StringsAgree /\ CopiesKeepTheRest

\* The number a text of digits stands for.
Reads(s, base) ==
  LET value(c) == IF c >= 97 THEN c - 97 + 10 ELSE IF c >= 65 THEN c - 65 + 10 ELSE c - Zero
  IN  FoldSet(LAMBDA k, sum : sum + value(s[k]) * base ^ (Len(s) - k), 0, DOMAIN s)

\* What is printed is the number: atoi reads %d back, and the digits of the other
\* conversions stand for the word, or the first of two words, as an unsigned number.  Not
\* for the smallest number, which has no positive, nor for zeros behind a number or a
\* precision, which change it.
PrintsTheNumber ==
  job = "print" /\ text # <<>> =>
    LET f == print.f  fields == print.fmin # 0 \/ print.fmax # 0 IN
    /\ f = "d" /\ print.arg # -(2 ^ (DecimalBits - 1)) /\ print.fmax = 0
         /\ ~(print.leftjust /\ print.zero) => atoi(text) = print.arg
    /\ f = "u" /\ ~fields => Reads(text, 10) = print.arg % 2 ^ DecimalBits
    /\ f = "o" /\ ~fields => Reads(text, 8) = print.arg % 2 ^ Bits
    /\ f \in {"x", "X"} /\ ~fields => Reads(text, 16) = print.arg % 2 ^ Bits
    /\ f = "b" /\ ~fields => Reads(text, 2) = print.arg % 2 ^ Bits
    /\ f \in {"h", "H"} /\ ~fields =>
         Reads(SubSeq(text, 1, Min({Len(text), Bits \div 4})), 16) = print.arg[1] % 2 ^ Bits

\* A field has the width asked for, sign, digits and filling together, unless what is
\* printed needs more; a width beyond MAXSTR is none (fdoprnt.c:195).
FieldHasItsWidth ==
  job = "print" /\ text # <<>> =>
    LET width == InField(print.fmin)
        bare  == _doprnt(print.f, print.arg, print.leftjust, FALSE, 0, print.fmax)
    IN  Len(text) = Max({width, Len(bare)})

\* What is printed is the number, in a field of the width asked for (doprnt.c, fdoprnt.c).
PrintsAsAsked == PrintsTheNumber /\ FieldHasItsWidth

\* The words of a text: its stretches without white space.
WordsOf(s) ==
  {w \in (DOMAIN s) \X (DOMAIN s) :
     /\ w[1] <= w[2] /\ \A k \in w[1] .. w[2] : s[k] \notin SPC
     /\ w[1] - 1 \in DOMAIN s => s[w[1] - 1] \in SPC
     /\ w[2] + 1 \in DOMAIN s => s[w[2] + 1] \in SPC}

\* A word that %s printed, in a field or not, is read back by %s.
ReadsBackWords ==
  /\ job = "print" /\ scanned # None /\ print.f = "s" /\ print.fmax = 0
  /\ print.arg # <<>> /\ Len(print.arg) < NoWidth
  /\ (\A k \in DOMAIN print.arg : print.arg[k] \notin SPC)
  => scanned.stored = <<print.arg>>

\* Whatever the format, what is returned is the number of values stored, or -1 at the end
\* of the text (doscan.c:121): with nothing stored, unless it was a character to be matched
\* that met the end (doscan.c:144).
ReturnsTheCount ==
  job = "scan" /\ scanned # None =>
    \/ scanned.result = Len(scanned.stored)
    \/ /\ scanned.result = -1 /\ scanned.pos > Len(text)
       /\ \/ scanned.stored = <<>>
          \/ \E k \in DOMAIN scanned.fmt : scanned.fmt[k].kind = "literal"

\* sscanf with %s for each word stores the words from the first on, one each, and returns
\* how many, or -1 when the text has none (doscan.c:41).
ReadsTheWords ==
  job = "scan" /\ scanned # None =>
    LET fmt == scanned.fmt  words == WordsOf(text) IN
    (\A k \in DOMAIN fmt : fmt[k] = Conversion("s", NoWidth, TRUE)) =>
      /\ Len(scanned.stored) = Min({Len(fmt), Cardinality(words)})
      /\ (words = {}) <=> (scanned.result = -1)
      /\ \A k \in DOMAIN scanned.stored : \E w \in words :
           /\ scanned.stored[k] = SubSeq(text, w[1], w[2])
           /\ k = Cardinality({v \in words : v[2] <= w[2]})

ScansWords == ReadsBackWords /\ ReturnsTheCount /\ ReadsTheWords

\* Printing and scanning.
PrintsAndScans == PrintsAsAsked /\ ScansWords
=============================================================================
