------------------------------ MODULE Strings ------------------------------
(***************************************************************************)
(* The string functions of the C library.  A buffer is a sequence of       *)
(* characters, its text ends before the first NUL; a character is its      *)
(* code, signed as the compiler has it, and a pointer into a buffer is a   *)
(* position, 0 for NULL.                                                   *)
(***************************************************************************)
EXTENDS Integers, Sequences, FiniteSetsExt

NUL == 0
NULL == 0

At(s, c)  == {i \in DOMAIN s : s[i] = c}
Lowest(S)  == IF S = {} THEN NULL ELSE Min(S)
Highest(S) == IF S = {} THEN NULL ELSE Max(S)
Unsigned(c) == c % 256
Signum(n) == IF n < 0 THEN -1 ELSE IF n > 0 THEN 1 ELSE 0

Terminated(s) == At(s, NUL) # {}
strlen(s) == Min(At(s, NUL)) - 1

\* The length, at most n; the text may fill the buffer.
strnlen(s, n) == Min({n} \cup {i - 1 : i \in At(s, NUL)})
Text(s) == SubSeq(s, 1, strlen(s))
----------------------------------------------------------------------------
\* Where two buffers stop being the same text: at a difference or at the end of both.
Stops(s, t) == {i \in DOMAIN s \cap DOMAIN t : s[i] # t[i] \/ s[i] = NUL}

strcmp(s, t) ==
  LET i == Min(Stops(s, t)) IN IF s[i] = t[i] THEN 0 ELSE Signum(s[i] - t[i])

\* Faulty variant: one character too many is compared.
strncmpLong(s, t, n) ==
  LET D == {i \in Stops(s, t) : i <= n + 1} IN IF D = {} THEN 0 ELSE s[Min(D)] - t[Min(D)]

strncmp(s, t, n) ==
  LET D == {i \in Stops(s, t) : i <= n} IN IF D = {} THEN 0 ELSE s[Min(D)] - t[Min(D)]

memcmp(s, t, n) ==
  LET D == {i \in 1 .. n : s[i] # t[i]} IN
  IF D = {} THEN 0 ELSE Unsigned(s[Min(D)]) - Unsigned(t[Min(D)])
----------------------------------------------------------------------------
InText(s) == 1 .. strlen(s)

\* NUL is found too: it is at the end of the text.
strchr(s, c) == Lowest(At(s, c) \cap (InText(s) \cup {strlen(s) + 1}))

strrchr(s, c) ==
  IF c = NUL THEN strlen(s) + 1 ELSE Highest(At(s, c) \cap InText(s))

\* The number of bytes is not looked at: the search ends at NUL, and compares a signed
\* character with an unsigned one.
memchr(s, c, n) == Lowest({i \in InText(s) : s[i] = Unsigned(c)})

\* t is looked for where its first character is: an empty t is nowhere.
strstr(s, t) ==
  Lowest({p \in InText(s) : s[p] = t[1] /\
            \A k \in InText(t) : p + k - 1 <= strlen(s) /\ s[p + k - 1] = t[k]})
----------------------------------------------------------------------------
\* What the target holds afterwards.  The caller sees to it that there is room.
strcpy(d, s) ==
  [i \in DOMAIN d |-> IF i <= strlen(s) + 1 THEN s[i] ELSE d[i]]

\* At most n characters, and NULs up to n: a text of n characters is not terminated.
strncpy(d, s, n) ==
  [i \in DOMAIN d |-> IF i > n THEN d[i] ELSE IF i <= strnlen(s, n) THEN s[i] ELSE NUL]

\* Faulty variant: the limit is looked at after one character too many.
strncatLong(d, s, n) ==
  LET a == strlen(d)  k == Min({n + 1, strlen(s)}) IN
  [i \in DOMAIN d |-> IF i \in a + 1 .. a + k THEN s[i - a]
                      ELSE IF i = a + k + 1 THEN NUL ELSE d[i]]

\* At most n characters behind the text of d, and a NUL.
strncat(d, s, n) ==
  LET a == strlen(d)  k == Min({n, strlen(s)}) IN
  [i \in DOMAIN d |-> IF i \in a + 1 .. a + k THEN s[i - a]
                      ELSE IF i = a + k + 1 THEN NUL ELSE d[i]]

memcpy(d, s, n) == [i \in DOMAIN d |-> IF i <= n THEN s[i] ELSE d[i]]
memset(d, c, n) == [i \in DOMAIN d |-> IF i <= n THEN c ELSE d[i]]
bzero(d, n)     == [i \in DOMAIN d |-> IF i <= n THEN NUL ELSE d[i]]
=============================================================================
