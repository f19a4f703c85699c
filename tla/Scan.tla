------------------------------- MODULE Scan -------------------------------
(***************************************************************************)
(* sscanf: _doscan, _innum and _instr over a text in memory.  A format is  *)
(* a sequence of directives: a conversion with its width and whether its   *)
(* result is stored, a character to be matched, or white space.            *)
(* fscanf reads nothing: its getch leaves a buffer that is empty as it is. *)
(***************************************************************************)
EXTENDS Format

NewLine == 10
SPC == {Blank, Tab, NewLine}         \* _sctab
NoWidth == 30000
EOFChar == -2                        \* what sgetch returns at the end of the text

Conversion(f, len, store) == [kind |-> "conversion", f |-> f, len |-> len, store |-> store]
Class(chars, not) ==
  [kind |-> "conversion", f |-> "[", len |-> NoWidth, store |-> TRUE,
   chars |-> chars, not |-> not]
Literal(c) == [kind |-> "literal", c |-> c]
White      == [kind |-> "white"]

Directives ==
  [kind : {"conversion"}, f : {"d", "o", "x", "s", "c"}, len : 1 .. NoWidth, store : BOOLEAN]
  \cup [kind : {"conversion"}, f : {"["}, len : 1 .. NoWidth, store : BOOLEAN,
        chars : SUBSET Int, not : BOOLEAN]
  \cup [kind : {"literal"}, c : Int] \cup {White}

\* sgetch: the end of the text is not passed.
CharAt(s, p) == IF p <= Len(s) THEN s[p] ELSE EOFChar
----------------------------------------------------------------------------
Signed(s, p) == CharAt(s, p) \in {Minus, Plus}
Base(f) == IF f = "o" THEN 8 ELSE IF f = "x" THEN 16 ELSE 10
HexLetter(c) == c \in 97 .. 102 \cup 65 .. 70
LetterValue(c) == IF c >= 97 THEN c - 97 + 10 ELSE c - 65 + 10

\* A character is accepted if it is a digit or the base is 16, and if it is a letter.
Accepted(c, base) == (c \in Digits \/ base = 16) /\ HexLetter(c)

\* A conversion of a number from position p on.  Something is stored if anything was
\* copied to numbuf; a minus sign is enough.
_innum(s, p, d) ==
  LET base  == Base(d.f)
      start == FirstOther(s, p, SPC)
      first == IF Signed(s, start) THEN start + 1 ELSE start
      width == IF Signed(s, start) THEN d.len - 1 ELSE d.len
      limit == Min({Len(s), first + width - 1})
      end   == Min({limit + 1} \cup {i \in first .. limit : ~Accepted(s[i], base)})
      lcval == FoldSet(LAMBDA i, sum : sum + LetterValue(s[i]) * base ^ (end - 1 - i),
                       0, first .. end - 1)
      minus == CharAt(s, start) = Minus
  IN  [pos     |-> end,
       matched |-> d.store /\ (minus \/ end > first),
       value   |-> IF minus THEN -lcval ELSE lcval,
       ended   |-> end > Len(s)]

\* The characters of %[...], or with ^ all the others.
_getccl(d, c) == (c \in d.chars) # d.not

\* Which characters go on with a conversion of characters.
Takes(d, c) ==
  CASE d.f = "c" -> TRUE [] d.f = "s" -> c \notin SPC [] d.f = "[" -> _getccl(d, c)

\* A conversion of characters: %s passes white space and stops at it.  Stopped by its
\* width, it has read the last character and ends neither the text nor the scan.
_instr(s, p, d) ==
  LET len   == IF d.f = "c" /\ d.len = NoWidth THEN 1 ELSE d.len
      start == IF d.f = "s" THEN FirstOther(s, p, SPC) ELSE p
      end   == Min({Len(s) + 1, start + len} \cup {i \in start .. Len(s) : ~Takes(d, s[i])})
  IN  [pos     |-> end,
       matched |-> d.store /\ end > start,
       value   |-> SubSeq(s, start, end - 1),
       ended   |-> end > Len(s) /\ end < start + len]

Convert(s, p, d) == IF d.f \in {"c", "s", "["} THEN _instr(s, p, d) ELSE _innum(s, p, d)
----------------------------------------------------------------------------
Going(p, stored) == [pos |-> p, stored |-> stored, going |-> TRUE, result |-> Len(stored)]
Ending(p, stored, r) == [pos |-> p, stored |-> stored, going |-> FALSE, result |-> r]

\* Faulty variant: the end of the text is not reported by a scan that stored nothing.
AfterConversionZero(st, c) ==
  LET stored == IF c.matched THEN Append(st.stored, c.value) ELSE st.stored
  IN  IF c.ended THEN Ending(c.pos, stored, Len(stored)) ELSE Going(c.pos, stored)

\* The end of the text ends the scan: -1 if nothing was stored.
AfterConversion(st, c) ==
  LET stored == IF c.matched THEN Append(st.stored, c.value) ELSE st.stored
  IN  IF c.ended THEN Ending(c.pos, stored, IF stored = <<>> THEN -1 ELSE Len(stored))
      ELSE Going(c.pos, stored)

\* One directive of the format.
Directive(s, st, d) ==
  IF ~st.going THEN st
  ELSE CASE d.kind = "conversion" -> AfterConversion(st, Convert(s, st.pos, d))
         [] d.kind = "white"      -> Going(FirstOther(s, st.pos, SPC), st.stored)
         [] d.kind = "literal"    ->
              IF CharAt(s, st.pos) = d.c THEN Going(st.pos + 1, st.stored)
              ELSE Ending(st.pos, st.stored,
                          IF st.pos > Len(s) THEN -1 ELSE Len(st.stored))

\* The position, the values stored and the value returned when the format has ended.
_doscan(s, fmt) ==
  LET scan[n \in 0 .. Len(fmt)] ==
        IF n = 0 THEN Going(1, <<>>) ELSE Directive(s, scan[n - 1], fmt[n])
  IN  scan[Len(fmt)]
=============================================================================
