------------------------------ MODULE Format ------------------------------
(***************************************************************************)
(* atoi, and one conversion of _doprnt and _fdoprnt, which differ in their  *)
(* output function and in %h and %H, which only doprnt.c has.  A text is   *)
(* a sequence of character codes.  Words have fewer bits than 32, in the   *)
(* proportions that the code relies on: as many octal digits as cover a    *)
(* word, whole hexadecimal digits, and a power of ten that fits twice in   *)
(* the positive numbers for %u to take away.                               *)
(***************************************************************************)
EXTENDS Integers, Sequences, FiniteSetsExt

CONSTANTS
  DecimalBits,   \* the bits of a word for %d and %u
  Power,         \* 1000000000 in the code: the place value of the first digit
  Bits,          \* the bits of a word for %o, %x, %X and %b
  MAXSTR         \* the widest field

ASSUME FormatAssumption ==
  /\ {DecimalBits, Power, Bits, MAXSTR} \subseteq Nat \ {0}
  /\ 2 * Power <= 2 ^ (DecimalBits - 1) /\ 2 ^ DecimalBits <= 10 * Power
  /\ Bits % 4 = 0 /\ Bits % 3 = 2

Blank == 32
Tab   == 9
Minus == 45
Plus  == 43
Zero  == 48
Digits == Zero .. Zero + 9

Wrapped(n, bits) == ((n + 2 ^ (bits - 1)) % 2 ^ bits) - 2 ^ (bits - 1)

----------------------------------------------------------------------------
\* Blanks, one sign, and digits as far as they go.
FirstOther(s, p, C) == Min({Len(s) + 1} \cup {i \in p .. Len(s) : s[i] \notin C})

atoi(s) ==
  LET p == FirstOther(s, 1, {Blank, Tab})
      f == IF p <= Len(s) /\ s[p] \in {Minus, Plus} THEN p + 1 ELSE p
      e == FirstOther(s, f, Digits)
      n == FoldSet(LAMBDA i, sum : sum + (s[i] - Zero) * 10 ^ (e - 1 - i), 0, f .. e - 1)
  IN  Wrapped(IF f > p /\ s[p] = Minus THEN -n ELSE n, DecimalBits)
----------------------------------------------------------------------------
\* The digit at a place, the lowest being 0: of a negative number the remainders of the
\* division are negative, and shifts and masks take the bits of its complement.
Divided10(num, place) ==
  IF num >= 0 THEN (num \div 10 ^ place) % 10 ELSE -(((-num) \div 10 ^ place) % 10)
Masked(num, base, place) == ((num % 2 ^ Bits) \div base ^ place) % base

\* temp[], whose digits have the places of digit, without its leading zeros and highest
\* place first; 0 keeps one digit.  A is the letter of 10.
Trimmed(digit, A) ==
  LET top == Max({0} \cup {k \in DOMAIN digit : digit[k] # 0})
  IN  [i \in 1 .. top + 1 |->
         LET d == digit[top + 1 - i] IN IF d < 10 THEN Zero + d ELSE A + d - 10]

DigitPlaces(base, bits) == 0 .. Min({n \in 1 .. bits : base ^ n >= 2 ^ bits}) - 1

_prtl10(num) == Trimmed([k \in DigitPlaces(10, DecimalBits) |-> Divided10(num, k)], 97)
_prtl8(num)  == Trimmed([k \in DigitPlaces(8, Bits) |-> Masked(num, 8, k)], 97)
_prtl16(num) == Trimmed([k \in 0 .. Bits \div 4 - 1 |-> Masked(num, 16, k)], 97)
_prtX16(num) == Trimmed([k \in 0 .. Bits \div 4 - 1 |-> Masked(num, 16, k)], 65)
_prtl2(num)  == Trimmed([k \in DigitPlaces(2, Bits) |-> Masked(num, 2, k)], 97)

\* Faulty variant: Power is taken away once at most.
_prtuOnce(larg) ==
  LET times == IF larg < 0 THEN 1 ELSE 0
      s == _prtl10(Wrapped(larg - times * Power, DecimalBits))
  IN  [s EXCEPT ![1] = @ + times]

\* %u: a number read as negative is brought into the positive numbers by taking Power
\* away, and the first digit gets back how often that was.
_prtu(larg) ==
  LET times == Min({k \in 0 .. 9 : Wrapped(larg - k * Power, DecimalBits) >= 0})
      s == _prtl10(Wrapped(larg - times * Power, DecimalBits))
  IN  [s EXCEPT ![1] = @ + times]

\* %h and %H put the second word behind the place of the last digit of the first: it is
\* seen if the first has all its digits.
TwoWords(first, second) == IF Len(first) < Bits \div 4 THEN first ELSE first \o second

\* The text of a conversion, without its sign.  Any other letter is printed itself, and
\* then what string held, which is left out.
Converted(f, arg) ==
  CASE f = "d" -> _prtl10(IF arg < 0 THEN Wrapped(-arg, DecimalBits) ELSE arg)
    [] f = "u" -> _prtu(arg)
    [] f = "o" -> _prtl8(arg)
    [] f = "x" -> _prtl16(arg)
    [] f = "X" -> _prtX16(arg)
    [] f = "b" -> _prtl2(arg)
    [] f = "h" -> TwoWords(_prtl16(arg[1]), _prtl16(arg[2]))
    [] f = "H" -> TwoWords(_prtX16(arg[1]), _prtX16(arg[2]))
    [] f = "c" -> <<arg>>
    [] f = "s" -> arg

Fill(n, c) == [i \in 1 .. n |-> c]
InField(n) == IF n > MAXSTR \/ n < 0 THEN 0 ELSE n

\* Faulty variant: the sign is not counted in the width of the field.
LeadingUnsigned(fmin, shown, sign) ==
  IF InField(fmin) = 0 THEN 0 ELSE InField(fmin) - Len(shown)

\* How many characters fill the field.
Leading(fmin, shown, sign) ==
  IF InField(fmin) = 0 THEN 0 ELSE InField(fmin) - Len(shown) - Len(sign)

\* One conversion: the sign stands before zeros and behind blanks; what fills the field
\* stands before the text, or behind it if leftjust.
_doprnt(f, arg, leftjust, zero, fmin, fmax) ==
  LET str     == Converted(f, arg)
      sign    == IF f = "d" /\ arg < 0 THEN <<Minus>> ELSE <<>>
      fill    == IF zero /\ f \notin {"c", "s"} THEN Zero ELSE Blank
      most    == IF f \in {"s", "d"} THEN InField(fmax) ELSE 0
      shown   == IF most # 0 THEN SubSeq(str, 1, Min({Len(str), most})) ELSE str
      leading == Fill(Leading(fmin, shown, sign), fill)
      body    == IF leftjust THEN shown \o leading ELSE leading \o shown
  IN  IF fill = Zero \/ leftjust THEN sign \o body ELSE leading \o sign \o shown

_fdoprnt(f, arg, leftjust, zero, fmin, fmax) == _doprnt(f, arg, leftjust, zero, fmin, fmax)
=============================================================================
