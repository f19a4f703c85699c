------------------------------- MODULE MCLib -------------------------------
(***************************************************************************)
(* TLC instance of Library: every word of 9 bits in decimal and of 8 bits  *)
(* in the other bases, in fields up to one wider than the widest; texts    *)
(* of up to five characters scanned by formats of each kind of directive.  *)
(***************************************************************************)
EXTENDS Library

Conversions(F, Args, Flags, Widths, Precisions) ==
  [f : F, arg : Args, leftjust : Flags, zero : Flags, fmin : Widths, fmax : Precisions]

SomeChars == {-1, 0, 97}
Words(n) == UNION {[1 .. k -> {97, 98}] : k \in 0 .. n}

SomePrints ==
  Conversions({"d"}, -256 .. 255, BOOLEAN, {-1, 0, 3, 6, 7}, {0})
  \cup Conversions({"d"}, {-256, -12, 0, 255}, BOOLEAN, {0, 4}, {0, 2})
  \cup Conversions({"u"}, -256 .. 255, BOOLEAN, {0, 6}, {0})
  \cup Conversions({"o", "x", "X", "b"}, -128 .. 127, BOOLEAN, {0, 6}, {0})
  \cup Conversions({"h", "H"}, [1 .. 2 -> {-128, -1, 0, 5, 16, 127}], BOOLEAN, {0, 6}, {0})
  \cup Conversions({"s"}, Words(3), BOOLEAN, {0, 2, 5}, {0, 2, 7})
  \cup Conversions({"c"}, {97}, BOOLEAN, {0, 3}, {0})

SomeTexts == UNION {[1 .. k -> {Blank, 97, Minus}] : k \in 0 .. 5}

String == Conversion("s", NoWidth, TRUE)
SomeFormats ==
  {<<String>>, <<String, String>>, <<String, String, String>>,
   <<Conversion("s", 2, TRUE), String>>, <<Conversion("s", NoWidth, FALSE), String>>,
   <<Conversion("c", NoWidth, TRUE), White, Conversion("c", 2, TRUE)>>,
   <<Class({97}, FALSE), Class({97}, TRUE)>>, <<Conversion("s", 2, TRUE), Literal(97)>>,
   <<White, Literal(97), Literal(Minus), Conversion("x", 3, TRUE), String>>,
   <<Conversion("d", NoWidth, TRUE), Conversion("d", 1, TRUE)>>}
=============================================================================
